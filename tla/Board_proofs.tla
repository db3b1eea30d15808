---------------------------- MODULE Board_proofs ----------------------------
(***************************************************************************)
(* Proofs about the external interrupts, the transactions of SPI, the pins *)
(* and the tone, in a program that makes any calls of the board.  For the  *)
(* first two, what is left of a call tells how far the masks, the pointers *)
(* and the interrupt bit have got, and the calls that leave the masks      *)
(* alone are told apart no further than by their protected sections        *)
(* (Runs).  For the last two, what is left of a call is still to bring     *)
(* about what is not yet as it was asked for, and nothing else (PinInv).   *)
(***************************************************************************)
EXTENDS Board, SequenceTheorems, TLAPS

-----------------------------------------------------------------------------
(* The inductive invariant *)

\* Accesses that have nothing to do with interrupts, but for cli and sei.
WiringOps == {"load", "set", "clear", "duty", "read", "admux", "convert", "write",
              "prescale", "tone_pin", "top", "count", "compare_interrupt"}

\* Outside of a protected section, or in one.
Sides == {"free", "held"}

\* The registers that the program writes without a protected section.
TimerRegisters == {"TCCR0A", "TCCR1A", "TCCR2A"}

IsStore(x) == x.op \in {"set", "clear"}

Anywhere(x) == x.op \in WiringOps /\ (IsStore(x) => x.reg \in TimerRegisters)

Leads(x, a, b) ==
    \/ x.op = "cli" /\ a = "free" /\ b = "held"
    \/ x.op = "sei" /\ a = "held" /\ b = "free"
    \/ x.op \in WiringOps /\ a = b /\ (a = "free" => Anywhere(x))

Items(s) == {s[i] : i \in DOMAIN s}

\* s goes from side a to side b, and every access is met on a side where it may be.
Runs(s, a, b) ==
    /\ s \in Seq(Items(s))
    /\ \E d \in [1 .. Len(s) + 1 -> Sides] :
           /\ d[1] = a /\ d[Len(s) + 1] = b
           /\ \A i \in 1 .. Len(s) : Leads(s[i], d[i], d[i + 1])

Attached == {n \in Lines : attached[n] # nothing}

\* The interrupt bit outside of protected sections.
Outer == ~(open /\ interruptMode = "global")

InterruptsAre(a) == IF a = "held" THEN ~interrupts /\ (sreg <=> Outer) ELSE interrupts <=> Outer

PointersWhole == \A n \in Attached : intFunc[n] = Pointer(attached[n])

\* Between the calls of attachInterrupt and its like.
Steady ==
    /\ EIMSK = IF open /\ interruptMode = "mask" THEN Attached \ interruptMask ELSE Attached
    /\ open /\ interruptMode = "mask" => interruptSave = Attached
    /\ open /\ interruptMode = "global" => interruptSave = {AnyInterrupt}
    /\ PointersWhole

\* A call of the wiring library, or none; tone and noTone before they have looked
\* at tone_pins.
Wiring == Steady /\ \E a \in Sides : Runs(script, a, "free") /\ InterruptsAre(a)

Deciding ==
    /\ Steady /\ InterruptsAre("free")
    /\ script = <<script[1]>> /\ script[1].op \in {"begin", "end"}

Attaching == \E n \in Lines, f \in UserFuncs :
    /\ ~open /\ interrupts
    /\ attached[n] = f /\ EIMSK = Attached \ {n}
    /\ \A m \in Attached \ {n} : intFunc[m] = Pointer(attached[m])
    /\ \/ script = <<Half(n, 1, f), Half(n, 2, f), Other("enable", n)>>
       \/ script = <<Half(n, 2, f), Other("enable", n)>> /\ intFunc[n][1] = f
       \/ script = <<Other("enable", n)>> /\ intFunc[n] = Pointer(f)

Detaching == \E n \in Lines :
    /\ ~open /\ interrupts /\ attached[n] = nothing /\ PointersWhole
    /\ \/ /\ script = <<Other("disable", n), Half(n, 1, nothing), Half(n, 2, nothing)>>
          /\ EIMSK \in {Attached, Attached \cup {n}}
          /\ n \in EIMSK => intFunc[n] \in {Pointer(f) : f \in UserFuncs}
       \/ script = <<Half(n, 1, nothing), Half(n, 2, nothing)>> /\ EIMSK = Attached
       \/ script = <<Half(n, 2, nothing)>> /\ EIMSK = Attached

Guarded(x) ==
    \/ script = <<Other("cli", 0), x, Other("sei", 0)>> /\ interrupts
    \/ script = <<x, Other("sei", 0)>> /\ ~interrupts /\ sreg

Settings ==
    {Other("spi_begin", 0), Other("spi_end", 0)}
       \cup {Other(op, n) : op \in {"using", "not_using"}, n \in Lines \cup {AnyInterrupt}}

Configuring ==
    /\ ~open /\ Steady
    /\ \E x \in Settings : Guarded(x) /\ (x.op = "not_using" => interruptMode # "global")

\* The calls that begin and end a transaction, in the mode that masks lines and
\* in the one that turns interrupts off.
Masking ==
    /\ open /\ interruptMode = "mask" /\ EIMSK = Attached /\ PointersWhole
    /\ Guarded(Other("save_mask", 0))

Unmasking ==
    /\ ~open /\ interruptSave = Attached /\ EIMSK \subseteq Attached /\ PointersWhole
    /\ Guarded(Other("restore_mask", 0))

TurningOff ==
    /\ open /\ interruptMode = "global" /\ EIMSK = Attached /\ PointersWhole
    /\ \/ script = <<Other("cli", 0), Other("save_sreg", 0)>> /\ interrupts
       \/ script = <<Other("save_sreg", 0)>> /\ ~interrupts /\ sreg

TurningOn ==
    /\ ~open /\ interruptSave = {AnyInterrupt} /\ ~interrupts
    /\ EIMSK = Attached /\ PointersWhole
    /\ \/ script = <<Other("cli", 0), Other("restore_sreg", 0)>>
       \/ script = <<Other("restore_sreg", 0)>>

TypeOK ==
    /\ interrupts \in BOOLEAN /\ sreg \in BOOLEAN /\ open \in BOOLEAN
    /\ intFunc \in [Lines -> [1 .. 2 -> UserFuncs \cup {nothing}]]
    /\ attached \in [Lines -> UserFuncs \cup {nothing}]
    /\ EIMSK \subseteq Lines /\ EIFR \subseteq Lines
    /\ interruptMode \in {"none", "mask", "global"}
    /\ usesBus \subseteq Lines \cup {AnyInterrupt} /\ interruptMask \subseteq Lines

\* What the program has named to the library is masked, or turns interrupts off.
NamedMasked ==
    /\ interruptMode = "none" => usesBus = {}
    /\ interruptMode = "mask" => usesBus \subseteq interruptMask

Phase ==
    \/ Wiring \/ Deciding \/ Attaching \/ Detaching \/ Configuring
    \/ Masking \/ Unmasking \/ TurningOff \/ TurningOn

Inv == TypeOK /\ NamedMasked /\ EventsAreHandled /\ Phase

-----------------------------------------------------------------------------
(* Scripts *)

LEMMA SeqOfItems ==
    ASSUME NEW S, NEW s \in Seq(S)
    PROVE  s \in Seq(Items(s)) /\ Items(s) \subseteq S
<1>1. s \in [1 .. Len(s) -> S] /\ Len(s) \in Nat /\ DOMAIN s = 1 .. Len(s)
  BY LenProperties
<1>2. s \in [1 .. Len(s) -> Items(s)] /\ Items(s) \subseteq S
  BY <1>1 DEF Items
<1>3. QED
  BY <1>1, <1>2, SeqDef

\* A script that runs on from where another one ends.
LEMMA RunsJoin ==
    ASSUME NEW s, NEW u, NEW a, NEW b, NEW c, Runs(s, a, b), Runs(u, b, c)
    PROVE  Runs(s \o u, a, c)
<1> DEFINE S == Items(s) \cup Items(u)
           v == s \o u
<1>1. s \in Seq(S) /\ u \in Seq(S)
  <2>1. s \in Seq(Items(s)) /\ u \in Seq(Items(u))
    BY DEF Runs
  <2>2. QED
    BY <2>1, SeqMonotonic
<1>2. /\ v \in Seq(S) /\ Len(v) = Len(s) + Len(u)
      /\ \A i \in 1 .. Len(s) + Len(u) :
             v[i] = IF i <= Len(s) THEN s[i] ELSE u[i - Len(s)]
  BY <1>1, ConcatProperties
<1>3. Len(s) \in Nat /\ Len(u) \in Nat
  BY <1>1, LenProperties
<1>4. PICK d \in [1 .. Len(s) + 1 -> Sides] :
           /\ d[1] = a /\ d[Len(s) + 1] = b
           /\ \A i \in 1 .. Len(s) : Leads(s[i], d[i], d[i + 1])
  BY DEF Runs
<1>5. PICK e \in [1 .. Len(u) + 1 -> Sides] :
           /\ e[1] = b /\ e[Len(u) + 1] = c
           /\ \A i \in 1 .. Len(u) : Leads(u[i], e[i], e[i + 1])
  BY DEF Runs
<1> DEFINE g == [i \in 1 .. Len(v) + 1 |-> IF i <= Len(s) THEN d[i] ELSE e[i - Len(s)]]
<1> HIDE DEF v
<1>6. /\ g \in [1 .. Len(v) + 1 -> Sides]
      /\ \A i \in 1 .. Len(v) + 1 : g[i] = IF i <= Len(s) THEN d[i] ELSE e[i - Len(s)]
  BY <1>2, <1>3
<1> HIDE DEF g
<1>7. g[1] = a
  <2>1. CASE Len(s) = 0
    BY <1>2, <1>3, <1>4, <1>5, <1>6, <2>1
  <2>2. CASE Len(s) # 0
    BY <1>2, <1>3, <1>4, <1>6, <2>2
  <2>3. QED
    BY <2>1, <2>2
<1>8. g[Len(v) + 1] = c
  <2>1. /\ Len(v) + 1 \in 1 .. Len(v) + 1 /\ ~(Len(v) + 1 <= Len(s))
        /\ (Len(v) + 1) - Len(s) = Len(u) + 1
    BY <1>2, <1>3
  <2>2. g[Len(v) + 1] = e[Len(u) + 1]
    BY <1>6, <2>1
  <2>3. QED
    BY <1>5, <2>2
<1>9. ASSUME NEW i \in 1 .. Len(v) PROVE Leads(v[i], g[i], g[i + 1])
  <2>1. CASE i < Len(s)
    <3>1. /\ i \in 1 .. Len(s) /\ i \in 1 .. Len(v) + 1 /\ i + 1 \in 1 .. Len(v) + 1
          /\ i <= Len(s) /\ i + 1 <= Len(s)
      BY <1>2, <1>3, <2>1
    <3>2. v[i] = s[i]
      BY <1>2, <3>1
    <3>3. g[i] = d[i] /\ g[i + 1] = d[i + 1]
      BY <1>6, <3>1
    <3>4. QED
      BY <1>4, <3>1, <3>2, <3>3
  <2>2. CASE i = Len(s)
    <3>1. v[i] = s[i] /\ g[i] = d[i] /\ g[i + 1] = e[1] /\ d[i + 1] = e[1]
      BY <1>2, <1>3, <1>4, <1>5, <1>6, <2>2
    <3>2. QED
      BY <1>3, <1>4, <2>2, <3>1
  <2>3. CASE i > Len(s)
    <3>1. i - Len(s) \in 1 .. Len(u) /\ (i - Len(s)) + 1 = (i + 1) - Len(s)
      BY <1>2, <1>3, <2>3
    <3>2. v[i] = u[i - Len(s)] /\ g[i] = e[i - Len(s)] /\ g[i + 1] = e[(i + 1) - Len(s)]
      BY <1>2, <1>3, <1>6, <2>3
    <3>3. QED
      BY <1>5, <3>1, <3>2
  <2>4. QED
    BY <1>3, <2>1, <2>2, <2>3
<1>10. v \in Seq(Items(v))
  BY <1>2, SeqOfItems
<1>11. QED
  BY <1>6, <1>7, <1>8, <1>9, <1>10 DEF Runs, v

LEMMA RunsNone == ASSUME NEW a \in Sides PROVE Runs(<<>>, a, a)
<1>1. <<>> \in Seq(Items(<<>>)) /\ Len(<<>>) = 0
  BY EmptySeq
<1> DEFINE d == [i \in 1 .. 1 |-> a]
<1>2. d \in [1 .. Len(<<>>) + 1 -> Sides] /\ d[1] = a /\ d[Len(<<>>) + 1] = a
  BY <1>1
<1>3. 1 .. Len(<<>>) = {}
  BY <1>1
<1> HIDE DEF d
<1>4. QED
  BY <1>1, <1>2, <1>3 DEF Runs

LEMMA RunsOne ==
    ASSUME NEW x, NEW a \in Sides, NEW b \in Sides, Leads(x, a, b)
    PROVE  Runs(<<x>>, a, b)
<1> DEFINE s == <<x>>
           d == [i \in 1 .. 2 |-> IF i = 1 THEN a ELSE b]
<1>1. s \in Seq({x}) /\ Len(s) = 1 /\ s[1] = x
  OBVIOUS
<1>2. s \in Seq(Items(s))
  BY <1>1, SeqOfItems
<1>3. d \in [1 .. Len(s) + 1 -> Sides] /\ d[1] = a /\ d[Len(s) + 1] = b
  BY <1>1
<1>4. \A i \in 1 .. Len(s) : Leads(s[i], d[i], d[i + 1])
  BY <1>1
<1>5. QED
  BY <1>2, <1>3, <1>4 DEF Runs

LEMMA RunsOn ==
    ASSUME NEW s, NEW a, NEW c, Runs(s, a, c), s # <<>>
    PROVE  \E b \in Sides : Leads(Head(s), a, b) /\ Runs(Tail(s), b, c)
<1> DEFINE u == Tail(s)
<1>1. /\ Len(s) \in Nat \ {0} /\ u \in Seq(Items(s)) /\ Len(u) = Len(s) - 1
      /\ Head(s) = s[1] /\ \A i \in 1 .. Len(u) : u[i] = s[i + 1]
  BY EmptySeq, HeadTailProperties DEF Runs
<1>2. PICK d \in [1 .. Len(s) + 1 -> Sides] :
           /\ d[1] = a /\ d[Len(s) + 1] = c
           /\ \A i \in 1 .. Len(s) : Leads(s[i], d[i], d[i + 1])
  BY DEF Runs
<1> DEFINE e == [i \in 1 .. Len(u) + 1 |-> d[i + 1]]
<1> HIDE DEF u
<1>3. /\ e \in [1 .. Len(u) + 1 -> Sides] /\ e[1] = d[2] /\ e[Len(u) + 1] = c
      /\ \A i \in 1 .. Len(u) + 1 : e[i] = d[i + 1]
  BY <1>1, <1>2
<1> HIDE DEF e
<1>4. ASSUME NEW i \in 1 .. Len(u) PROVE Leads(u[i], e[i], e[i + 1])
  <2>1. u[i] = s[i + 1] /\ e[i] = d[i + 1] /\ e[i + 1] = d[(i + 1) + 1] /\ i + 1 \in 1 .. Len(s)
    BY <1>1, <1>3
  <2>2. QED
    BY <1>2, <2>1
<1>5. u \in Seq(Items(u))
  BY <1>1, SeqOfItems
<1>6. Runs(u, d[2], c)
  BY <1>3, <1>4, <1>5 DEF Runs
<1>7. d[2] \in Sides /\ Leads(Head(s), a, d[2])
  BY <1>1, <1>2
<1>8. QED
  BY <1>6, <1>7 DEF u

LEMMA RunsTwo ==
    ASSUME NEW x, NEW y, NEW a \in Sides, Leads(x, a, a), Leads(y, a, a)
    PROVE  Runs(<<x, y>>, a, a)
<1>1. Runs(<<x>>, a, a) /\ Runs(<<y>>, a, a)
  BY RunsOne
<1>2. Runs(<<x>> \o <<y>>, a, a)
  BY <1>1, RunsJoin
<1>3. <<x>> \o <<y>> = <<x, y>>
  <2>1. <<x>> \in Seq({x, y}) /\ <<y>> \in Seq({x, y}) /\ <<x, y>> \in Seq({x, y})
        /\ Len(<<x>>) = 1 /\ Len(<<y>>) = 1 /\ Len(<<x, y>>) = 2
    OBVIOUS
  <2>2. /\ <<x>> \o <<y>> \in Seq({x, y}) /\ Len(<<x>> \o <<y>>) = 2
        /\ (<<x>> \o <<y>>)[1] = x /\ (<<x>> \o <<y>>)[2] = y
    BY <2>1, ConcatProperties
  <2>3. \A i \in 1 .. 2 : (<<x>> \o <<y>>)[i] = <<x, y>>[i]
    BY <2>2
  <2>4. QED
    BY <2>1, <2>2, <2>3, SeqEqual
<1>4. QED
  BY <1>2, <1>3

LEMMA RunsFour ==
    ASSUME NEW w, NEW x, NEW y, NEW z, NEW a \in Sides,
           Anywhere(w), Anywhere(x), Anywhere(y), Anywhere(z)
    PROVE  Runs(<<w, x, y, z>>, a, a)
<1> DEFINE S == {w, x, y, z}
           s == <<w, x, y, z>>
           d == [i \in 1 .. 5 |-> a]
<1>1. s \in Seq(S) /\ Len(s) = 4 /\ s[1] = w /\ s[2] = x /\ s[3] = y /\ s[4] = z
  OBVIOUS
<1>2. s \in Seq(Items(s))
  BY <1>1, SeqOfItems
<1> HIDE DEF s
<1>3. d \in [1 .. Len(s) + 1 -> Sides] /\ d[1] = a /\ d[Len(s) + 1] = a
  BY <1>1
<1>4. ASSUME NEW i \in 1 .. Len(s) PROVE Leads(s[i], d[i], d[i + 1])
  <2>1. i \in {1, 2, 3, 4}
    BY <1>1
  <2>2. Anywhere(s[i])
    BY <1>1, <2>1
  <2>3. QED
    BY <2>1, <2>2 DEF Leads, Anywhere
<1> HIDE DEF d
<1>5. QED
  BY <1>2, <1>3, <1>4 DEF Runs, s

LEMMA RunsReadModifyWrite ==
    ASSUME NEW op \in {"set", "clear"}, NEW r, NEW bits, NEW a \in Sides,
           a = "free" => r \in TimerRegisters
    PROVE  Runs(ReadModifyWrite(op, r, bits), a, a)
<1>1. Leads(Access("load", r, {}, 0), a, a) /\ Leads(Access(op, r, bits, 0), a, a)
  BY DEF Access, WiringOps, Leads, Anywhere, IsStore
<1>2. QED
  BY <1>1, RunsTwo DEF ReadModifyWrite

LEMMA RunsProtected ==
    ASSUME NEW s, Runs(s, "held", "held")
    PROVE  Runs(Protected(s), "free", "free")
<1>1. Other("cli", 0).op = "cli" /\ Other("sei", 0).op = "sei"
  BY DEF Other, Access
<1>2. Runs(<<Other("cli", 0)>>, "free", "held") /\ Runs(<<Other("sei", 0)>>, "held", "free")
  BY <1>1, RunsOne DEF Leads, Sides
<1>3. Runs(<<Other("cli", 0)>> \o s, "free", "held")
  BY <1>2, RunsJoin
<1>4. QED
  BY <1>2, <1>3, RunsJoin DEF Protected

LEMMA TimerIs ==
    /\ DOMAIN digital_pin_to_timer = {3, 5, 6, 9, 10, 11}
    /\ \A p : OnTimer(p) => Timer(p) \in TimerRegisters
BY DEF digital_pin_to_timer, OnTimer, Timer, TimerRegisters

LEMMA RunsPinMode ==
    ASSUME NEW p, NEW mode \in {"INPUT", "INPUT_PULLUP", "OUTPUT"}
    PROVE  Runs(pinMode(p, mode), "free", "free")
<1>1. ASSUME NEW op \in {"set", "clear"}, NEW r
      PROVE  Runs(ReadModifyWrite(op, r, {p}), "held", "held")
  BY RunsReadModifyWrite DEF Sides
<1>2. ASSUME NEW op \in {"set", "clear"}
      PROVE  Runs(ReadModifyWrite("clear", Mode(p), {p})
                     \o ReadModifyWrite(op, Output(p), {p}), "held", "held")
  BY <1>1, RunsJoin
<1>3. CASE mode = "OUTPUT"
  BY <1>1, <1>3, RunsProtected DEF pinMode
<1>4. CASE mode = "INPUT"
  BY <1>2, <1>4, RunsProtected DEF pinMode
<1>5. CASE mode = "INPUT_PULLUP"
  BY <1>2, <1>5, RunsProtected DEF pinMode
<1>6. QED
  BY <1>3, <1>4, <1>5

LEMMA RunsTurnOffPWM == ASSUME NEW p PROVE Runs(turnOffPWM(p), "free", "free")
BY RunsReadModifyWrite, RunsNone, TimerIs DEF turnOffPWM, Sides

LEMMA RunsDigitalWrite ==
    ASSUME NEW p, NEW high
    PROVE  Runs(digitalWrite(p, high), "free", "free")
<1> DEFINE op == IF high THEN "set" ELSE "clear"
<1>1. op \in {"set", "clear"}
  OBVIOUS
<1> HIDE DEF op
<1>2. Runs(ReadModifyWrite(op, Output(p), {p}), "held", "held")
  BY <1>1, RunsReadModifyWrite DEF Sides
<1>3. Runs(Protected(ReadModifyWrite(op, Output(p), {p})), "free", "free")
  BY <1>2, RunsProtected
<1>4. Runs(turnOffPWM(p) \o Protected(ReadModifyWrite(op, Output(p), {p})), "free", "free")
  BY <1>3, RunsTurnOffPWM, RunsJoin
<1>5. QED
  BY <1>4 DEF digitalWrite, op

LEMMA RunsDigitalRead == ASSUME NEW p PROVE Runs(digitalRead(p), "free", "free")
<1>1. Anywhere(Other("read", p))
  BY DEF Other, Access, WiringOps, Anywhere, IsStore
<1>2. Runs(<<Other("read", p)>>, "free", "free")
  BY <1>1, RunsOne DEF Leads, Sides, Anywhere
<1>3. QED
  BY <1>2, RunsTurnOffPWM, RunsJoin DEF digitalRead

LEMMA RunsAnalogWrite ==
    ASSUME NEW p, NEW val
    PROVE  Runs(analogWrite(p, val), "free", "free")
<1>1. Runs(pinMode(p, "OUTPUT"), "free", "free")
  BY RunsPinMode
<1>2. CASE OnTimer(p) /\ val \notin {0, 255}
  <2>1. Runs(ReadModifyWrite("set", Timer(p), {p}), "free", "free")
    BY <1>2, TimerIs, RunsReadModifyWrite DEF Sides
  <2>2. Anywhere(Other("duty", val))
    BY DEF Other, Access, WiringOps, Anywhere, IsStore
  <2>3. Runs(<<Other("duty", val)>>, "free", "free")
    BY <2>2, RunsOne DEF Leads, Sides, Anywhere
  <2>4. Runs(ReadModifyWrite("set", Timer(p), {p}) \o <<Other("duty", val)>>, "free", "free")
    BY <2>1, <2>3, RunsJoin
  <2>5. analogWrite(p, val) = pinMode(p, "OUTPUT")
            \o (ReadModifyWrite("set", Timer(p), {p}) \o <<Other("duty", val)>>)
    BY <1>2 DEF analogWrite
  <2>6. QED
    BY <1>1, <2>4, <2>5, RunsJoin
<1>3. CASE ~(OnTimer(p) /\ val \notin {0, 255})
  <2>1. Runs(digitalWrite(p, val >= 128), "free", "free")
    BY RunsDigitalWrite
  <2>2. analogWrite(p, val) = pinMode(p, "OUTPUT") \o digitalWrite(p, val >= 128)
    BY <1>3 DEF analogWrite
  <2>3. QED
    BY <1>1, <2>1, <2>2, RunsJoin
<1>4. QED
  BY <1>2, <1>3

LEMMA RunsAnalogRead ==
    ASSUME NEW p
    PROVE  Runs(<<Other("admux", analogChannel(p)), Other("convert", p)>>, "free", "free")
<1>1. Anywhere(Other("admux", analogChannel(p))) /\ Anywhere(Other("convert", p))
  BY DEF Other, Access, WiringOps, Anywhere, IsStore
<1>2. QED
  BY <1>1, RunsTwo DEF Sides, Leads, Anywhere

LEMMA RunsTone ==
    ASSUME NEW p, NEW asTone
    PROVE  /\ Runs(Start(p, asTone), "free", "free")
           /\ Runs(Setup \o Start(p, asTone), "free", "free")
<1> DEFINE scale == Prescaler(asTone.frequency)
           top == Top(asTone.frequency, scale) % 256
           count == ToggleCount(asTone)
<1>1. /\ Anywhere(Other("prescale", scale)) /\ Anywhere(Other("top", top))
      /\ Anywhere(Other("count", count))
      /\ Anywhere(Other("compare_interrupt", TRUE))
  BY DEF Other, Access, WiringOps, Anywhere, IsStore
<1>2. Runs(<<Other("prescale", scale), Other("top", top), Other("count", count),
             Other("compare_interrupt", TRUE)>>, "free", "free")
  BY <1>1, RunsFour DEF Sides
<1>3. Runs(Start(p, asTone), "free", "free")
  BY <1>2, RunsPinMode, RunsJoin DEF Start
<1>4. Runs(Setup, "free", "free")
  <2>1. /\ Anywhere(Access("write", "TCCR2A", {}, 0))
        /\ Anywhere(Other("prescale", 0)) /\ Anywhere(Other("prescale", 1))
        /\ Anywhere(Other("tone_pin", 0))
    BY DEF Other, Access, WiringOps, Anywhere, IsStore
  <2>2. /\ Runs(<<Access("write", "TCCR2A", {}, 0), Other("prescale", 0)>>, "free", "free")
        /\ Runs(<<Other("prescale", 1), Other("tone_pin", 0)>>, "free", "free")
        /\ Runs(ReadModifyWrite("set", "TCCR2A", {WGM21}), "free", "free")
    BY <2>1, RunsTwo, RunsReadModifyWrite DEF Sides, Leads, Anywhere, TimerRegisters
  <2>3. QED
    BY <2>2, RunsJoin DEF Setup
<1>5. QED
  BY <1>3, <1>4, RunsJoin

LEMMA RunsNoTone ==
    ASSUME NEW p
    PROVE  Runs(disableTimer \o digitalWrite(p, FALSE), "free", "free")
<1>1. /\ Anywhere(Other("compare_interrupt", FALSE))
      /\ Anywhere(Access("write", "TCCR2A", {WGM20}, 0))
      /\ Anywhere(Other("prescale", 64)) /\ Anywhere(Other("top", 0))
  BY DEF Other, Access, WiringOps, Anywhere, IsStore
<1>2. Runs(disableTimer, "free", "free")
  BY <1>1, RunsFour DEF Sides, disableTimer
<1>3. QED
  BY <1>2, RunsDigitalWrite, RunsJoin

LEMMA Tuples ==
    ASSUME NEW x, NEW y, NEW z
    PROVE  /\ <<x>> # <<>> /\ <<x, y>> # <<>> /\ <<x, y, z>> # <<>>
           /\ Head(<<x>>) = x /\ Head(<<x, y>>) = x /\ Head(<<x, y, z>>) = x
           /\ Tail(<<x>>) = <<>> /\ Tail(<<x, y>>) = <<y>> /\ Tail(<<x, y, z>>) = <<y, z>>
<1>1. <<x>> # <<>> /\ <<x, y>> # <<>> /\ <<x, y, z>> # <<>>
  OBVIOUS
<1>2. Head(<<x>>) = x /\ Head(<<x, y>>) = x /\ Head(<<x, y, z>>) = x
  OBVIOUS
<1>3. Tail(<<x>>) = <<>>
  OBVIOUS
<1>4. Tail(<<x, y>>) = <<y>>
  OBVIOUS
<1>5. Tail(<<x, y, z>>) = <<y, z>>
  OBVIOUS
<1>6. QED
  BY <1>1, <1>2, <1>3, <1>4, <1>5

-----------------------------------------------------------------------------
(* What is left of the call tells the phase *)

LEMMA OpsOf ==
    /\ \A op, arg : Other(op, arg).op = op /\ Other(op, arg).arg = arg
    /\ \A n, i, f : /\ Half(n, i, f).op = "pointer"
                    /\ Half(n, i, f).arg.line = n /\ Half(n, i, f).arg.half = i
                    /\ Half(n, i, f).arg.func = f
BY DEF Other, Access, Half

LEMMA IdlePhase ==
    ASSUME Inv, Idle
    PROVE  Steady /\ InterruptsAre("free") /\ (interrupts <=> Outer)
<1>1. script = <<>>
  BY DEF Idle
<1>2. ~Deciding /\ ~Attaching /\ ~Detaching /\ ~Masking /\ ~Unmasking
  BY <1>1, Tuples DEF Deciding, Attaching, Detaching, Masking, Unmasking, Guarded
<1>3. ~Configuring /\ ~TurningOff /\ ~TurningOn
  BY <1>1, Tuples DEF Configuring, TurningOff, TurningOn, Guarded
<1>4. PICK a \in Sides : Runs(<<>>, a, "free") /\ InterruptsAre(a) /\ Steady
  BY <1>1, <1>2, <1>3 DEF Inv, Phase, Wiring
<1>5. a = "free"
  <2>1. Len(<<>>) + 1 = 1
    BY EmptySeq
  <2>2. QED
    BY <1>4, <2>1 DEF Runs
<1>6. QED
  BY <1>4, <1>5 DEF InterruptsAre

\* A call of the wiring library goes on, and the others are not begun.
LEMMA WiringRunsOn ==
    ASSUME Wiring, ~Idle
    PROVE  \E a, b \in Sides : /\ Leads(Head(script), a, b) /\ Runs(Tail(script), b, "free")
                               /\ InterruptsAre(a) /\ Steady
<1>1. PICK a \in Sides : Runs(script, a, "free") /\ InterruptsAre(a) /\ Steady
  BY DEF Wiring
<1>2. PICK b \in Sides : Leads(Head(script), a, b) /\ Runs(Tail(script), b, "free")
  BY <1>1, RunsOn DEF Idle
<1>3. QED
  BY <1>1, <1>2

\* The accesses that can come next in each phase.
LEMMA NextAccess ==
    ASSUME Inv, ~Idle
    PROVE  LET op == Head(script).op IN
           /\ Wiring => op \in WiringOps \cup {"cli", "sei"}
           /\ Deciding => op \in {"begin", "end"}
           /\ Attaching => op \in {"pointer", "enable"}
           /\ Detaching => op \in {"pointer", "disable"}
           /\ Configuring => op \in {"cli", "spi_begin", "spi_end", "using", "not_using"}
           /\ Masking => op \in {"cli", "save_mask"}
           /\ Unmasking => op \in {"cli", "restore_mask"}
           /\ TurningOff => op \in {"cli", "save_sreg"}
           /\ TurningOn => op \in {"cli", "restore_sreg"}
<1> DEFINE op == Head(script).op
<1>1. Wiring => op \in WiringOps \cup {"cli", "sei"}
  BY WiringRunsOn DEF Leads
<1>2. Deciding => op \in {"begin", "end"}
  <2>1. SUFFICES ASSUME Deciding PROVE op \in {"begin", "end"}
    OBVIOUS
  <2>2. PICK x : script = <<x>> /\ script[1].op \in {"begin", "end"}
    BY <2>1 DEF Deciding
  <2>3. script[1] = x /\ Head(script) = x
    BY <2>2
  <2>4. QED
    BY <2>2, <2>3
<1>3. Attaching => op \in {"pointer", "enable"}
  BY Tuples, OpsOf DEF Attaching
<1>4. Detaching => op \in {"pointer", "disable"}
  BY Tuples, OpsOf DEF Detaching
<1>5. \A x : Guarded(x) => op \in {"cli", x.op}
  BY Tuples, OpsOf DEF Guarded
<1>6. Configuring => op \in {"cli", "spi_begin", "spi_end", "using", "not_using"}
  <2>1. \A x \in Settings : x.op \in {"spi_begin", "spi_end", "using", "not_using"}
    BY OpsOf DEF Settings
  <2>2. QED
    BY <1>5, <2>1 DEF Configuring
<1>7. Masking => op \in {"cli", "save_mask"}
  BY <1>5, OpsOf DEF Masking
<1>8. Unmasking => op \in {"cli", "restore_mask"}
  BY <1>5, OpsOf DEF Unmasking
<1>9. TurningOff => op \in {"cli", "save_sreg"}
  BY Tuples, OpsOf DEF TurningOff
<1>10. TurningOn => op \in {"cli", "restore_sreg"}
  BY Tuples, OpsOf DEF TurningOn
<1>11. QED
  BY <1>1, <1>2, <1>3, <1>4, <1>6, <1>7, <1>8, <1>9, <1>10

-----------------------------------------------------------------------------
(* The steps that leave the masks alone keep the invariant *)

MasksKept == UNCHANGED <<externalVars, spiVars>>

LEMMA MasksKeptMeans ==
    ASSUME MasksKept
    PROVE  /\ intFunc' = intFunc /\ EIMSK' = EIMSK /\ EIFR' = EIFR
           /\ attached' = attached /\ called' = called
           /\ initialized' = initialized /\ interruptMode' = interruptMode
           /\ interruptMask' = interruptMask /\ interruptSave' = interruptSave
           /\ open' = open /\ usesBus' = usesBus
           /\ (Steady' <=> Steady) /\ (Outer' <=> Outer)
BY DEF MasksKept, externalVars, spiVars, Steady, Outer, PointersWhole, Attached

\* What the masks alone decide.
LEMMA MasksKeptRest ==
    ASSUME Inv, MasksKept, interrupts' \in BOOLEAN, sreg' \in BOOLEAN
    PROVE  TypeOK' /\ NamedMasked' /\ EventsAreHandled'
<1>1. TypeOK'
  BY MasksKeptMeans DEF Inv, TypeOK
<1>2. NamedMasked'
  BY MasksKeptMeans DEF Inv, NamedMasked
<1>3. EventsAreHandled'
  BY MasksKeptMeans DEF Inv, EventsAreHandled
<1>4. QED
  BY <1>1, <1>2, <1>3

PhaseVars == <<script, interrupts, sreg, intFunc, EIMSK, attached, open,
               interruptMode, interruptMask, interruptSave>>

LEMMA PhaseStays == ASSUME Phase, UNCHANGED PhaseVars PROVE Phase'
<1>1. /\ script' = script /\ interrupts' = interrupts /\ sreg' = sreg
      /\ intFunc' = intFunc /\ EIMSK' = EIMSK /\ attached' = attached /\ open' = open
      /\ interruptMode' = interruptMode /\ interruptMask' = interruptMask
      /\ interruptSave' = interruptSave
  BY DEF PhaseVars
<1>2. /\ Attached' = Attached /\ (PointersWhole' <=> PointersWhole)
      /\ (Outer' <=> Outer) /\ (Steady' <=> Steady)
  BY <1>1 DEF Attached, PointersWhole, Outer, Steady
<1>3. \A x : (Guarded(x))' <=> Guarded(x)
  BY <1>1 DEF Guarded
<1>4. \A a : (InterruptsAre(a))' <=> InterruptsAre(a)
  BY <1>1, <1>2 DEF InterruptsAre
<1>5. Wiring => Wiring'
  BY <1>1, <1>2, <1>4 DEF Wiring
<1>6. Deciding => Deciding'
  BY <1>1, <1>2, <1>4 DEF Deciding
<1>7. Attaching => Attaching'
  BY <1>1, <1>2 DEF Attaching
<1>8. Detaching => Detaching'
  BY <1>1, <1>2 DEF Detaching
<1>9. Configuring => Configuring'
  BY <1>1, <1>2, <1>3 DEF Configuring
<1>10. (Masking => Masking') /\ (Unmasking => Unmasking')
  BY <1>1, <1>2, <1>3 DEF Masking, Unmasking
<1>11. (TurningOff => TurningOff') /\ (TurningOn => TurningOn')
  BY <1>1, <1>2 DEF TurningOff, TurningOn
<1>12. QED
  BY <1>5, <1>6, <1>7, <1>8, <1>9, <1>10, <1>11 DEF Phase

LEMMA RestKeeps ==
    ASSUME Inv, MasksKept, script' = script, interrupts' = interrupts, sreg' = sreg
    PROVE  Inv'
<1>1. TypeOK' /\ NamedMasked' /\ EventsAreHandled'
  BY MasksKeptRest DEF Inv, TypeOK
<1>2. Phase'
  BY MasksKeptMeans, PhaseStays DEF Inv, PhaseVars
<1>3. QED
  BY <1>1, <1>2 DEF Inv

\* A call of the wiring library, made or going on.
LEMMA WiringKeeps ==
    ASSUME Inv, Steady, MasksKept, interrupts' \in BOOLEAN, sreg' \in BOOLEAN,
           NEW a \in Sides, Runs(script', a, "free"), InterruptsAre(a)'
    PROVE  Inv'
<1>1. Wiring'
  BY MasksKeptMeans DEF Wiring
<1>2. QED
  BY <1>1, MasksKeptRest DEF Inv, Phase

LEMMA CallKeeps ==
    ASSUME Inv, MasksKept, NEW p, NEW accesses, Calls(p, accesses),
           Runs(accesses, "free", "free")
    PROVE  Inv'
<1>1. Idle /\ script' = accesses /\ interrupts' = interrupts /\ sreg' = sreg
  BY DEF Calls, hardware
<1>2. Steady /\ InterruptsAre("free")
  BY <1>1, IdlePhase
<1>3. InterruptsAre("free")'
  BY <1>1, <1>2, MasksKeptMeans DEF InterruptsAre
<1>4. QED
  BY <1>1, <1>2, <1>3, WiringKeeps DEF Inv, TypeOK, Sides

\* tone and noTone, before they have looked at tone_pins.
LEMMA DecidingCallKeeps ==
    ASSUME Inv, MasksKept, NEW p, NEW op \in {"begin", "end"}, NEW arg,
           Calls(p, <<Other(op, arg)>>)
    PROVE  Inv'
<1>1. Idle /\ script' = <<Other(op, arg)>> /\ interrupts' = interrupts /\ sreg' = sreg
  BY DEF Calls, hardware
<1>2. Steady /\ InterruptsAre("free")
  BY <1>1, IdlePhase
<1>3. InterruptsAre("free")' /\ Steady'
  BY <1>1, <1>2, MasksKeptMeans DEF InterruptsAre
<1>4. script' = <<script'[1]>> /\ script'[1].op \in {"begin", "end"}
  BY <1>1, OpsOf
<1>5. Deciding'
  BY <1>3, <1>4 DEF Deciding
<1>6. QED
  BY <1>1, <1>5, MasksKeptRest DEF Inv, TypeOK, Phase

\* They go on as a call of the wiring library does.
LEMMA DecisionKeeps ==
    ASSUME Inv, MasksKept, ~Idle, Head(script).op \in {"begin", "end"},
           interrupts' = interrupts, sreg' = sreg,
           Runs(script', "free", "free") \/ script' = Tail(script)
    PROVE  Inv'
<1>1. Deciding
  BY NextAccess DEF Inv, Phase, WiringOps
<1>2. PICK x : script = <<x>>
  BY <1>1 DEF Deciding
<1>3. Runs(script', "free", "free")
  BY <1>2, Tuples, RunsNone DEF Sides
<1>4. InterruptsAre("free")'
  BY <1>1, MasksKeptMeans DEF Deciding, InterruptsAre
<1>5. QED
  BY <1>1, <1>3, <1>4, WiringKeeps DEF Inv, TypeOK, Sides, Deciding

LEMMA AccessKeeps ==
    ASSUME Inv, MasksKept, ~Idle, Head(script).op \in WiringOps, script' = Tail(script),
           interrupts' = interrupts, sreg' = sreg
    PROVE  Inv'
<1>1. Wiring
  BY NextAccess DEF Inv, Phase, WiringOps
<1>2. PICK a, b \in Sides : /\ Leads(Head(script), a, b) /\ Runs(Tail(script), b, "free")
                            /\ InterruptsAre(a) /\ Steady
  BY <1>1, WiringRunsOn
<1>3. a = b
  BY <1>2 DEF Leads, WiringOps
<1>4. InterruptsAre(b)'
  BY <1>2, <1>3, MasksKeptMeans DEF InterruptsAre
<1>5. QED
  BY <1>2, <1>4, WiringKeeps DEF Inv, TypeOK

-----------------------------------------------------------------------------
(* Protected sections *)

LEMMA GuardEntered ==
    ASSUME NEW x, Guarded(x), x.op # "cli", Does("cli"), interrupts' = FALSE,
           sreg' = interrupts
    PROVE  Guarded(x)'
<1>1. Head(script).op = "cli" /\ script' = Tail(script)
  BY DEF Does
<1>2. script # <<x, Other("sei", 0)>>
  BY <1>1, Tuples
<1>3. script = <<Other("cli", 0), x, Other("sei", 0)>> /\ interrupts
  BY <1>2 DEF Guarded
<1>4. script' = <<x, Other("sei", 0)>>
  BY <1>1, <1>3, Tuples
<1>5. QED
  BY <1>3, <1>4 DEF Guarded

LEMMA EnterKeeps ==
    ASSUME Inv, MasksKept, Does("cli"), interrupts' = FALSE, sreg' = interrupts
    PROVE  Inv'
<1>1. ~Idle /\ Head(script).op = "cli" /\ script' = Tail(script)
  BY DEF Does
<1>2. Wiring \/ Configuring \/ Masking \/ Unmasking \/ TurningOff \/ TurningOn
  BY <1>1, NextAccess DEF Inv, Phase
<1>3. TypeOK' /\ NamedMasked' /\ EventsAreHandled'
  BY MasksKeptRest DEF Inv, TypeOK
<1>4. Attached' = Attached /\ (PointersWhole' <=> PointersWhole)
  BY MasksKeptMeans DEF Attached, PointersWhole
<1>5. CASE Wiring
  <2>1. PICK a, b \in Sides : /\ Leads(Head(script), a, b) /\ Runs(Tail(script), b, "free")
                              /\ InterruptsAre(a) /\ Steady
    BY <1>1, <1>5, WiringRunsOn
  <2>2. a = "free" /\ b = "held"
    BY <1>1, <2>1 DEF Leads, WiringOps
  <2>3. InterruptsAre("held")'
    BY <2>1, <2>2, MasksKeptMeans DEF InterruptsAre
  <2>4. QED
    BY <1>1, <2>1, <2>2, <2>3, WiringKeeps DEF Inv, TypeOK
<1>6. CASE Configuring
  <2>1. PICK x \in Settings : Guarded(x) /\ (x.op = "not_using" => interruptMode # "global")
    BY <1>6 DEF Configuring
  <2>2. x.op # "cli"
    BY OpsOf DEF Settings
  <2>3. Guarded(x)'
    BY <2>1, <2>2, GuardEntered
  <2>4. Configuring'
    BY <1>6, <2>1, <2>3, MasksKeptMeans DEF Configuring
  <2>5. QED
    BY <1>3, <2>4 DEF Inv, Phase
<1>7. CASE Masking
  <2>1. Guarded(Other("save_mask", 0))'
    BY <1>7, OpsOf, GuardEntered DEF Masking
  <2>2. Masking'
    BY <1>4, <1>7, <2>1, MasksKeptMeans DEF Masking
  <2>3. QED
    BY <1>3, <2>2 DEF Inv, Phase
<1>8. CASE Unmasking
  <2>1. Guarded(Other("restore_mask", 0))'
    BY <1>8, OpsOf, GuardEntered DEF Unmasking
  <2>2. Unmasking'
    BY <1>4, <1>8, <2>1, MasksKeptMeans DEF Unmasking
  <2>3. QED
    BY <1>3, <2>2 DEF Inv, Phase
<1>9. CASE TurningOff
  <2>1. script = <<Other("cli", 0), Other("save_sreg", 0)>> /\ interrupts
    BY <1>1, <1>9, Tuples, OpsOf DEF TurningOff
  <2>2. script' = <<Other("save_sreg", 0)>>
    BY <1>1, <2>1, Tuples
  <2>3. TurningOff'
    BY <1>4, <1>9, <2>1, <2>2, MasksKeptMeans DEF TurningOff
  <2>4. QED
    BY <1>3, <2>3 DEF Inv, Phase
<1>10. CASE TurningOn
  <2>1. script = <<Other("cli", 0), Other("restore_sreg", 0)>>
    BY <1>1, <1>10, Tuples, OpsOf DEF TurningOn
  <2>2. script' = <<Other("restore_sreg", 0)>>
    BY <1>1, <2>1, Tuples
  <2>3. TurningOn'
    BY <1>4, <1>10, <2>2, MasksKeptMeans DEF TurningOn
  <2>4. QED
    BY <1>3, <2>3 DEF Inv, Phase
<1>11. QED
  BY <1>2, <1>5, <1>6, <1>7, <1>8, <1>9, <1>10

LEMMA LeaveKeeps ==
    ASSUME Inv, MasksKept, Does("sei"), interrupts' = sreg, sreg' = sreg
    PROVE  Inv'
<1>1. ~Idle /\ Head(script).op = "sei" /\ script' = Tail(script)
  BY DEF Does
<1>2. Wiring
  BY <1>1, NextAccess DEF Inv, Phase
<1>3. PICK a, b \in Sides : /\ Leads(Head(script), a, b) /\ Runs(Tail(script), b, "free")
                            /\ InterruptsAre(a) /\ Steady
  BY <1>1, <1>2, WiringRunsOn
<1>4. a = "held" /\ b = "free"
  BY <1>1, <1>3 DEF Leads, WiringOps
<1>5. InterruptsAre("free")'
  BY <1>3, <1>4, MasksKeptMeans DEF InterruptsAre
<1>6. QED
  BY <1>1, <1>3, <1>4, <1>5, WiringKeeps DEF Inv, TypeOK

-----------------------------------------------------------------------------
(* attachInterrupt and detachInterrupt *)

LEMMA FuncsAreNot == \A f \in UserFuncs : f # nothing
BY ExternalAssumption

LEMMA AttachCallKeeps ==
    ASSUME Inv, ~open, UNCHANGED spiVars, NEW n \in Lines, NEW f \in UserFuncs,
           CallAttachInterrupt(n, f)
    PROVE  Inv'
<1>1. /\ Idle /\ attached[n] = nothing /\ attached' = [attached EXCEPT ![n] = f]
      /\ script' = <<Half(n, 1, f), Half(n, 2, f), Other("enable", n)>>
      /\ interrupts' = interrupts /\ sreg' = sreg
      /\ intFunc' = intFunc /\ EIMSK' = EIMSK /\ EIFR' = EIFR /\ called' = called
  BY DEF CallAttachInterrupt, Calls, hardware
<1>2. /\ open' = open /\ interruptMode' = interruptMode /\ interruptMask' = interruptMask
      /\ interruptSave' = interruptSave /\ usesBus' = usesBus
  BY DEF spiVars
<1>3. Steady /\ interrupts
  BY <1>1, IdlePhase DEF Outer
<1>4. TypeOK' /\ NamedMasked' /\ EventsAreHandled'
  BY <1>1, <1>2 DEF Inv, TypeOK, NamedMasked, EventsAreHandled
<1>5. /\ attached'[n] = f /\ \A m \in Lines \ {n} : attached'[m] = attached[m]
  BY <1>1 DEF Inv, TypeOK
<1>6. Attached' = Attached \cup {n} /\ n \notin Attached /\ Attached \subseteq Lines
  BY <1>1, <1>5, FuncsAreNot DEF Attached
<1>7. EIMSK' = Attached' \ {n}
  BY <1>1, <1>3, <1>6 DEF Steady
<1>8. \A m \in Attached' \ {n} : intFunc'[m] = Pointer(attached'[m])
  BY <1>1, <1>3, <1>5, <1>6 DEF Steady, PointersWhole
<1>9. Attaching'
  BY <1>1, <1>2, <1>3, <1>5, <1>7, <1>8 DEF Attaching
<1>10. QED
  BY <1>4, <1>9 DEF Inv, Phase

LEMMA DetachCallKeeps ==
    ASSUME Inv, ~open, UNCHANGED spiVars, NEW n \in Lines, CallDetachInterrupt(n)
    PROVE  Inv'
<1>1. /\ Idle /\ attached' = [attached EXCEPT ![n] = nothing]
      /\ script' = <<Other("disable", n), Half(n, 1, nothing), Half(n, 2, nothing)>>
      /\ interrupts' = interrupts /\ sreg' = sreg
      /\ intFunc' = intFunc /\ EIMSK' = EIMSK /\ EIFR' = EIFR /\ called' = called
  BY DEF CallDetachInterrupt, Calls, hardware
<1>2. /\ open' = open /\ interruptMode' = interruptMode /\ interruptMask' = interruptMask
      /\ interruptSave' = interruptSave /\ usesBus' = usesBus
  BY DEF spiVars
<1>3. Steady /\ interrupts
  BY <1>1, IdlePhase DEF Outer
<1>4. TypeOK' /\ NamedMasked' /\ EventsAreHandled'
  BY <1>1, <1>2 DEF Inv, TypeOK, NamedMasked, EventsAreHandled
<1>5. /\ attached'[n] = nothing /\ \A m \in Lines \ {n} : attached'[m] = attached[m]
  BY <1>1 DEF Inv, TypeOK
<1>6. Attached' = Attached \ {n} /\ Attached \subseteq Lines
  BY <1>5 DEF Attached
<1>7. EIMSK' = Attached
  BY <1>1, <1>3 DEF Steady
<1>8. EIMSK' \in {Attached', Attached' \cup {n}}
  BY <1>6, <1>7
<1>9. PointersWhole'
  BY <1>1, <1>3, <1>5, <1>6 DEF Steady, PointersWhole
<1>10. n \in EIMSK' => intFunc'[n] \in {Pointer(f) : f \in UserFuncs}
  <2>1. ASSUME n \in Attached PROVE attached[n] \in UserFuncs /\ intFunc[n] = Pointer(attached[n])
    BY <1>3, <2>1 DEF Steady, PointersWhole, Attached, Inv, TypeOK
  <2>2. QED
    BY <1>1, <1>7, <2>1
<1>11. Detaching'
  BY <1>1, <1>2, <1>3, <1>5, <1>8, <1>9, <1>10 DEF Detaching
<1>12. QED
  BY <1>4, <1>11 DEF Inv, Phase

\* A half of the pointer of line n is written: the others stay as they are.
LEMMA HalfWritten ==
    ASSUME TypeOK, NEW n \in Lines, NEW i \in {1, 2}, NEW f \in UserFuncs \cup {nothing},
           intFunc' = [intFunc EXCEPT ![n][i] = f]
    PROVE  /\ intFunc' \in [Lines -> [1 .. 2 -> UserFuncs \cup {nothing}]]
           /\ \A m \in Lines \ {n} : intFunc'[m] = intFunc[m]
           /\ intFunc'[n][i] = f
           /\ \A j \in {1, 2} \ {i} : intFunc'[n][j] = intFunc[n][j]
<1>1. intFunc[n] \in [1 .. 2 -> UserFuncs \cup {nothing}]
  BY DEF TypeOK
<1>2. intFunc' = [intFunc EXCEPT ![n] = [intFunc[n] EXCEPT ![i] = f]]
  OBVIOUS
<1>3. intFunc'[n] = [intFunc[n] EXCEPT ![i] = f]
  BY <1>2 DEF TypeOK
<1>4. intFunc'[n] \in [1 .. 2 -> UserFuncs \cup {nothing}]
  BY <1>1, <1>3
<1>5. \A m \in Lines \ {n} : intFunc'[m] = intFunc[m]
  BY <1>2 DEF TypeOK
<1>6. intFunc' \in [Lines -> [1 .. 2 -> UserFuncs \cup {nothing}]]
  BY <1>2, <1>1, <1>3, <1>4 DEF TypeOK
<1>7. intFunc'[n][i] = f /\ \A j \in {1, 2} \ {i} : intFunc'[n][j] = intFunc[n][j]
  BY <1>1, <1>3
<1>8. QED
  BY <1>5, <1>6, <1>7

LEMMA BothHalves ==
    ASSUME NEW g \in [1 .. 2 -> UserFuncs \cup {nothing}], NEW f, g[1] = f, g[2] = f
    PROVE  g = Pointer(f)
BY DEF Pointer

\* A call that has ended with the masks as they are between calls.
LEMMA DoneKeeps ==
    ASSUME TypeOK', NamedMasked', EventsAreHandled', Steady', script' = <<>>,
           InterruptsAre("free")'
    PROVE  Inv'
<1>1. Runs(script', "free", "free") /\ "free" \in Sides
  BY RunsNone DEF Sides
<1>2. Wiring'
  BY <1>1 DEF Wiring
<1>3. QED
  BY <1>2 DEF Inv, Phase

LEMMA ExternalStepMeans ==
    ASSUME Inv, ExternalStep, UNCHANGED spiVars
    PROVE  /\ attached' = attached /\ EIFR' = EIFR /\ called' = called
           /\ interrupts' = interrupts /\ sreg' = sreg
           /\ open' = open /\ interruptMode' = interruptMode
           /\ interruptMask' = interruptMask /\ interruptSave' = interruptSave
           /\ usesBus' = usesBus
           /\ NamedMasked' /\ EventsAreHandled' /\ Attached' = Attached
<1>1. /\ attached' = attached /\ EIFR' = EIFR /\ called' = called
      /\ interrupts' = interrupts /\ sreg' = sreg
  BY DEF ExternalStep, hardware
<1>2. /\ open' = open /\ interruptMode' = interruptMode /\ interruptMask' = interruptMask
      /\ interruptSave' = interruptSave /\ usesBus' = usesBus
  BY DEF spiVars
<1>3. QED
  BY <1>1, <1>2 DEF Inv, NamedMasked, EventsAreHandled, Attached

LEMMA StoreKeeps ==
    ASSUME Inv, ExternalStep, UNCHANGED spiVars, StorePointer
    PROVE  Inv'
<1> DEFINE arg == Head(script).arg
<1>1. /\ ~Idle /\ Head(script).op = "pointer" /\ script' = Tail(script) /\ EIMSK' = EIMSK
      /\ intFunc' = [intFunc EXCEPT ![arg.line][arg.half] = arg.func]
  BY DEF StorePointer, Does
<1> HIDE DEF arg
<1>2. Attaching \/ Detaching
  BY <1>1, NextAccess DEF Inv, Phase, WiringOps
<1>3. CASE Attaching
  <2>1. PICK n \in Lines, f \in UserFuncs :
            /\ ~open /\ interrupts
            /\ attached[n] = f /\ EIMSK = Attached \ {n}
            /\ \A m \in Attached \ {n} : intFunc[m] = Pointer(attached[m])
            /\ \/ script = <<Half(n, 1, f), Half(n, 2, f), Other("enable", n)>>
               \/ script = <<Half(n, 2, f), Other("enable", n)>> /\ intFunc[n][1] = f
               \/ script = <<Other("enable", n)>> /\ intFunc[n] = Pointer(f)
    BY <1>3 DEF Attaching
  <2>2. CASE script = <<Half(n, 1, f), Half(n, 2, f), Other("enable", n)>>
    <3>1. /\ arg.line = n /\ arg.half = 1 /\ arg.func = f
          /\ script' = <<Half(n, 2, f), Other("enable", n)>>
      <4>1. Head(script) = Half(n, 1, f) /\ Tail(script) = <<Half(n, 2, f), Other("enable", n)>>
        BY <2>2, Tuples
      <4>2. QED
        BY <1>1, <4>1, OpsOf DEF arg
    <3>2. intFunc' = [intFunc EXCEPT ![n][1] = f]
      BY <1>1, <3>1
    <3>3. /\ intFunc' \in [Lines -> [1 .. 2 -> UserFuncs \cup {nothing}]]
          /\ \A m \in Lines \ {n} : intFunc'[m] = intFunc[m]
          /\ intFunc'[n][1] = f
      BY <3>2, HalfWritten DEF Inv
    <3>4. TypeOK'
      BY <1>1, <3>3, ExternalStepMeans DEF Inv, TypeOK
    <3>5. \A m \in Attached' \ {n} : intFunc'[m] = Pointer(attached'[m])
      BY <2>1, <3>3, ExternalStepMeans DEF Attached
    <3>6. Attaching'
      <4>1. ~open' /\ interrupts'
        BY <2>1, ExternalStepMeans
      <4>2. attached'[n] = f
        BY <2>1, ExternalStepMeans
      <4>3. EIMSK' = Attached' \ {n}
        BY <1>1, <2>1, ExternalStepMeans
      <4>4. script' = <<Half(n, 2, f), Other("enable", n)>> /\ intFunc'[n][1] = f
        BY <3>1, <3>3
      <4>5. QED
        BY <3>5, <4>1, <4>2, <4>3, <4>4 DEF Attaching
    <3>7. QED
      BY <3>4, <3>6, ExternalStepMeans DEF Inv, Phase
  <2>3. CASE script = <<Half(n, 2, f), Other("enable", n)>> /\ intFunc[n][1] = f
    <3>1. /\ arg.line = n /\ arg.half = 2 /\ arg.func = f
          /\ script' = <<Other("enable", n)>>
      <4>1. Head(script) = Half(n, 2, f) /\ Tail(script) = <<Other("enable", n)>>
        BY <2>3, Tuples
      <4>2. QED
        BY <1>1, <4>1, OpsOf DEF arg
    <3>2. intFunc' = [intFunc EXCEPT ![n][2] = f]
      BY <1>1, <3>1
    <3>3. /\ intFunc' \in [Lines -> [1 .. 2 -> UserFuncs \cup {nothing}]]
          /\ \A m \in Lines \ {n} : intFunc'[m] = intFunc[m]
          /\ intFunc'[n][2] = f /\ intFunc'[n][1] = f
      <4>1. TypeOK /\ 2 \in {1, 2} /\ f \in UserFuncs \cup {nothing} /\ 1 \in {1, 2} \ {2}
        BY DEF Inv
      <4>2. /\ intFunc' \in [Lines -> [1 .. 2 -> UserFuncs \cup {nothing}]]
            /\ \A m \in Lines \ {n} : intFunc'[m] = intFunc[m]
            /\ intFunc'[n][2] = f /\ intFunc'[n][1] = intFunc[n][1]
        BY <3>2, <4>1, HalfWritten
      <4>3. QED
        BY <2>3, <4>2
    <3>4. TypeOK'
      BY <1>1, <3>3, ExternalStepMeans DEF Inv, TypeOK
    <3>5. intFunc'[n] = Pointer(f)
      BY <3>3, BothHalves
    <3>6. \A m \in Attached' \ {n} : intFunc'[m] = Pointer(attached'[m])
      BY <2>1, <3>3, ExternalStepMeans DEF Attached
    <3>7. Attaching'
      <4>1. ~open' /\ interrupts'
        BY <2>1, ExternalStepMeans
      <4>2. attached'[n] = f
        BY <2>1, ExternalStepMeans
      <4>3. EIMSK' = Attached' \ {n}
        BY <1>1, <2>1, ExternalStepMeans
      <4>4. script' = <<Other("enable", n)>> /\ intFunc'[n] = Pointer(f)
        BY <3>1, <3>5
      <4>5. QED
        BY <3>6, <4>1, <4>2, <4>3, <4>4 DEF Attaching
    <3>8. QED
      BY <3>4, <3>7, ExternalStepMeans DEF Inv, Phase
  <2>4. CASE script = <<Other("enable", n)>>
    BY <1>1, <2>4, Tuples, OpsOf
  <2>5. QED
    BY <2>1, <2>2, <2>3, <2>4
<1>4. CASE Detaching
  <2>1. PICK n \in Lines :
            /\ ~open /\ interrupts /\ attached[n] = nothing /\ PointersWhole
            /\ \/ script = <<Other("disable", n), Half(n, 1, nothing), Half(n, 2, nothing)>>
               \/ script = <<Half(n, 1, nothing), Half(n, 2, nothing)>> /\ EIMSK = Attached
               \/ script = <<Half(n, 2, nothing)>> /\ EIMSK = Attached
    BY <1>4 DEF Detaching
  <2>2. ASSUME NEW i \in {1, 2}, arg.line = n, arg.half = i, arg.func = nothing
        PROVE  TypeOK' /\ PointersWhole'
    <3>1. intFunc' = [intFunc EXCEPT ![n][i] = nothing]
      BY <1>1, <2>2
    <3>2. /\ intFunc' \in [Lines -> [1 .. 2 -> UserFuncs \cup {nothing}]]
          /\ \A m \in Lines \ {n} : intFunc'[m] = intFunc[m]
      BY <3>1, HalfWritten DEF Inv
    <3>3. TypeOK'
      BY <1>1, <3>2, ExternalStepMeans DEF Inv, TypeOK
    <3>4. PointersWhole'
      BY <2>1, <3>2, ExternalStepMeans DEF PointersWhole, Attached
    <3>5. QED
      BY <3>3, <3>4
  <2>3. CASE script = <<Other("disable", n), Half(n, 1, nothing), Half(n, 2, nothing)>>
    BY <1>1, <2>3, Tuples, OpsOf
  <2>4. CASE script = <<Half(n, 1, nothing), Half(n, 2, nothing)>> /\ EIMSK = Attached
    <3>1. /\ arg.line = n /\ arg.half = 1 /\ arg.func = nothing
          /\ script' = <<Half(n, 2, nothing)>>
      <4>1. Head(script) = Half(n, 1, nothing) /\ Tail(script) = <<Half(n, 2, nothing)>>
        BY <2>4, Tuples
      <4>2. QED
        BY <1>1, <4>1, OpsOf DEF arg
    <3>2. TypeOK' /\ PointersWhole'
      BY <2>2, <3>1
    <3>3. Detaching'
      BY <1>1, <2>1, <2>4, <3>1, <3>2, ExternalStepMeans DEF Detaching
    <3>4. QED
      BY <3>2, <3>3, ExternalStepMeans DEF Inv, Phase
  <2>5. CASE script = <<Half(n, 2, nothing)>> /\ EIMSK = Attached
    <3>1. /\ arg.line = n /\ arg.half = 2 /\ arg.func = nothing
          /\ script' = <<>>
      <4>1. Head(script) = Half(n, 2, nothing) /\ Tail(script) = <<>>
        BY <2>5, Tuples
      <4>2. QED
        BY <1>1, <4>1, OpsOf DEF arg
    <3>2. TypeOK' /\ PointersWhole'
      BY <2>2, <3>1
    <3>3. Steady' /\ InterruptsAre("free")'
      BY <1>1, <2>1, <2>5, <3>2, ExternalStepMeans DEF Steady, InterruptsAre, Outer
    <3>4. QED
      BY <3>1, <3>2, <3>3, DoneKeeps, ExternalStepMeans
  <2>6. QED
    BY <2>1, <2>3, <2>4, <2>5
<1>5. QED
  BY <1>2, <1>3, <1>4

LEMMA MaskStepKeeps ==
    ASSUME Inv, ExternalStep, UNCHANGED spiVars, SetMask
    PROVE  Inv'
<1>1. ~Idle /\ script' = Tail(script) /\ intFunc' = intFunc
  BY DEF SetMask, Does
<1>2. CASE Head(script).op = "enable" /\ EIMSK' = EIMSK \cup {Head(script).arg}
  <2>1. Attaching
    BY <1>1, <1>2, NextAccess DEF Inv, Phase, WiringOps
  <2>2. PICK n \in Lines, f \in UserFuncs :
            /\ ~open /\ interrupts
            /\ attached[n] = f /\ EIMSK = Attached \ {n}
            /\ \A m \in Attached \ {n} : intFunc[m] = Pointer(attached[m])
            /\ \/ script = <<Half(n, 1, f), Half(n, 2, f), Other("enable", n)>>
               \/ script = <<Half(n, 2, f), Other("enable", n)>>
               \/ script = <<Other("enable", n)>> /\ intFunc[n] = Pointer(f)
    BY <2>1 DEF Attaching
  <2>3. script = <<Other("enable", n)>> /\ intFunc[n] = Pointer(f)
    BY <1>2, <2>2, Tuples, OpsOf
  <2>4. script' = <<>> /\ EIMSK' = EIMSK \cup {n}
    BY <1>1, <1>2, <2>3, Tuples, OpsOf
  <2>5. n \in Attached /\ EIMSK' = Attached
    BY <2>2, <2>4, FuncsAreNot DEF Attached
  <2>6. PointersWhole'
    BY <1>1, <2>2, <2>3, ExternalStepMeans DEF PointersWhole
  <2>7. Steady' /\ InterruptsAre("free")'
    BY <2>2, <2>5, <2>6, ExternalStepMeans DEF Steady, InterruptsAre, Outer
  <2>8. TypeOK'
    BY <1>1, <2>5, ExternalStepMeans DEF Inv, TypeOK, Attached
  <2>9. QED
    BY <2>4, <2>7, <2>8, DoneKeeps, ExternalStepMeans
<1>3. CASE Head(script).op = "disable" /\ EIMSK' = EIMSK \ {Head(script).arg}
  <2>1. Detaching
    BY <1>1, <1>3, NextAccess DEF Inv, Phase, WiringOps
  <2>2. PICK n \in Lines :
            /\ ~open /\ interrupts /\ attached[n] = nothing /\ PointersWhole
            /\ \/ /\ script = <<Other("disable", n), Half(n, 1, nothing), Half(n, 2, nothing)>>
                  /\ EIMSK \in {Attached, Attached \cup {n}}
               \/ script = <<Half(n, 1, nothing), Half(n, 2, nothing)>>
               \/ script = <<Half(n, 2, nothing)>>
    BY <2>1 DEF Detaching
  <2>3. /\ script = <<Other("disable", n), Half(n, 1, nothing), Half(n, 2, nothing)>>
        /\ EIMSK \in {Attached, Attached \cup {n}}
    BY <1>3, <2>2, Tuples, OpsOf
  <2>4. script' = <<Half(n, 1, nothing), Half(n, 2, nothing)>> /\ EIMSK' = EIMSK \ {n}
    BY <1>1, <1>3, <2>3, Tuples, OpsOf
  <2>5. EIMSK' = Attached
    BY <2>2, <2>3, <2>4 DEF Attached
  <2>6. PointersWhole'
    BY <1>1, <2>2, ExternalStepMeans DEF PointersWhole
  <2>7. Detaching'
    BY <2>2, <2>4, <2>5, <2>6, ExternalStepMeans DEF Detaching
  <2>8. TypeOK'
    BY <1>1, <2>5, ExternalStepMeans DEF Inv, TypeOK, Attached
  <2>9. QED
    BY <2>7, <2>8, ExternalStepMeans DEF Inv, Phase
<1>4. QED
  BY <1>2, <1>3 DEF SetMask, Does

-----------------------------------------------------------------------------
(* The external interrupts *)

\* A line that can interrupt has the whole pointer of a function.
LEMMA EnabledAreWhole ==
    ASSUME Inv, NEW n \in EIMSK
    PROVE  /\ intFunc[n] \in {Pointer(f) : f \in UserFuncs}
           /\ attached[n] # nothing => intFunc[n] = Pointer(attached[n])
<1>1. ASSUME NEW m \in Attached, intFunc[m] = Pointer(attached[m])
      PROVE  intFunc[m] \in {Pointer(f) : f \in UserFuncs}
  BY <1>1 DEF Attached, Inv, TypeOK
<1>2. CASE EIMSK \subseteq Attached /\ PointersWhole
  BY <1>1, <1>2 DEF PointersWhole
<1>3. CASE Attaching
  BY <1>1, <1>3 DEF Attaching
<1>4. CASE Detaching
  <2>1. PICK m \in Lines :
            /\ attached[m] = nothing /\ PointersWhole
            /\ EIMSK \in {Attached, Attached \cup {m}}
            /\ m \in EIMSK => m \in Attached \/ intFunc[m] \in {Pointer(f) : f \in UserFuncs}
    BY <1>4 DEF Detaching
  <2>2. CASE n \in Attached
    BY <1>1, <2>1, <2>2 DEF PointersWhole
  <2>3. CASE n = m /\ m \notin Attached
    BY <2>1, <2>3
  <2>4. QED
    BY <2>1, <2>2, <2>3
<1>5. Steady => EIMSK \subseteq Attached /\ PointersWhole
  BY DEF Steady
<1>6. CASE Wiring \/ Deciding \/ Configuring
  BY <1>2, <1>5, <1>6 DEF Wiring, Deciding, Configuring
<1>7. CASE Masking \/ Unmasking \/ TurningOff \/ TurningOn
  BY <1>2, <1>7 DEF Masking, Unmasking, TurningOff, TurningOn
<1>8. QED
  BY <1>3, <1>4, <1>6, <1>7 DEF Inv, Phase

LEMMA EdgeKeeps ==
    ASSUME Inv, Edge \/ ExternalInterrupt, UNCHANGED spiVars
    PROVE  Inv'
<1>1. /\ script' = script /\ interrupts' = interrupts /\ sreg' = sreg
      /\ intFunc' = intFunc /\ EIMSK' = EIMSK /\ attached' = attached
  BY DEF Edge, ExternalInterrupt, pinVars, program, hardware
<1>2. /\ open' = open /\ interruptMode' = interruptMode /\ interruptMask' = interruptMask
      /\ interruptSave' = interruptSave /\ usesBus' = usesBus
  BY DEF spiVars
<1>3. EIFR' \subseteq Lines
  BY DEF Edge, ExternalInterrupt, Inv, TypeOK
<1>4. TypeOK' /\ NamedMasked'
  BY <1>1, <1>2, <1>3 DEF Inv, TypeOK, NamedMasked
<1>5. Phase'
  BY <1>1, <1>2, PhaseStays DEF Inv, PhaseVars
<1>6. CASE Edge
  <2>1. EventsAreHandled'
    BY <1>6 DEF Edge, Inv, EventsAreHandled
  <2>2. QED
    BY <1>4, <1>5, <2>1 DEF Inv
<1>7. CASE ExternalInterrupt
  <2>1. PICK n \in EIFR \cap EIMSK : called' = <<intFunc[n], attached[n]>>
    BY <1>7 DEF ExternalInterrupt
  <2>2. /\ intFunc[n] \in {Pointer(f) : f \in UserFuncs}
        /\ attached[n] # nothing => intFunc[n] = Pointer(attached[n])
    BY <2>1, EnabledAreWhole
  <2>3. EventsAreHandled'
    BY <2>1, <2>2 DEF EventsAreHandled
  <2>4. QED
    BY <1>4, <1>5, <2>3 DEF Inv
<1>8. QED
  BY <1>6, <1>7

-----------------------------------------------------------------------------
(* The calls of the SPI library *)

LEMMA ProtectedOne ==
    ASSUME NEW x
    PROVE  Protected(<<x>>) = <<Other("cli", 0), x, Other("sei", 0)>>
<1> DEFINE c == Other("cli", 0)
           d == Other("sei", 0)
           S == {c, x, d}
<1> HIDE DEF c, d
<1>1. /\ <<c>> \in Seq(S) /\ <<x>> \in Seq(S) /\ <<d>> \in Seq(S) /\ <<c, x, d>> \in Seq(S)
      /\ Len(<<c>>) = 1 /\ Len(<<x>>) = 1 /\ Len(<<d>>) = 1 /\ Len(<<c, x, d>>) = 3
  OBVIOUS
<1>2. /\ <<c>> \o <<x>> \in Seq(S) /\ Len(<<c>> \o <<x>>) = 2
      /\ (<<c>> \o <<x>>)[1] = c /\ (<<c>> \o <<x>>)[2] = x
  BY <1>1, ConcatProperties
<1> DEFINE b == <<c>> \o <<x>>
<1> HIDE DEF b
<1>3. b \in Seq(S) /\ Len(b) = 2 /\ b[1] = c /\ b[2] = x
  BY <1>2 DEF b
<1>4. /\ b \o <<d>> \in Seq(S) /\ Len(b \o <<d>>) = 3
      /\ (b \o <<d>>)[1] = c /\ (b \o <<d>>)[2] = x /\ (b \o <<d>>)[3] = d
  <2>1. /\ b \o <<d>> \in Seq(S) /\ Len(b \o <<d>>) = 2 + 1
        /\ \A i \in 1 .. 2 + 1 : (b \o <<d>>)[i] = IF i <= 2 THEN b[i] ELSE <<d>>[i - 2]
    <3>1. b \in Seq(S) /\ <<d>> \in Seq(S) /\ Len(b) = 2 /\ Len(<<d>>) = 1
      BY <1>1, <1>3
    <3>2. /\ b \o <<d>> \in Seq(S) /\ Len(b \o <<d>>) = Len(b) + Len(<<d>>)
          /\ \A i \in 1 .. Len(b) + Len(<<d>>) :
                 (b \o <<d>>)[i] = IF i <= Len(b) THEN b[i] ELSE <<d>>[i - Len(b)]
      BY <3>1, ConcatProperties
    <3>3. QED
      BY <3>1, <3>2
  <2>2. <<d>>[1] = d
    OBVIOUS
  <2>3. QED
    BY <1>3, <2>1, <2>2
<1>5. \A i \in 1 .. 3 : (b \o <<d>>)[i] = <<c, x, d>>[i]
  BY <1>4
<1>6. b \o <<d>> = <<c, x, d>>
  BY <1>1, <1>4, <1>5, SeqEqual
<1>7. QED
  BY <1>6 DEF Protected, b, c, d

LEMMA LinesAreNot == AnyInterrupt \notin Lines
BY ExternalAssumption DEF AnyInterrupt

LEMMA SpiCallMeans ==
    ASSUME NEW accesses, SpiCall(accesses)
    PROVE  /\ Idle /\ script' = accesses /\ interrupts' = interrupts /\ sreg' = sreg
           /\ intFunc' = intFunc /\ EIMSK' = EIMSK /\ EIFR' = EIFR
           /\ attached' = attached /\ called' = called
           /\ Attached' = Attached /\ (PointersWhole' <=> PointersWhole)
<1>1. /\ Idle /\ script' = accesses /\ interrupts' = interrupts /\ sreg' = sreg
      /\ intFunc' = intFunc /\ EIMSK' = EIMSK /\ EIFR' = EIFR
      /\ attached' = attached /\ called' = called
  BY DEF SpiCall, Calls, hardware, externalVars
<1>2. QED
  BY <1>1 DEF Attached, PointersWhole

LEMMA SettingCallKeeps ==
    ASSUME Inv, ~open, NEW x \in Settings, x.op = "not_using" => interruptMode # "global",
           SpiCall(Protected(<<x>>)), UNCHANGED spiVars
    PROVE  Inv'
<1>1. MasksKept
  BY DEF SpiCall, MasksKept, externalVars
<1>2. Idle /\ script' = <<Other("cli", 0), x, Other("sei", 0)>>
      /\ interrupts' = interrupts /\ sreg' = sreg
  BY SpiCallMeans, ProtectedOne
<1>3. Steady /\ interrupts
  BY <1>2, IdlePhase DEF Outer
<1>4. Guarded(x)'
  BY <1>2, <1>3 DEF Guarded
<1>5. Configuring'
  BY <1>1, <1>3, <1>4, MasksKeptMeans DEF Configuring
<1>6. QED
  BY <1>1, <1>2, <1>5, MasksKeptRest DEF Inv, TypeOK, Phase

LEMMA BeginCallKeeps == ASSUME Inv, CallBeginTransaction PROVE Inv'
<1>1. /\ ~open /\ SpiCall(beginTransaction) /\ open' = TRUE
      /\ interruptMode' = interruptMode /\ interruptMask' = interruptMask
      /\ interruptSave' = interruptSave /\ usesBus' = usesBus
  BY DEF CallBeginTransaction
<1>2. /\ Idle /\ script' = beginTransaction /\ interrupts' = interrupts /\ sreg' = sreg
      /\ intFunc' = intFunc /\ EIMSK' = EIMSK /\ EIFR' = EIFR
      /\ attached' = attached /\ called' = called
      /\ Attached' = Attached /\ (PointersWhole' <=> PointersWhole)
  BY <1>1, SpiCallMeans
<1>3. Steady /\ interrupts /\ EIMSK = Attached /\ PointersWhole
  BY <1>1, <1>2, IdlePhase DEF Outer, Steady
<1>4. TypeOK' /\ NamedMasked' /\ EventsAreHandled'
  BY <1>1, <1>2 DEF Inv, TypeOK, NamedMasked, EventsAreHandled
<1>5. CASE interruptMode = "none"
  <2>1. script' = <<>>
    BY <1>2, <1>5 DEF beginTransaction
  <2>2. Steady' /\ InterruptsAre("free")'
    BY <1>1, <1>2, <1>3, <1>5 DEF Steady, InterruptsAre, Outer
  <2>3. QED
    BY <1>4, <2>1, <2>2, DoneKeeps
<1>6. CASE interruptMode = "mask"
  <2>1. script' = <<Other("cli", 0), Other("save_mask", 0), Other("sei", 0)>>
    BY <1>2, <1>6, ProtectedOne DEF beginTransaction
  <2>2. Guarded(Other("save_mask", 0))'
    BY <1>2, <1>3, <2>1 DEF Guarded
  <2>3. Masking'
    BY <1>1, <1>2, <1>3, <1>6, <2>2 DEF Masking
  <2>4. QED
    BY <1>4, <2>3 DEF Inv, Phase
<1>7. CASE interruptMode = "global"
  <2>1. script' = <<Other("cli", 0), Other("save_sreg", 0)>>
    BY <1>2, <1>7 DEF beginTransaction
  <2>2. TurningOff'
    BY <1>1, <1>2, <1>3, <1>7, <2>1 DEF TurningOff
  <2>3. QED
    BY <1>4, <2>2 DEF Inv, Phase
<1>8. QED
  BY <1>5, <1>6, <1>7 DEF Inv, TypeOK

LEMMA EndCallKeeps == ASSUME Inv, CallEndTransaction PROVE Inv'
<1>1. /\ open /\ SpiCall(endTransaction) /\ open' = FALSE
      /\ interruptMode' = interruptMode /\ interruptMask' = interruptMask
      /\ interruptSave' = interruptSave /\ usesBus' = usesBus
  BY DEF CallEndTransaction
<1>2. /\ Idle /\ script' = endTransaction /\ interrupts' = interrupts /\ sreg' = sreg
      /\ intFunc' = intFunc /\ EIMSK' = EIMSK /\ EIFR' = EIFR
      /\ attached' = attached /\ called' = called
      /\ Attached' = Attached /\ (PointersWhole' <=> PointersWhole)
  BY <1>1, SpiCallMeans
<1>3. Steady /\ (interrupts <=> Outer) /\ PointersWhole
  BY <1>2, IdlePhase DEF Steady
<1>4. TypeOK' /\ NamedMasked' /\ EventsAreHandled'
  BY <1>1, <1>2 DEF Inv, TypeOK, NamedMasked, EventsAreHandled
<1>5. CASE interruptMode = "none"
  <2>1. script' = <<>>
    BY <1>2, <1>5 DEF endTransaction
  <2>2. Steady' /\ InterruptsAre("free")'
    BY <1>1, <1>2, <1>3, <1>5 DEF Steady, InterruptsAre, Outer
  <2>3. QED
    BY <1>4, <2>1, <2>2, DoneKeeps
<1>6. CASE interruptMode = "mask"
  <2>1. script' = <<Other("cli", 0), Other("restore_mask", 0), Other("sei", 0)>>
    BY <1>2, <1>6, ProtectedOne DEF endTransaction
  <2>2. interrupts
    BY <1>3, <1>6 DEF Outer
  <2>3. Guarded(Other("restore_mask", 0))'
    BY <1>2, <2>1, <2>2 DEF Guarded
  <2>4. interruptSave' = Attached' /\ EIMSK' \subseteq Attached'
    BY <1>1, <1>2, <1>3, <1>6 DEF Steady
  <2>5. Unmasking'
    BY <1>1, <1>2, <1>3, <2>3, <2>4 DEF Unmasking
  <2>6. QED
    BY <1>4, <2>5 DEF Inv, Phase
<1>7. CASE interruptMode = "global"
  <2>1. script' = <<Other("cli", 0), Other("restore_sreg", 0)>>
    BY <1>2, <1>7 DEF endTransaction
  <2>2. ~interrupts /\ interruptSave = {AnyInterrupt} /\ EIMSK = Attached
    BY <1>1, <1>3, <1>7 DEF Outer, Steady
  <2>3. TurningOn'
    BY <1>1, <1>2, <1>3, <2>1, <2>2 DEF TurningOn
  <2>4. QED
    BY <1>4, <2>3 DEF Inv, Phase
<1>8. QED
  BY <1>5, <1>6, <1>7 DEF Inv, TypeOK

-----------------------------------------------------------------------------
(* Their steps *)

LEMMA SpiFrameMeans ==
    ASSUME Inv, SpiStep
    PROVE  /\ sreg' = sreg /\ intFunc' = intFunc /\ EIFR' = EIFR
           /\ attached' = attached /\ called' = called /\ open' = open
           /\ Attached' = Attached /\ (PointersWhole' <=> PointersWhole)
           /\ EventsAreHandled'
<1>1. /\ sreg' = sreg /\ intFunc' = intFunc /\ EIFR' = EIFR
      /\ attached' = attached /\ called' = called /\ open' = open
  BY DEF SpiStep
<1>2. QED
  BY <1>1 DEF Inv, Attached, PointersWhole, EventsAreHandled

\* The access between cli and sei is done, and the masks are as they should be.
LEMMA SectionDone ==
    ASSUME NEW x, Guarded(x), ~Idle, x.op # "cli", Head(script).op = x.op,
           script' = Tail(script), interrupts' = interrupts, sreg' = sreg, Outer',
           TypeOK', NamedMasked', EventsAreHandled', Steady'
    PROVE  Inv'
<1>1. script = <<x, Other("sei", 0)>> /\ ~interrupts /\ sreg
  BY Tuples, OpsOf DEF Guarded
<1>2. script' = <<Other("sei", 0)>>
  BY <1>1, Tuples
<1>3. Leads(Other("sei", 0), "held", "free")
  BY OpsOf DEF Leads
<1>4. Runs(script', "held", "free")
  BY <1>2, <1>3, RunsOne DEF Sides
<1>5. InterruptsAre("held")'
  <2>1. ~interrupts' /\ sreg'
    BY <1>1
  <2>2. QED
    BY <2>1 DEF InterruptsAre
<1>6. Wiring'
  BY <1>4, <1>5 DEF Wiring, Sides
<1>7. QED
  BY <1>6 DEF Inv, Phase

\* begin, end, usingInterrupt and notUsingInterrupt.
LEMMA SettingKeeps ==
    ASSUME Inv, SpiStep, CountBegins \/ CountEnds \/ usingInterrupt \/ notUsingInterrupt
    PROVE  Inv'
<1> DEFINE x == Head(script)
<1>1. /\ ~Idle /\ script' = Tail(script)
      /\ x.op \in {"spi_begin", "spi_end", "using", "not_using"}
      /\ interrupts' = interrupts /\ EIMSK' = EIMSK /\ interruptSave' = interruptSave
  BY DEF CountBegins, CountEnds, usingInterrupt, notUsingInterrupt, Does
<1>2. Configuring
  BY <1>1, NextAccess DEF Inv, Phase, WiringOps
<1>3. PICK y \in Settings : Guarded(y) /\ (y.op = "not_using" => interruptMode # "global")
  BY <1>2 DEF Configuring
<1>4. y.op # "cli"
  BY OpsOf DEF Settings
<1>5. x = y
  BY <1>1, <1>3, Tuples, OpsOf DEF Guarded
<1>6. ~open /\ Steady
  BY <1>2 DEF Configuring
<1>7. ~open' /\ Outer' /\ Steady'
  <2>1. ~open'
    BY <1>6, SpiFrameMeans
  <2>2. EIMSK' = Attached' /\ PointersWhole'
    BY <1>1, <1>6, SpiFrameMeans DEF Steady
  <2>3. QED
    BY <2>1, <2>2 DEF Outer, Steady
<1>8. ASSUME TypeOK', NamedMasked' PROVE Inv'
  BY <1>1, <1>3, <1>4, <1>5, <1>7, <1>8, SectionDone, SpiFrameMeans
<1>9. /\ interrupts' \in BOOLEAN /\ sreg' \in BOOLEAN /\ open' \in BOOLEAN
      /\ intFunc' \in [Lines -> [1 .. 2 -> UserFuncs \cup {nothing}]]
      /\ attached' \in [Lines -> UserFuncs \cup {nothing}]
      /\ EIMSK' \subseteq Lines /\ EIFR' \subseteq Lines
  BY <1>1, SpiFrameMeans DEF Inv, TypeOK
<1>10. CASE CountBegins
  <2>1. /\ interruptMode' = interruptMode /\ interruptMask' = interruptMask
        /\ usesBus' = usesBus
    BY <1>10 DEF CountBegins
  <2>2. TypeOK' /\ NamedMasked'
    BY <1>9, <2>1 DEF Inv, TypeOK, NamedMasked
  <2>3. QED
    BY <1>8, <2>2
<1>11. CASE CountEnds
  <2>1. /\ interruptMask' = interruptMask
        /\ \/ interruptMode' = "none" /\ usesBus' = {}
           \/ interruptMode' = interruptMode /\ usesBus' = usesBus
    BY <1>11 DEF CountEnds
  <2>2. TypeOK' /\ NamedMasked'
    BY <1>9, <2>1 DEF Inv, TypeOK, NamedMasked
  <2>3. QED
    BY <1>8, <2>2
<1>12. CASE usingInterrupt
  <2> DEFINE n == x.arg
  <2>1. /\ usesBus' = usesBus \cup {n} /\ x.op = "using"
        /\ interruptMask' = IF n \in Lines THEN interruptMask \cup {n} ELSE interruptMask
    BY <1>12 DEF usingInterrupt, Does
  <2>2. n \in Lines \cup {AnyInterrupt}
    BY <1>3, <1>5, <2>1, OpsOf DEF Settings
  <2>3. CASE n \notin Lines
    <3>1. interruptMode' = "global"
      BY <1>12, <2>3 DEF usingInterrupt
    <3>2. TypeOK' /\ NamedMasked'
      BY <1>9, <2>1, <2>2, <2>3, <3>1 DEF Inv, TypeOK, NamedMasked
    <3>3. QED
      BY <1>8, <3>2
  <2>4. CASE n \in Lines
    <3>1. interruptMode' = IF interruptMode = "none" THEN "mask" ELSE interruptMode
      BY <1>12, <2>4 DEF usingInterrupt
    <3>2. TypeOK' /\ NamedMasked'
      BY <1>9, <2>1, <2>2, <2>4, <3>1 DEF Inv, TypeOK, NamedMasked
    <3>3. QED
      BY <1>8, <3>2
  <2>5. QED
    BY <2>3, <2>4
<1>13. CASE notUsingInterrupt
  <2>1. /\ usesBus' = usesBus \ {x.arg} /\ interruptMask' = interruptMask \ {x.arg}
        /\ interruptMode' = IF interruptMask' = {} THEN "none" ELSE interruptMode
        /\ x.op = "not_using"
    BY <1>13 DEF notUsingInterrupt, Does
  <2>2. interruptMode # "global"
    BY <1>3, <1>5, <2>1
  <2>3. usesBus \subseteq interruptMask
    BY <2>2 DEF Inv, TypeOK, NamedMasked
  <2>4. TypeOK' /\ NamedMasked'
    BY <1>9, <2>1, <2>2, <2>3 DEF Inv, TypeOK, NamedMasked
  <2>5. QED
    BY <1>8, <2>4
<1>14. QED
  BY <1>10, <1>11, <1>12, <1>13

\* beginTransaction and endTransaction.
LEMMA MaskingKeeps ==
    ASSUME Inv, SpiStep, MaskInterrupts \/ UnmaskInterrupts
    PROVE  Inv'
<1>1. /\ ~Idle /\ script' = Tail(script) /\ interrupts' = interrupts
      /\ interruptMode' = interruptMode /\ interruptMask' = interruptMask
      /\ usesBus' = usesBus
  BY DEF MaskInterrupts, UnmaskInterrupts, Does
<1>2. NamedMasked'
  BY <1>1 DEF Inv, NamedMasked
<1>3. EIMSK' \subseteq Lines => TypeOK'
  BY <1>1, SpiFrameMeans DEF Inv, TypeOK
<1>4. Attached \subseteq Lines
  BY DEF Attached
<1>5. CASE MaskInterrupts
  <2>1. Head(script).op = "save_mask" /\ interruptSave' = EIMSK
        /\ EIMSK' = EIMSK \ interruptMask
    BY <1>5 DEF MaskInterrupts, Does
  <2>2. Masking
    BY <1>1, <2>1, NextAccess DEF Inv, Phase, WiringOps
  <2>3. open' /\ interruptMode' = "mask" /\ EIMSK' = Attached' \ interruptMask'
        /\ interruptSave' = Attached' /\ PointersWhole'
    BY <1>1, <2>1, <2>2, SpiFrameMeans DEF Masking
  <2>4. Outer' /\ Steady'
    BY <2>3 DEF Outer, Steady
  <2>5. TypeOK'
    BY <1>3, <1>4, <2>1, <2>2 DEF Masking
  <2>6. QED
    BY <1>1, <1>2, <2>1, <2>2, <2>4, <2>5, OpsOf, SectionDone, SpiFrameMeans DEF Masking
<1>6. CASE UnmaskInterrupts
  <2>1. Head(script).op = "restore_mask" /\ EIMSK' = interruptSave
    BY <1>6 DEF UnmaskInterrupts, Does
  <2>2. Unmasking
    BY <1>1, <2>1, NextAccess DEF Inv, Phase, WiringOps
  <2>3. ~open' /\ EIMSK' = Attached' /\ PointersWhole'
    BY <2>1, <2>2, SpiFrameMeans DEF Unmasking
  <2>4. Outer' /\ Steady'
    BY <2>3 DEF Outer, Steady
  <2>5. TypeOK'
    BY <1>3, <1>4, <2>1, <2>2 DEF Unmasking
  <2>6. QED
    BY <1>1, <1>2, <2>1, <2>2, <2>4, <2>5, OpsOf, SectionDone, SpiFrameMeans DEF Unmasking
<1>7. QED
  BY <1>5, <1>6

LEMMA TurningKeeps ==
    ASSUME Inv, SpiStep, KeepInterruptsOff \/ LetInterruptsOn
    PROVE  Inv'
<1>1. /\ ~Idle /\ script' = Tail(script) /\ EIMSK' = EIMSK
      /\ interruptMode' = interruptMode /\ interruptMask' = interruptMask
      /\ usesBus' = usesBus
  BY DEF KeepInterruptsOff, LetInterruptsOn, Does
<1>2. NamedMasked'
  BY <1>1 DEF Inv, NamedMasked
<1>3. interrupts' \in BOOLEAN => TypeOK'
  BY <1>1, SpiFrameMeans DEF Inv, TypeOK
<1>4. CASE KeepInterruptsOff
  <2>1. Head(script).op = "save_sreg" /\ interrupts' = interrupts
        /\ interruptSave' = IF sreg THEN {AnyInterrupt} ELSE {}
    BY <1>4 DEF KeepInterruptsOff, Does
  <2>2. TurningOff
    BY <1>1, <2>1, NextAccess DEF Inv, Phase, WiringOps
  <2>3. script = <<Other("save_sreg", 0)>> /\ ~interrupts /\ sreg
    BY <2>1, <2>2, Tuples, OpsOf DEF TurningOff
  <2>4. script' = <<>> /\ interruptSave' = {AnyInterrupt}
    BY <1>1, <2>1, <2>3, Tuples
  <2>5. open' /\ interruptMode' = "global" /\ EIMSK' = Attached' /\ PointersWhole'
    BY <1>1, <2>2, SpiFrameMeans DEF TurningOff
  <2>6. ~interrupts' /\ TypeOK'
    BY <1>3, <2>1, <2>3 DEF Inv, TypeOK
  <2>7. Steady' /\ InterruptsAre("free")'
    BY <2>4, <2>5, <2>6 DEF Steady, InterruptsAre, Outer
  <2>8. QED
    BY <1>2, <2>4, <2>6, <2>7, DoneKeeps, SpiFrameMeans
<1>5. CASE LetInterruptsOn
  <2>1. Head(script).op = "restore_sreg" /\ interrupts' = (AnyInterrupt \in interruptSave)
    BY <1>5 DEF LetInterruptsOn, Does
  <2>2. TurningOn
    BY <1>1, <2>1, NextAccess DEF Inv, Phase, WiringOps
  <2>3. script = <<Other("restore_sreg", 0)>>
    BY <2>1, <2>2, Tuples, OpsOf DEF TurningOn
  <2>4. script' = <<>>
    BY <1>1, <2>3, Tuples
  <2>5. interrupts' = TRUE
    BY <2>1, <2>2 DEF TurningOn
  <2>6. ~open' /\ EIMSK' = Attached' /\ PointersWhole'
    BY <1>1, <2>2, SpiFrameMeans DEF TurningOn
  <2>7. TypeOK'
    BY <1>3, <2>5
  <2>8. Steady' /\ InterruptsAre("free")'
    BY <2>5, <2>6 DEF Steady, InterruptsAre, Outer
  <2>9. QED
    BY <1>2, <2>4, <2>7, <2>8, DoneKeeps, SpiFrameMeans
<1>6. QED
  BY <1>4, <1>5

LEMMA SpiStepKeeps == ASSUME Inv, SpiStep PROVE Inv'
<1>1. \/ CountBegins \/ CountEnds \/ usingInterrupt \/ notUsingInterrupt
      \/ MaskInterrupts \/ UnmaskInterrupts \/ KeepInterruptsOff \/ LetInterruptsOn
  BY DEF SpiStep
<1>2. QED
  BY <1>1, SettingKeeps, MaskingKeeps, TurningKeeps

LEMMA SpiCallsKeep == ASSUME Inv, SpiCalls PROVE Inv'
<1>1. CASE CallSpiBegin
  <2>1. Other("spi_begin", 0) \in Settings /\ Other("spi_begin", 0).op # "not_using"
    BY OpsOf DEF Settings
  <2>2. QED
    BY <1>1, <2>1, SettingCallKeeps DEF CallSpiBegin
<1>2. CASE CallSpiEnd
  <2>1. Other("spi_end", 0) \in Settings /\ Other("spi_end", 0).op # "not_using"
    BY OpsOf DEF Settings
  <2>2. QED
    BY <1>2, <2>1, SettingCallKeeps DEF CallSpiEnd
<1>3. ASSUME NEW n \in Lines \cup {AnyInterrupt}, CallUsingInterrupt(n) PROVE Inv'
  <2>1. Other("using", n) \in Settings /\ Other("using", n).op # "not_using"
    BY OpsOf DEF Settings
  <2>2. QED
    BY <1>3, <2>1, SettingCallKeeps DEF CallUsingInterrupt
<1>4. ASSUME NEW n \in Lines \cup {AnyInterrupt}, CallNotUsingInterrupt(n) PROVE Inv'
  <2>1. Other("not_using", n) \in Settings
    BY DEF Settings
  <2>2. QED
    BY <1>4, <2>1, SettingCallKeeps DEF CallNotUsingInterrupt
<1>5. QED
  BY <1>1, <1>2, <1>3, <1>4, BeginCallKeeps, EndCallKeeps DEF SpiCalls

-----------------------------------------------------------------------------
(* Everything else on the board *)

LEMMA WiringCallsKeep == ASSUME Inv, WiringCalls PROVE Inv'
<1>1. MasksKept
  BY DEF WiringCalls, MasksKept
<1>2. ASSUME NEW p, NEW mode \in {"INPUT", "INPUT_PULLUP", "OUTPUT"}, CallPinMode(p, mode)
      PROVE  Inv'
  BY <1>1, <1>2, RunsPinMode, CallKeeps DEF CallPinMode
<1>3. ASSUME NEW p, NEW high, CallDigitalWrite(p, high) PROVE Inv'
  BY <1>1, <1>3, RunsDigitalWrite, CallKeeps DEF CallDigitalWrite
<1>4. ASSUME NEW p, CallDigitalRead(p) PROVE Inv'
  BY <1>1, <1>4, RunsDigitalRead, CallKeeps DEF CallDigitalRead
<1>5. ASSUME NEW p, NEW val, CallAnalogWrite(p, val) PROVE Inv'
  BY <1>1, <1>5, RunsAnalogWrite, CallKeeps DEF CallAnalogWrite
<1>6. ASSUME NEW p, CallAnalogRead(p) PROVE Inv'
  BY <1>1, <1>6, RunsAnalogRead, CallKeeps DEF CallAnalogRead, analogRead
<1>7. ASSUME NEW mode, analogReference(mode) PROVE Inv'
  BY <1>1, <1>7, RestKeeps DEF analogReference, hardware
<1>8. QED
  BY <1>2, <1>3, <1>4, <1>5, <1>6, <1>7 DEF WiringCalls

LEMMA ToneCallsKeep == ASSUME Inv, ToneCalls PROVE Inv'
<1>1. MasksKept
  BY DEF ToneCalls, MasksKept
<1>2. ASSUME NEW p, NEW asTone, CallTone(p, asTone) PROVE Inv'
  BY <1>1, <1>2, DecidingCallKeeps DEF CallTone
<1>3. ASSUME NEW p, CallNoTone(p) PROVE Inv'
  BY <1>1, <1>3, DecidingCallKeeps DEF CallNoTone
<1>4. QED
  BY <1>2, <1>3 DEF ToneCalls

LEMMA LedKeeps == ASSUME Inv, Led PROVE Inv'
<1>1. MasksKept
  BY DEF Led, MasksKept
<1>2. ASSUME NEW high, CallDigitalWrite(LedPin, high) PROVE Inv'
  BY <1>1, <1>2, RunsDigitalWrite, CallKeeps DEF CallDigitalWrite
<1>3. UNCHANGED pinVars => Inv'
  BY <1>1, RestKeeps DEF pinVars, program, hardware
<1>4. LedCalls => UNCHANGED pinVars \/ \E high : CallDigitalWrite(LedPin, high)
  <2>1. ASSUME NEW onNew, NEW offNew, t(onNew, offNew) PROVE UNCHANGED pinVars
    BY <2>1 DEF t
  <2>2. keepFlashing => UNCHANGED pinVars
    BY DEF keepFlashing
  <2>3. ASSUME NEW n, stopAfter(n) PROVE UNCHANGED pinVars
    BY <2>3 DEF stopAfter
  <2>4. ASSUME NEW high, onOff(high) PROVE CallDigitalWrite(LedPin, high)
    BY <2>4 DEF onOff
  <2>5. QED
    BY <2>1, <2>2, <2>3, <2>4 DEF LedCalls
<1>5. update => UNCHANGED pinVars \/ \E high : CallDigitalWrite(LedPin, high)
  BY DEF update, TurnOff, TurnOn, StayAsIs
<1>6. QED
  BY <1>2, <1>3, <1>4, <1>5 DEF Led

LEMMA ExternalCallsKeep == ASSUME Inv, ExternalCalls PROVE Inv'
BY AttachCallKeeps, DetachCallKeeps DEF ExternalCalls

LEMMA PinsStepKeeps == ASSUME Inv, MasksKept, PinsStep PROVE Inv'
<1>1. CASE DisableInterrupts
  BY <1>1, EnterKeeps DEF DisableInterrupts
<1>2. CASE RestoreInterrupts
  BY <1>2, LeaveKeeps DEF RestoreInterrupts
<1>3. CASE LoadRegister \/ ReadPin \/ SelectChannel \/ Convert \/ SetDuty
  <2>1. /\ ~Idle /\ Head(script).op \in WiringOps /\ script' = Tail(script)
        /\ interrupts' = interrupts /\ sreg' = sreg
    BY <1>3 DEF LoadRegister, ReadPin, SelectChannel, Convert, SetDuty, Does, hardware,
                WiringOps
  <2>2. QED
    BY <2>1, AccessKeeps
<1>4. CASE StoreRegister
  <2>1. /\ ~Idle /\ Head(script).op \in WiringOps /\ script' = Tail(script)
        /\ interrupts' = interrupts /\ sreg' = sreg
    BY <1>4 DEF StoreRegister, Does, WiringOps
  <2>2. QED
    BY <2>1, AccessKeeps
<1>5. QED
  BY <1>1, <1>2, <1>3, <1>4 DEF PinsStep

LEMMA ToneStepKeeps == ASSUME Inv, MasksKept, ToneStep PROVE Inv'
<1>1. CASE toneBegin
  <2>1. /\ ~Idle /\ Head(script).op = "begin" /\ interrupts' = interrupts /\ sreg' = sreg
    BY <1>1 DEF toneBegin, hardware
  <2>2. \E asTone : \/ script' = Start(pin, asTone)
                    \/ script' = Setup \o Start(pin, asTone)
                    \/ script' = Tail(script)
    BY <1>1 DEF toneBegin
  <2>3. Runs(script', "free", "free") \/ script' = Tail(script)
    BY <2>2, RunsTone
  <2>4. QED
    BY <2>1, <2>3, DecisionKeeps
<1>2. CASE noTone
  <2>1. /\ ~Idle /\ Head(script).op = "end" /\ interrupts' = interrupts /\ sreg' = sreg
    BY <1>2 DEF noTone, hardware
  <2>2. \/ script' = disableTimer \o digitalWrite(pin, FALSE)
        \/ script' = digitalWrite(pin, FALSE)
    BY <1>2 DEF noTone
  <2>3. Runs(script', "free", "free")
    BY <2>2, RunsNoTone, RunsDigitalWrite
  <2>4. QED
    BY <2>1, <2>3, DecisionKeeps
<1>3. CASE /\ WriteRegister \/ SetTop \/ SetTone
           /\ UNCHANGED <<interrupts, sreg, adc, copy, pin, answer, analog_reference>>
  <2>1. ~Idle /\ Head(script).op \in WiringOps /\ script' = Tail(script)
    BY <1>3 DEF WriteRegister, SetTop, SetTone, Does, WiringOps
  <2>2. QED
    BY <1>3, <2>1, AccessKeeps
<1>4. QED
  BY <1>1, <1>2, <1>3 DEF ToneStep

LEMMA StepKeeps == ASSUME Inv, Step PROVE Inv'
<1>1. CASE PinsStep /\ UNCHANGED <<toneVars, ledVars, externalVars, spiVars>>
  BY <1>1, PinsStepKeeps DEF MasksKept
<1>2. CASE ToneStep /\ UNCHANGED <<ledVars, externalVars, spiVars>>
  BY <1>2, ToneStepKeeps DEF MasksKept
<1>3. CASE ExternalStep /\ UNCHANGED <<toneVars, ledVars, spiVars>>
  <2>1. StorePointer \/ SetMask
    BY <1>3 DEF ExternalStep
  <2>2. QED
    BY <1>3, <2>1, StoreKeeps, MaskStepKeeps
<1>4. CASE SpiStep /\ UNCHANGED <<toneVars, ledVars>>
  BY <1>4, SpiStepKeeps
<1>5. QED
  BY <1>1, <1>2, <1>3, <1>4 DEF Step

LEMMA HandlersKeep == ASSUME Inv, Handlers PROVE Inv'
<1>1. CASE HandlerWrites /\ UNCHANGED <<toneVars, ledVars, externalVars, spiVars>>
  <2>1. script' = script /\ interrupts' = interrupts /\ sreg' = sreg
    BY <1>1 DEF HandlerWrites, program
  <2>2. QED
    BY <1>1, <2>1, RestKeeps DEF MasksKept
<1>2. CASE ToneInterrupt /\ UNCHANGED <<ledVars, externalVars, spiVars>>
  <2>1. script' = script /\ interrupts' = interrupts /\ sreg' = sreg
    BY <1>2 DEF ToneInterrupt, Toggle, EndOfTone, program
  <2>2. QED
    BY <1>2, <2>1, RestKeeps DEF MasksKept
<1>3. CASE (Edge \/ ExternalInterrupt) /\ UNCHANGED <<toneVars, ledVars, spiVars>>
  BY <1>3, EdgeKeeps
<1>4. QED
  BY <1>1, <1>2, <1>3 DEF Handlers

LEMMA InvInit == Init => Inv
<1> SUFFICES ASSUME Init PROVE Inv
  OBVIOUS
<1>1. /\ script = <<>> /\ interrupts = TRUE /\ sreg = TRUE
      /\ intFunc = [n \in Lines |-> Pointer(nothing)]
      /\ EIMSK = {} /\ EIFR = {}
      /\ attached = [n \in Lines |-> nothing] /\ called = <<>>
      /\ interruptMode = "none" /\ interruptMask = {} /\ open = FALSE /\ usesBus = {}
  BY DEF Init, PinsInit, ExternalInit, SpiInit
<1>2. Pointer(nothing) \in [1 .. 2 -> UserFuncs \cup {nothing}]
  BY DEF Pointer
<1>3. TypeOK /\ NamedMasked /\ EventsAreHandled
  BY <1>1, <1>2 DEF TypeOK, NamedMasked, EventsAreHandled
<1>4. Attached = {}
  BY <1>1 DEF Attached
<1>5. Steady /\ InterruptsAre("free")
  BY <1>1, <1>4 DEF Steady, PointersWhole, InterruptsAre, Outer
<1>6. Wiring
  BY <1>1, <1>5, RunsNone DEF Wiring, Sides
<1>7. QED
  BY <1>3, <1>6 DEF Inv, Phase

LEMMA InvStep == Inv /\ [Next]_vars => Inv'
<1> SUFFICES ASSUME Inv, [Next]_vars PROVE Inv'
  OBVIOUS
<1>1. CASE Program
  BY <1>1, WiringCallsKeep, ToneCallsKeep, LedKeeps, ExternalCallsKeep, SpiCallsKeep, StepKeeps
     DEF Program, Spi
<1>2. CASE Clock
  <2>1. script' = script /\ interrupts' = interrupts /\ sreg' = sreg /\ MasksKept
    BY <1>2 DEF Clock, Millisecond, pinVars, program, hardware, MasksKept
  <2>2. QED
    BY <2>1, RestKeeps
<1>3. CASE Handlers
  BY <1>3, HandlersKeep
<1>4. CASE UNCHANGED vars
  <2>1. script' = script /\ interrupts' = interrupts /\ sreg' = sreg /\ MasksKept
    BY <1>4 DEF vars, pinVars, program, hardware, MasksKept
  <2>2. QED
    BY <2>1, RestKeeps
<1>5. QED
  BY <1>1, <1>2, <1>3, <1>4 DEF Next

-----------------------------------------------------------------------------
(* Pins and tone: what is left of a call is still to bring about what is not  *)
(* yet as it was asked for, and nothing else.                                 *)

\* An access of this kind is left, a store to the bit of pin p in r.
Has(s, op) == \E x \in Items(s) : x.op = op

Stores(s, r, p) == \E x \in Items(s) : IsStore(x) /\ x.reg = r /\ x.bits = {p}

\* The last divisor that s sets is v.
LastDivisor(s, v) == \E i \in 1 .. Len(s) :
    /\ s[i].op = "prescale" /\ s[i].arg = v
    /\ \A j \in 1 .. Len(s) : j > i => s[j].op # "prescale"

TimerOps == {"write", "prescale", "tone_pin", "top", "count", "compare_interrupt"}

ModeStore(x) == x.op = "set" /\ x.reg = "TCCR2A" /\ x.bits = {WGM21}

ConnectsPin(x, p) == x.op = "duty" \/ (x.op = "set" /\ x.reg \in TimerRegisters /\ x.bits = {p})

\* A store follows its load, and what the program looks at comes last.
Paired(s) == \A i \in 1 .. Len(s) : i > 1 =>
    /\ IsStore(s[i]) => s[i - 1].op = "load" /\ s[i - 1].reg = s[i].reg
    /\ s[i].op = "convert" => s[i - 1].op = "admux"

LooksLast(s) == \A i \in 1 .. Len(s) : s[i].op \in {"read", "convert"} => i = Len(s)

\* The order in which tone and noTone set up the timer and give it back.
TimerInOrder(s, p) == \A i \in 1 .. Len(s) :
    /\ s[i].op = "write" =>
           /\ \A j \in 1 .. Len(s) : j < i => s[j].op = "compare_interrupt"
           /\ \A x \in Items(s) : ~ConnectsPin(x, p)
    /\ s[i].op = "tone_pin" =>
           \A j \in 1 .. Len(s) : j < i => s[j].op # "compare_interrupt"
    /\ s[i].op = "compare_interrupt" => s[i].arg \/ i = 1

InOrder(s, p) == s \in Seq(Items(s)) /\ Paired(s) /\ LooksLast(s) /\ TimerInOrder(s, p)

\* A store to a bit of the pin of the call.
PinStore(x) ==
    /\ pin \in Pins /\ x.bits = {pin}
    /\ \/ x.reg = Mode(pin) /\ (x.op = "set" <=> asked[pin].out)
       \/ x.reg = Output(pin) /\ pin \notin HandlerPins /\ (x.op = "set" <=> asked[pin].high)
       \/ OnTimer(pin) /\ x.reg = Timer(pin) /\ (x.op = "set" <=> asked[pin].duty # 0)

Divisor == Prescaler(sounding.frequency)

TopAsked == Top(sounding.frequency, Divisor) % 256

\* An access does what the call was asked for.
Fits(x) ==
    /\ IsStore(x) => PinStore(x) \/ (ModeStore(x) /\ tone_pins = pin /\ pin \in TonePins)
    /\ x.op = "duty" => /\ pin \in Pins /\ OnTimer(pin) /\ x.arg = asked[pin].duty
                        /\ pin = OCR2A => "tone" \notin use
    /\ x.op = "read" => pin \in Pins \ HandlerPins
    /\ x.op = "admux" => x.arg = analogChannel(pin)
    /\ x.op \in TimerOps \cup {"begin", "end"} => "tone" \in use /\ pin \in TonePins
    /\ x.op \in TimerOps => tone_pins \in {pin, NoPin}
    /\ x.op = "write" =>
           x.reg = "TCCR2A" /\ x.bits = IF tone_pins = NoPin THEN {WGM20} ELSE {}
    /\ x.op = "top" /\ tone_pins # NoPin => x.arg = TopAsked
    /\ x.op = "compare_interrupt" => x.arg \in BOOLEAN /\ (x.arg <=> tone_pins # NoPin)

AllFit == \A x \in Items(script) : Fits(x)

\* What was read before is still so when it is used.
Loaded ==
    ~Idle =>
        /\ IsStore(Head(script)) => copy = reg[Head(script).reg]
        /\ Head(script).op = "convert" =>
               adc = [channel |-> analogChannel(pin), reference |-> analog_reference]

OutIs(p)  == p \in reg[Mode(p)] <=> asked[p].out
HighIs(p) == p \in reg[Output(p)] <=> asked[p].high
ConnectedIs(p) == OnTimer(p) => (p \in reg[Timer(p)] <=> asked[p].duty # 0)
DutyIs(p) == OnTimer(p) /\ asked[p].duty # 0 => ocr[p] = asked[p].duty

PinsSettle == \A p \in Pins :
    /\ OutIs(p) \/ Stores(script, Mode(p), p)
    /\ HighIs(p) \/ Stores(script, Output(p), p) \/ p = tone_pins
    /\ ConnectedIs(p) \/ (OnTimer(p) /\ Stores(script, Timer(p), p))
    /\ DutyIs(p) \/ (p = pin /\ Has(script, "duty"))

Wgm == reg["TCCR2A"] \cap Wgm2

DivisorSettles(s, divisor, v) ==
    \/ divisor = v /\ ~Has(s, "prescale")
    \/ LastDivisor(s, v)

Sounds ==
    /\ OCIE2A \/ Has(script, "compare_interrupt")
    /\ timer2_pin = tone_pins \/ Has(script, "tone_pin")
    /\ ocr[OCR2A] = TopAsked \/ Has(script, "top")
    /\ DivisorSettles(script, prescaler2, Divisor)
    /\ \/ Wgm = {WGM21} /\ ~Has(script, "write")
       \/ (\E x \in Items(script) : ModeStore(x)) /\ (Wgm = {} \/ Has(script, "write"))

IsSilent ==
    /\ ~OCIE2A \/ Has(script, "compare_interrupt")
    /\ DivisorSettles(script, prescaler2, 64)
    /\ Wgm = {WGM20} \/ Has(script, "write")

\* The pin that the interrupt toggles: the one that sounds, or one that the
\* program is about to drive low.
TogglesItsPin ==
    OCIE2A => /\ "tone" \in use
              /\ IF tone_pins = NoPin
                 THEN timer2_pin = pin /\ Stores(script, Output(pin), pin)
                 ELSE timer2_pin = tone_pins

TimerSettles ==
    /\ tone_pins \in TonePins \cup {NoPin}
    /\ tone_pins # NoPin => "tone" \in use
    /\ IF tone_pins = NoPin THEN IsSilent ELSE Sounds
    /\ TogglesItsPin
    /\ Has(script, "tone_pin") => ~OCIE2A
    /\ "tone" \in use /\ OCR2A \in Pins => asked[OCR2A].duty = 0

Answers ==
    /\ answer # <<>> => Idle
    /\ \/ answer = <<>>
       \/ /\ answer = <<answer[1]>> /\ pin \in Pins \ HandlerPins
          /\ "tone" \notin use /\ asked[pin].out => answer[1] = asked[pin].high
       \/ answer = <<analogChannel(pin), analog_reference>>

PinTypes ==
    /\ reg \in [Registers -> SUBSET Int]
    /\ DOMAIN ocr = DOMAIN digital_pin_to_timer
    /\ asked \in [Pins -> [out : BOOLEAN, high : BOOLEAN, duty : Int]]
    /\ use \in Programs

PinInv ==
    /\ PinTypes /\ InOrder(script, pin) /\ AllFit /\ Loaded
    /\ PinsSettle /\ TimerSettles /\ Answers

-----------------------------------------------------------------------------
(* The tables *)

LEMMA PinNumbers ==
    /\ Pins \subseteq 0 .. 19 /\ HandlerPins \subseteq Pins
    /\ WGM20 = 20 /\ WGM21 = 21 /\ NoPin \notin Pins /\ NoPin \notin TonePins
    /\ TonePins \subseteq Pins /\ TonePins \cap HandlerPins = {}
    /\ \A p \in HandlerPins : ~OnTimer(p)
    /\ LedPin \in Pins \ HandlerPins /\ ProgramPins \subseteq Pins \ HandlerPins
<1>1. Pins \subseteq 0 .. 19 /\ HandlerPins \subseteq Pins /\ \A p \in HandlerPins : ~OnTimer(p)
  BY PinsAssumption DEF NUM_DIGITAL_PINS
<1>2. TonePins \subseteq Pins \ HandlerPins
  BY ToneAssumption
<1>3. LedPin \in Pins \ HandlerPins
  BY LedFlashAssumption
<1>4. ProgramPins \subseteq Pins \ HandlerPins
  BY BoardAssumption
<1>5. WGM20 = 20 /\ WGM21 = 21 /\ NoPin = 255
  BY DEF NUM_DIGITAL_PINS, WGM20, WGM21, NoPin
<1>6. NoPin \notin Pins
  BY <1>1, <1>5
<1>7. QED
  BY <1>1, <1>2, <1>3, <1>4, <1>5, <1>6

LEMMA RegistersOf ==
    /\ Registers = {"DDRB", "DDRC", "DDRD", "PORTB", "PORTC", "PORTD"} \cup TimerRegisters
    /\ \A p : /\ Mode(p) \in {"DDRB", "DDRC", "DDRD"}
              /\ Output(p) \in {"PORTB", "PORTC", "PORTD"}
              /\ Mode(p) \in Registers /\ Output(p) \in Registers
              /\ OnTimer(p) => Timer(p) \in Registers
              /\ Mode(p) \notin TimerRegisters /\ Output(p) \notin TimerRegisters
<1>1. \A p : /\ Mode(p) \in {"DDRB", "DDRC", "DDRD"}
             /\ Output(p) \in {"PORTB", "PORTC", "PORTD"}
  BY DEF Mode, Output, digital_pin_to_port, port_to_mode, port_to_output
<1>2. Registers = {"DDRB", "DDRC", "DDRD", "PORTB", "PORTC", "PORTD"} \cup TimerRegisters
  BY DEF Registers, port_to_mode, port_to_output, TimerRegisters
<1>3. QED
  BY <1>1, <1>2, TimerIs DEF TimerRegisters

LEMMA Timer2PinsAre ==
    /\ Timer2Pins \subseteq Pins
    /\ \A p \in Pins : p \in Timer2Pins <=> (OnTimer(p) /\ Timer(p) = "TCCR2A")
BY DEF Timer2Pins

-----------------------------------------------------------------------------
(* A step to the rest of a script *)

LEMMA TailItems ==
    ASSUME NEW s, s \in Seq(Items(s)), s # <<>>
    PROVE  /\ Len(s) \in Nat \ {0} /\ Head(s) = s[1] /\ Tail(s) \in Seq(Items(Tail(s)))
           /\ Len(Tail(s)) = Len(s) - 1
           /\ \A i \in 1 .. Len(Tail(s)) : Tail(s)[i] = s[i + 1]
           /\ Head(s) \in Items(s) /\ Items(Tail(s)) \subseteq Items(s)
           /\ \A x \in Items(s) : x = Head(s) \/ x \in Items(Tail(s))
<1> DEFINE u == Tail(s)
<1>1. /\ Len(s) \in Nat \ {0} /\ u \in Seq(Items(s)) /\ Len(u) = Len(s) - 1
      /\ Head(s) = s[1] /\ \A i \in 1 .. Len(u) : u[i] = s[i + 1]
  BY EmptySeq, HeadTailProperties
<1>2. DOMAIN s = 1 .. Len(s) /\ DOMAIN u = 1 .. Len(u)
  BY <1>1, LenProperties
<1> HIDE DEF u
<1>3. u \in Seq(Items(u)) /\ Items(u) \subseteq Items(s)
  BY <1>1, SeqOfItems
<1>4. Head(s) \in Items(s)
  BY <1>1, <1>2 DEF Items
<1>5. ASSUME NEW x \in Items(s), x # Head(s) PROVE x \in Items(u)
  <2>1. PICK i \in 1 .. Len(s) : x = s[i]
    BY <1>2 DEF Items
  <2>2. i # 1
    BY <1>1, <1>5, <2>1
  <2>3. i - 1 \in 1 .. Len(u) /\ (i - 1) + 1 = i
    BY <1>1, <2>1, <2>2
  <2>4. u[i - 1] = x
    BY <1>1, <2>1, <2>3
  <2>5. QED
    BY <1>2, <2>3, <2>4 DEF Items
<1>6. QED
  BY <1>1, <1>3, <1>4, <1>5 DEF u

LEMMA TailInOrder ==
    ASSUME NEW s, NEW p, InOrder(s, p), s # <<>>
    PROVE  InOrder(Tail(s), p)
<1> DEFINE u == Tail(s)
<1>1. /\ Len(s) \in Nat \ {0} /\ u \in Seq(Items(u)) /\ Len(u) = Len(s) - 1
      /\ \A i \in 1 .. Len(u) : u[i] = s[i + 1]
      /\ Items(u) \subseteq Items(s)
  BY TailItems DEF InOrder
<1> HIDE DEF u
<1>2. ASSUME NEW i \in 1 .. Len(u)
      PROVE  i + 1 \in 1 .. Len(s) /\ u[i] = s[i + 1] /\ i + 1 > 1
             /\ (i > 1 => i - 1 \in 1 .. Len(u) /\ u[i - 1] = s[(i + 1) - 1])
  <2>1. i + 1 \in 1 .. Len(s) /\ u[i] = s[i + 1] /\ i + 1 > 1
    BY <1>1
  <2>2. CASE i > 1
    <3>1. i - 1 \in 1 .. Len(u) /\ (i - 1) + 1 = (i + 1) - 1
      BY <1>1, <2>2
    <3>2. QED
      BY <1>1, <2>1, <3>1
  <2>3. QED
    BY <2>1, <2>2
<1>3. Paired(u)
  <2>1. SUFFICES ASSUME NEW i \in 1 .. Len(u), i > 1
                 PROVE  /\ IsStore(u[i]) => u[i - 1].op = "load" /\ u[i - 1].reg = u[i].reg
                        /\ u[i].op = "convert" => u[i - 1].op = "admux"
    BY DEF Paired
  <2>2. QED
    BY <1>2, <2>1 DEF InOrder, Paired
<1>4. LooksLast(u)
  <2>1. SUFFICES ASSUME NEW i \in 1 .. Len(u), u[i].op \in {"read", "convert"}
                 PROVE  i = Len(u)
    BY DEF LooksLast
  <2>2. i + 1 = Len(s)
    BY <1>2, <2>1 DEF InOrder, LooksLast
  <2>3. QED
    BY <1>1, <2>2
<1>5. TimerInOrder(u, p)
  <2>1. SUFFICES ASSUME NEW i \in 1 .. Len(u)
                 PROVE  /\ u[i].op = "write" =>
                              /\ \A j \in 1 .. Len(u) : j < i => u[j].op = "compare_interrupt"
                              /\ \A x \in Items(u) : ~ConnectsPin(x, p)
                        /\ u[i].op = "tone_pin" =>
                              \A j \in 1 .. Len(u) : j < i => u[j].op # "compare_interrupt"
                        /\ u[i].op = "compare_interrupt" => u[i].arg \/ i = 1
    BY DEF TimerInOrder
  <2>2. /\ u[i] = s[i + 1] /\ i + 1 \in 1 .. Len(s)
        /\ \A j \in 1 .. Len(u) : j < i => u[j] = s[j + 1] /\ j + 1 \in 1 .. Len(s) /\ j + 1 < i + 1
    BY <1>1, <1>2
  <2>3. u[i].op = "compare_interrupt" => u[i].arg
    BY <1>2, <2>2 DEF InOrder, TimerInOrder
  <2>4. ASSUME u[i].op = "write"
        PROVE  /\ \A j \in 1 .. Len(u) : j < i => u[j].op = "compare_interrupt"
               /\ \A x \in Items(u) : ~ConnectsPin(x, p)
    <3>1. s[i + 1].op = "write"
      BY <2>2, <2>4
    <3>2. /\ \A j \in 1 .. Len(s) : j < i + 1 => s[j].op = "compare_interrupt"
          /\ \A x \in Items(s) : ~ConnectsPin(x, p)
      BY <2>2, <3>1 DEF InOrder, TimerInOrder
    <3>3. QED
      BY <1>1, <2>2, <3>2
  <2>5. ASSUME u[i].op = "tone_pin"
        PROVE  \A j \in 1 .. Len(u) : j < i => u[j].op # "compare_interrupt"
    <3>1. s[i + 1].op = "tone_pin"
      BY <2>2, <2>5
    <3>2. \A j \in 1 .. Len(s) : j < i + 1 => s[j].op # "compare_interrupt"
      BY <2>2, <3>1 DEF InOrder, TimerInOrder
    <3>3. QED
      BY <2>2, <3>2
  <2>6. QED
    BY <2>3, <2>4, <2>5
<1>6. QED
  BY <1>1, <1>3, <1>4, <1>5 DEF InOrder, u

\* What is left after the first access.
LEMMA TailHas ==
    ASSUME NEW s, s \in Seq(Items(s)), s # <<>>
    PROVE  /\ \A op : Has(Tail(s), op) => Has(s, op)
           /\ \A op : Has(s, op) => Head(s).op = op \/ Has(Tail(s), op)
           /\ \A r, p : Stores(Tail(s), r, p) => Stores(s, r, p)
           /\ \A r, p : Stores(s, r, p) =>
                  \/ IsStore(Head(s)) /\ Head(s).reg = r /\ Head(s).bits = {p}
                  \/ Stores(Tail(s), r, p)
           /\ (\E x \in Items(s) : ModeStore(x)) =>
                  ModeStore(Head(s)) \/ \E x \in Items(Tail(s)) : ModeStore(x)
           /\ (\E x \in Items(Tail(s)) : ModeStore(x)) => \E x \in Items(s) : ModeStore(x)
<1> DEFINE u == Tail(s)
<1>1. /\ Head(s) \in Items(s) /\ Items(u) \subseteq Items(s)
      /\ \A x \in Items(s) : x = Head(s) \/ x \in Items(u)
  BY TailItems
<1> HIDE DEF u
<1>2. \A op : /\ Has(u, op) => Has(s, op)
              /\ Has(s, op) => Head(s).op = op \/ Has(u, op)
  BY <1>1 DEF Has
<1>3. \A r, p : /\ Stores(u, r, p) => Stores(s, r, p)
                /\ Stores(s, r, p) =>
                     \/ IsStore(Head(s)) /\ Head(s).reg = r /\ Head(s).bits = {p}
                     \/ Stores(u, r, p)
  BY <1>1 DEF Stores
<1>4. QED
  BY <1>1, <1>2, <1>3 DEF u

LEMMA DivisorIsSet ==
    ASSUME NEW s, s \in Seq(Items(s)), NEW v, LastDivisor(s, v)
    PROVE  Has(s, "prescale")
<1>1. PICK i \in 1 .. Len(s) : s[i].op = "prescale"
  BY DEF LastDivisor
<1>2. s[i] \in Items(s)
  BY LenProperties DEF Items
<1>3. QED
  BY <1>1, <1>2 DEF Has

LEMMA TailDivisor ==
    ASSUME NEW s, s \in Seq(Items(s)), s # <<>>, NEW v, LastDivisor(s, v)
    PROVE  /\ Has(s, "prescale")
           /\ Head(s).op # "prescale" => LastDivisor(Tail(s), v)
           /\ Head(s).op = "prescale" =>
                  (Head(s).arg = v /\ ~Has(Tail(s), "prescale")) \/ LastDivisor(Tail(s), v)
<1> DEFINE u == Tail(s)
<1>1. /\ Len(s) \in Nat \ {0} /\ Head(s) = s[1] /\ u \in Seq(Items(u))
      /\ Len(u) = Len(s) - 1 /\ \A i \in 1 .. Len(u) : u[i] = s[i + 1]
  BY TailItems
<1>2. DOMAIN s = 1 .. Len(s) /\ DOMAIN u = 1 .. Len(u)
  BY <1>1, LenProperties
<1> HIDE DEF u
<1>3. PICK i \in 1 .. Len(s) : /\ s[i].op = "prescale" /\ s[i].arg = v
                               /\ \A j \in 1 .. Len(s) : j > i => s[j].op # "prescale"
  BY DEF LastDivisor
<1>4. Has(s, "prescale")
  BY <1>2, <1>3 DEF Has, Items
<1>5. CASE i = 1
  <2>1. Head(s).op = "prescale" /\ Head(s).arg = v
    BY <1>1, <1>3, <1>5
  <2>2. ASSUME NEW x \in Items(u) PROVE x.op # "prescale"
    <3>1. PICK j \in 1 .. Len(u) : x = u[j]
      BY <1>2 DEF Items
    <3>2. x = s[j + 1] /\ j + 1 \in 1 .. Len(s) /\ j + 1 > i
      BY <1>1, <1>5, <3>1
    <3>3. QED
      BY <1>3, <3>2
  <2>3. QED
    BY <1>4, <2>1, <2>2 DEF Has, u
<1>6. CASE i # 1
  <2>1. i - 1 \in 1 .. Len(u) /\ (i - 1) + 1 = i
    BY <1>1, <1>6
  <2>2. u[i - 1].op = "prescale" /\ u[i - 1].arg = v
    BY <1>1, <1>3, <2>1
  <2>3. ASSUME NEW j \in 1 .. Len(u), j > i - 1 PROVE u[j].op # "prescale"
    <3>1. u[j] = s[j + 1] /\ j + 1 \in 1 .. Len(s) /\ j + 1 > i
      BY <1>1, <2>3
    <3>2. QED
      BY <1>3, <3>1
  <2>4. LastDivisor(u, v)
    BY <2>1, <2>2, <2>3 DEF LastDivisor
  <2>5. QED
    BY <1>4, <2>4 DEF u
<1>7. QED
  BY <1>5, <1>6

LEMMA HeadInOrder ==
    ASSUME NEW s, NEW p, InOrder(s, p), s # <<>>
    PROVE  /\ Tail(s) # <<>> =>
                  /\ IsStore(Head(Tail(s))) =>
                         Head(s).op = "load" /\ Head(s).reg = Head(Tail(s)).reg
                  /\ Head(Tail(s)).op = "convert" => Head(s).op = "admux"
           /\ Head(s).op \in {"read", "convert"} => Tail(s) = <<>>
           /\ Head(s).op = "write" => ~Has(Tail(s), "write")
           /\ Has(s, "write") =>
                  /\ Head(s).op \in {"write", "compare_interrupt"}
                  /\ \A x \in Items(s) : ~ConnectsPin(x, p)
           /\ Has(s, "tone_pin") => Head(s).op # "compare_interrupt"
           /\ \A x \in Items(s) :
                  x.op = "compare_interrupt" => x.arg \/ Head(s).op = "compare_interrupt"
           /\ \A x \in Items(Tail(s)) : x.op = "compare_interrupt" => x.arg
<1> DEFINE u == Tail(s)
<1>1. /\ s \in Seq(Items(s)) /\ Len(s) \in Nat \ {0} /\ Head(s) = s[1]
      /\ u \in Seq(Items(u)) /\ Len(u) = Len(s) - 1
      /\ \A i \in 1 .. Len(u) : u[i] = s[i + 1]
  BY TailItems DEF InOrder
<1>2. DOMAIN s = 1 .. Len(s) /\ DOMAIN u = 1 .. Len(u)
  BY <1>1, LenProperties
<1>3. u # <<>> => Len(u) # 0 /\ Head(u) = u[1]
  BY <1>1, EmptySeq, HeadTailProperties
<1>4. u = <<>> <=> Len(u) = 0
  BY <1>1, EmptySeq
<1> HIDE DEF u
<1>5. \A x \in Items(s) : \E i \in 1 .. Len(s) : x = s[i]
  BY <1>2 DEF Items
<1>6. \A x \in Items(u) : \E i \in 2 .. Len(s) : x = s[i]
  <2>1. SUFFICES ASSUME NEW x \in Items(u) PROVE \E i \in 2 .. Len(s) : x = s[i]
    OBVIOUS
  <2>2. PICK j \in 1 .. Len(u) : x = u[j]
    BY <1>2 DEF Items
  <2>3. x = s[j + 1] /\ j + 1 \in 2 .. Len(s)
    BY <1>1, <2>2
  <2>4. QED
    BY <2>3
<1>7. u # <<>> => /\ IsStore(Head(u)) => Head(s).op = "load" /\ Head(s).reg = Head(u).reg
                  /\ Head(u).op = "convert" => Head(s).op = "admux"
  <2>1. SUFFICES ASSUME u # <<>>
                 PROVE  /\ IsStore(Head(u)) => Head(s).op = "load" /\ Head(s).reg = Head(u).reg
                        /\ Head(u).op = "convert" => Head(s).op = "admux"
    OBVIOUS
  <2>2. Head(u) = s[2] /\ 2 \in 1 .. Len(s) /\ 2 > 1 /\ s[2 - 1] = Head(s)
    BY <1>1, <1>3, <2>1
  <2>3. QED
    BY <2>2 DEF InOrder, Paired
<1>8. Head(s).op \in {"read", "convert"} => u = <<>>
  <2>1. 1 \in 1 .. Len(s)
    BY <1>1
  <2>2. QED
    BY <1>1, <1>4, <2>1 DEF InOrder, LooksLast
<1>9. Head(s).op = "write" => ~Has(u, "write")
  <2>1. SUFFICES ASSUME Head(s).op = "write", Has(u, "write") PROVE FALSE
    OBVIOUS
  <2>2. PICK i \in 2 .. Len(s) : s[i].op = "write"
    BY <1>6, <2>1 DEF Has
  <2>3. i \in 1 .. Len(s) /\ 1 \in 1 .. Len(s) /\ 1 < i
    BY <1>1
  <2>4. s[1].op = "compare_interrupt"
    BY <2>2, <2>3 DEF InOrder, TimerInOrder
  <2>5. QED
    BY <1>1, <2>1, <2>4
<1>10. Has(s, "write") => /\ Head(s).op \in {"write", "compare_interrupt"}
                          /\ \A x \in Items(s) : ~ConnectsPin(x, p)
  <2>1. SUFFICES ASSUME Has(s, "write")
                 PROVE  /\ Head(s).op \in {"write", "compare_interrupt"}
                        /\ \A x \in Items(s) : ~ConnectsPin(x, p)
    OBVIOUS
  <2>2. PICK i \in 1 .. Len(s) : s[i].op = "write"
    BY <1>5, <2>1 DEF Has
  <2>3. i = 1 \/ (1 \in 1 .. Len(s) /\ 1 < i)
    BY <1>1
  <2>4. QED
    BY <1>1, <2>2, <2>3 DEF InOrder, TimerInOrder
<1>11. Has(s, "tone_pin") => Head(s).op # "compare_interrupt"
  <2>1. SUFFICES ASSUME Has(s, "tone_pin") PROVE Head(s).op # "compare_interrupt"
    OBVIOUS
  <2>2. PICK i \in 1 .. Len(s) : s[i].op = "tone_pin"
    BY <1>5, <2>1 DEF Has
  <2>3. i = 1 \/ (1 \in 1 .. Len(s) /\ 1 < i)
    BY <1>1
  <2>4. QED
    BY <1>1, <2>2, <2>3 DEF InOrder, TimerInOrder
<1>12. \A i \in 1 .. Len(s) : s[i].op = "compare_interrupt" => s[i].arg \/ i = 1
  BY DEF InOrder, TimerInOrder
<1>13. \A x \in Items(s) :
           x.op = "compare_interrupt" => x.arg \/ Head(s).op = "compare_interrupt"
  BY <1>1, <1>5, <1>12
<1>14. \A x \in Items(u) : x.op = "compare_interrupt" => x.arg
  BY <1>6, <1>12
<1>15. QED
  BY <1>7, <1>8, <1>9, <1>10, <1>11, <1>13, <1>14 DEF u

-----------------------------------------------------------------------------
(* The scripts of the calls *)

\* A script that can begin anywhere.
Whole(s) == s \in Seq(Items(s)) /\ (s # <<>> => ~IsStore(s[1]) /\ s[1].op # "convert")

LEMMA JoinItems ==
    ASSUME NEW s, NEW u, s \in Seq(Items(s)), u \in Seq(Items(u))
    PROVE  /\ s \o u \in Seq(Items(s \o u)) /\ Items(s \o u) = Items(s) \cup Items(u)
           /\ Len(s \o u) = Len(s) + Len(u) /\ Len(s) \in Nat /\ Len(u) \in Nat
           /\ \A i \in 1 .. Len(s) : (s \o u)[i] = s[i] /\ s[i] \in Items(s)
           /\ \A i \in 1 .. Len(u) : (s \o u)[Len(s) + i] = u[i] /\ u[i] \in Items(u)
<1> DEFINE v == s \o u
           S == Items(s) \cup Items(u)
<1>1. s \in Seq(S) /\ u \in Seq(S)
  BY SeqMonotonic
<1>2. /\ v \in Seq(S) /\ Len(v) = Len(s) + Len(u)
      /\ \A i \in 1 .. Len(s) + Len(u) :
             v[i] = IF i <= Len(s) THEN s[i] ELSE u[i - Len(s)]
  BY <1>1, ConcatProperties
<1>3. /\ Len(s) \in Nat /\ Len(u) \in Nat
      /\ DOMAIN s = 1 .. Len(s) /\ DOMAIN u = 1 .. Len(u) /\ DOMAIN v = 1 .. Len(v)
  BY <1>1, <1>2, LenProperties
<1> HIDE DEF v
<1>4. v \in Seq(Items(v)) /\ Items(v) \subseteq S
  BY <1>2, SeqOfItems
<1>5. ASSUME NEW i \in 1 .. Len(s)
      PROVE  v[i] = s[i] /\ s[i] \in Items(s) /\ s[i] \in Items(v)
  <2>1. i \in 1 .. Len(v) /\ i <= Len(s)
    BY <1>2, <1>3
  <2>2. v[i] = s[i]
    BY <1>2, <2>1
  <2>3. QED
    BY <1>3, <2>1, <2>2 DEF Items
<1>6. ASSUME NEW i \in 1 .. Len(u)
      PROVE  v[Len(s) + i] = u[i] /\ u[i] \in Items(u) /\ u[i] \in Items(v)
  <2>1. Len(s) + i \in 1 .. Len(v) /\ ~(Len(s) + i <= Len(s)) /\ (Len(s) + i) - Len(s) = i
    BY <1>2, <1>3
  <2>2. v[Len(s) + i] = u[i]
    BY <1>2, <2>1
  <2>3. QED
    BY <1>3, <2>1, <2>2 DEF Items
<1>7. S \subseteq Items(v)
  <2>1. \A x \in Items(s) : \E i \in 1 .. Len(s) : x = s[i]
    BY <1>3 DEF Items
  <2>2. \A x \in Items(u) : \E i \in 1 .. Len(u) : x = u[i]
    BY <1>3 DEF Items
  <2>3. QED
    BY <1>5, <1>6, <2>1, <2>2
<1>8. QED
  BY <1>2, <1>3, <1>4, <1>5, <1>6, <1>7 DEF v

LEMMA JoinWhole ==
    ASSUME NEW s, NEW u, Whole(s), Whole(u)
    PROVE  Whole(s \o u) /\ Items(s \o u) = Items(s) \cup Items(u)
<1>1. /\ s \o u \in Seq(Items(s \o u)) /\ Items(s \o u) = Items(s) \cup Items(u)
      /\ Len(s \o u) = Len(s) + Len(u) /\ Len(s) \in Nat /\ Len(u) \in Nat
      /\ \A i \in 1 .. Len(s) : (s \o u)[i] = s[i]
      /\ \A i \in 1 .. Len(u) : (s \o u)[Len(s) + i] = u[i]
  BY JoinItems DEF Whole
<1>2. s = <<>> <=> Len(s) = 0
  BY EmptySeq DEF Whole
<1>3. u = <<>> <=> Len(u) = 0
  BY EmptySeq DEF Whole
<1>4. s \o u = <<>> <=> Len(s \o u) = 0
  BY <1>1, EmptySeq
<1>5. CASE s # <<>>
  <2>1. 1 \in 1 .. Len(s)
    BY <1>1, <1>2, <1>5
  <2>2. QED
    BY <1>1, <1>5, <2>1 DEF Whole
<1>6. CASE s = <<>> /\ u # <<>>
  <2>1. 1 \in 1 .. Len(u) /\ Len(s) + 1 = 1
    BY <1>1, <1>2, <1>3, <1>6
  <2>2. (s \o u)[1] = u[1]
    BY <1>1, <2>1
  <2>3. QED
    BY <1>1, <1>6, <2>2 DEF Whole
<1>7. CASE s = <<>> /\ u = <<>>
  <2>1. s \o u = <<>>
    BY <1>1, <1>2, <1>3, <1>4, <1>7
  <2>2. QED
    BY <1>1, <2>1 DEF Whole
<1>8. QED
  BY <1>5, <1>6, <1>7

\* The looks at the board and the settings of the timer that u may follow.
Follows(u, s, p) ==
    /\ u # <<>> => ~Has(s, "read") /\ ~Has(s, "convert")
    /\ ~Has(u, "write")
    /\ Has(s, "write") => \A x \in Items(u) : ~ConnectsPin(x, p)
    /\ Has(u, "tone_pin") => ~Has(s, "compare_interrupt")
    /\ \A x \in Items(u) : x.op = "compare_interrupt" => x.arg

LEMMA JoinInOrder ==
    ASSUME NEW s, NEW u, NEW p, InOrder(s, p), InOrder(u, p), Whole(u), Follows(u, s, p)
    PROVE  InOrder(s \o u, p)
<1> DEFINE v == s \o u
           k == Len(s)
<1>1. /\ v \in Seq(Items(v)) /\ Items(v) = Items(s) \cup Items(u)
      /\ Len(v) = k + Len(u) /\ k \in Nat /\ Len(u) \in Nat
      /\ \A i \in 1 .. k : v[i] = s[i] /\ s[i] \in Items(s)
      /\ \A i \in 1 .. Len(u) : v[k + i] = u[i] /\ u[i] \in Items(u)
  BY JoinItems DEF InOrder
<1> HIDE DEF v, k
<1>2. ASSUME NEW i \in 1 .. Len(v)
      PROVE  i \in 1 .. k \/ \E j \in 1 .. Len(u) : i = k + j
  <2>1. i \in 1 .. k \/ i - k \in 1 .. Len(u)
    BY <1>1
  <2>2. i = k + (i - k)
    BY <1>1
  <2>3. QED
    BY <2>1, <2>2
<1>3. u = <<>> <=> Len(u) = 0
  BY EmptySeq DEF Whole
<1>4. Paired(v)
  <2>1. SUFFICES ASSUME NEW i \in 1 .. Len(v), i > 1
                 PROVE  /\ IsStore(v[i]) => v[i - 1].op = "load" /\ v[i - 1].reg = v[i].reg
                        /\ v[i].op = "convert" => v[i - 1].op = "admux"
    BY DEF Paired
  <2>2. CASE i \in 1 .. k
    <3>1. i - 1 \in 1 .. k
      BY <1>1, <2>1, <2>2
    <3>2. v[i] = s[i] /\ v[i - 1] = s[i - 1]
      BY <1>1, <2>2, <3>1
    <3>3. QED
      BY <2>1, <2>2, <3>2 DEF InOrder, Paired, k
  <2>3. ASSUME NEW j \in 1 .. Len(u), i = k + j, j # 1
        PROVE  /\ IsStore(v[i]) => v[i - 1].op = "load" /\ v[i - 1].reg = v[i].reg
               /\ v[i].op = "convert" => v[i - 1].op = "admux"
    <3>1. j > 1 /\ j - 1 \in 1 .. Len(u) /\ i - 1 = k + (j - 1)
      BY <1>1, <2>3
    <3>2. v[i] = u[j] /\ v[i - 1] = u[j - 1]
      BY <1>1, <2>3, <3>1
    <3>3. QED
      BY <3>1, <3>2 DEF InOrder, Paired
  <2>4. ASSUME NEW j \in 1 .. Len(u), i = k + j, j = 1
        PROVE  ~IsStore(v[i]) /\ v[i].op # "convert"
    <3>1. v[i] = u[1] /\ u # <<>>
      BY <1>1, <1>3, <2>4
    <3>2. QED
      BY <3>1 DEF Whole
  <2>5. QED
    BY <1>2, <2>2, <2>3, <2>4
<1>5. LooksLast(v)
  <2>1. SUFFICES ASSUME NEW i \in 1 .. Len(v), v[i].op \in {"read", "convert"} PROVE i = Len(v)
    BY DEF LooksLast
  <2>2. CASE i \in 1 .. k
    <3>1. v[i] = s[i] /\ s[i] \in Items(s)
      BY <1>1, <2>2
    <3>2. Len(u) = 0
      BY <1>3, <2>1, <3>1 DEF Follows, Has
    <3>3. i = k
      BY <2>1, <2>2, <3>1 DEF InOrder, LooksLast, k
    <3>4. QED
      BY <1>1, <3>2, <3>3
  <2>3. ASSUME NEW j \in 1 .. Len(u), i = k + j PROVE i = Len(v)
    <3>1. u[j].op \in {"read", "convert"}
      BY <1>1, <2>1, <2>3
    <3>2. j = Len(u)
      BY <3>1 DEF InOrder, LooksLast
    <3>3. QED
      BY <1>1, <2>3, <3>2
  <2>4. QED
    BY <1>2, <2>2, <2>3
<1>6. TimerInOrder(v, p)
  <2>1. ASSUME NEW i \in 1 .. Len(v), v[i].op = "write"
        PROVE  /\ \A j \in 1 .. Len(v) : j < i => v[j].op = "compare_interrupt"
               /\ \A x \in Items(v) : ~ConnectsPin(x, p)
    <3>1. i \in 1 .. k
      <4>1. \A j \in 1 .. Len(u) : u[j].op # "write"
        BY <1>1 DEF Follows, Has
      <4>2. QED
        BY <1>1, <1>2, <2>1, <4>1
    <3>2. s[i].op = "write" /\ Has(s, "write")
      BY <1>1, <2>1, <3>1 DEF Has
    <3>3. /\ \A j \in 1 .. k : j < i => s[j].op = "compare_interrupt"
          /\ \A x \in Items(s) : ~ConnectsPin(x, p)
      BY <3>1, <3>2 DEF InOrder, TimerInOrder, k
    <3>4. \A x \in Items(u) : ~ConnectsPin(x, p)
      BY <3>2 DEF Follows
    <3>5. ASSUME NEW j \in 1 .. Len(v), j < i PROVE v[j].op = "compare_interrupt"
      <4>1. j \in 1 .. k
        BY <1>1, <3>1, <3>5
      <4>2. QED
        BY <1>1, <3>3, <3>5, <4>1
    <3>6. QED
      BY <1>1, <3>3, <3>4, <3>5
  <2>2. ASSUME NEW i \in 1 .. Len(v), v[i].op = "tone_pin", NEW j \in 1 .. Len(v), j < i
        PROVE  v[j].op # "compare_interrupt"
    <3>1. CASE i \in 1 .. k
      <4>1. j \in 1 .. k /\ v[i] = s[i] /\ v[j] = s[j]
        BY <1>1, <2>2, <3>1
      <4>2. QED
        BY <2>2, <3>1, <4>1 DEF InOrder, TimerInOrder, k
    <3>2. ASSUME NEW a \in 1 .. Len(u), i = k + a PROVE v[j].op # "compare_interrupt"
      <4>1. u[a].op = "tone_pin" /\ Has(u, "tone_pin")
        BY <1>1, <2>2, <3>2 DEF Has
      <4>2. CASE j \in 1 .. k
        BY <1>1, <4>1, <4>2 DEF Follows, Has
      <4>3. ASSUME NEW b \in 1 .. Len(u), j = k + b PROVE v[j].op # "compare_interrupt"
        <5>1. v[j] = u[b] /\ b < a
          BY <1>1, <2>2, <3>2, <4>3
        <5>2. QED
          BY <4>1, <5>1 DEF InOrder, TimerInOrder
      <4>4. QED
        BY <1>2, <4>2, <4>3
    <3>3. QED
      BY <1>2, <3>1, <3>2
  <2>3. ASSUME NEW i \in 1 .. Len(v), v[i].op = "compare_interrupt"
        PROVE  v[i].arg \/ i = 1
    <3>1. CASE i \in 1 .. k
      BY <1>1, <2>3, <3>1 DEF InOrder, TimerInOrder, k
    <3>2. ASSUME NEW j \in 1 .. Len(u), i = k + j PROVE v[i].arg
      BY <1>1, <2>3, <3>2 DEF Follows
    <3>3. QED
      BY <1>2, <3>1, <3>2
  <2>4. QED
    BY <2>1, <2>2, <2>3 DEF TimerInOrder
<1>7. QED
  BY <1>1, <1>4, <1>5, <1>6 DEF InOrder, v

\* A script of a wiring call that only writes.
Plain(s, p) ==
    /\ InOrder(s, p) /\ Whole(s)
    /\ \A x \in Items(s) :
           x.op \notin {"read", "convert", "write", "tone_pin", "compare_interrupt"}

Loads(r) == Access("load", r, {}, 0)

LEMMA OneInOrder ==
    ASSUME NEW x, NEW p
    PROVE  /\ InOrder(<<x>>, p) /\ Items(<<x>>) = {x} /\ <<x>> # <<>>
           /\ ~IsStore(x) /\ x.op # "convert" => Whole(<<x>>)
<1> DEFINE s == <<x>>
<1>1. s \in Seq({x}) /\ Len(s) = 1 /\ s[1] = x /\ s # <<>> /\ DOMAIN s = 1 .. 1
  OBVIOUS
<1> HIDE DEF s
<1>2. s \in Seq(Items(s)) /\ Items(s) = {x}
  BY <1>1, SeqOfItems DEF Items
<1>3. Paired(s) /\ LooksLast(s)
  BY <1>1 DEF Paired, LooksLast
<1>4. TimerInOrder(s, p)
  BY <1>1, <1>2 DEF TimerInOrder, ConnectsPin
<1>5. QED
  BY <1>1, <1>2, <1>3, <1>4 DEF InOrder, Whole, s

LEMMA PairInOrder ==
    ASSUME NEW x, NEW y, NEW p,
           ~IsStore(x), x.op \notin {"read", "convert", "compare_interrupt"},
           IsStore(y) => x.op = "load" /\ x.reg = y.reg,
           y.op = "convert" => x.op = "admux",
           y.op \notin {"write", "compare_interrupt"},
           x.op = "write" => ~ConnectsPin(y, p)
    PROVE  InOrder(<<x, y>>, p) /\ Whole(<<x, y>>) /\ Items(<<x, y>>) = {x, y}
<1> DEFINE s == <<x, y>>
<1>1. s \in Seq({x, y}) /\ Len(s) = 2 /\ s[1] = x /\ s[2] = y /\ DOMAIN s = 1 .. 2
  OBVIOUS
<1> HIDE DEF s
<1>2. s \in Seq(Items(s)) /\ Items(s) = {x, y}
  BY <1>1, SeqOfItems DEF Items
<1>3. \A i \in 1 .. Len(s) : i = 1 \/ i = 2
  BY <1>1
<1>4. Paired(s) /\ LooksLast(s)
  <2>1. ASSUME NEW i \in 1 .. Len(s), i > 1
        PROVE  /\ IsStore(s[i]) => s[i - 1].op = "load" /\ s[i - 1].reg = s[i].reg
               /\ s[i].op = "convert" => s[i - 1].op = "admux"
    <3>1. s[i] = y /\ s[i - 1] = x
      BY <1>1, <1>3, <2>1
    <3>2. QED
      BY <3>1
  <2>2. QED
    BY <1>1, <1>3, <2>1 DEF Paired, LooksLast
<1>5. TimerInOrder(s, p)
  BY <1>1, <1>2, <1>3 DEF TimerInOrder, ConnectsPin
<1>6. QED
  BY <1>1, <1>2, <1>4, <1>5 DEF InOrder, Whole, s

LEMMA NoneInOrder ==
    ASSUME NEW p
    PROVE  Plain(<<>>, p) /\ Items(<<>>) = {}
<1>1. <<>> \in Seq(Items(<<>>)) /\ Len(<<>>) = 0 /\ DOMAIN <<>> = {}
  BY EmptySeq
<1>2. Items(<<>>) = {}
  BY <1>1 DEF Items
<1>3. 1 .. Len(<<>>) = {}
  BY <1>1
<1>4. QED
  BY <1>1, <1>2, <1>3 DEF Plain, InOrder, Whole, Paired, LooksLast, TimerInOrder

LEMMA PlainOne ==
    ASSUME NEW x, NEW p,
           x.op \notin {"set", "clear", "read", "convert", "write", "tone_pin",
                        "compare_interrupt"}
    PROVE  Plain(<<x>>, p) /\ Items(<<x>>) = {x}
BY OneInOrder DEF Plain, IsStore

LEMMA PlainJoin ==
    ASSUME NEW s, NEW u, NEW p, Plain(s, p), Plain(u, p)
    PROVE  Plain(s \o u, p) /\ Items(s \o u) = Items(s) \cup Items(u)
<1>1. Follows(u, s, p)
  BY DEF Plain, Follows, Has
<1>2. QED
  BY <1>1, JoinInOrder, JoinWhole DEF Plain

LEMMA PlainReadModifyWrite ==
    ASSUME NEW op \in {"set", "clear"}, NEW r, NEW bits, NEW p
    PROVE  /\ Plain(ReadModifyWrite(op, r, bits), p)
           /\ Items(ReadModifyWrite(op, r, bits)) = {Loads(r), Access(op, r, bits, 0)}
<1> DEFINE x == Loads(r)
           y == Access(op, r, bits, 0)
<1>1. x.op = "load" /\ y.op \in {"set", "clear"} /\ x.reg = y.reg
  BY DEF Loads, Access
<1>2. ReadModifyWrite(op, r, bits) = <<x, y>>
  BY DEF ReadModifyWrite, Loads
<1> HIDE DEF x, y
<1>3. InOrder(<<x, y>>, p) /\ Whole(<<x, y>>) /\ Items(<<x, y>>) = {x, y}
  BY <1>1, PairInOrder DEF IsStore
<1>4. QED
  BY <1>1, <1>2, <1>3 DEF Plain, x, y

LEMMA PlainProtected ==
    ASSUME NEW s, NEW p, Plain(s, p)
    PROVE  /\ Plain(Protected(s), p)
           /\ Items(Protected(s)) = Items(s) \cup {Other("cli", 0), Other("sei", 0)}
<1> DEFINE a == <<Other("cli", 0)>>
           b == <<Other("sei", 0)>>
<1>1. Plain(a, p) /\ Items(a) = {Other("cli", 0)}
  BY OpsOf, PlainOne
<1>2. Plain(b, p) /\ Items(b) = {Other("sei", 0)}
  BY OpsOf, PlainOne
<1>3. Protected(s) = (a \o s) \o b
  BY DEF Protected
<1> HIDE DEF a, b
<1>4. Plain(a \o s, p) /\ Items(a \o s) = Items(a) \cup Items(s)
  BY <1>1, PlainJoin
<1>5. Plain((a \o s) \o b, p) /\ Items((a \o s) \o b) = Items(a \o s) \cup Items(b)
  BY <1>2, <1>4, PlainJoin
<1>6. QED
  BY <1>1, <1>2, <1>3, <1>4, <1>5

\* What turnOffPWM and digitalWrite write.
Disconnects(p) ==
    IF OnTimer(p) THEN {Loads(Timer(p)), Access("clear", Timer(p), {p}, 0)} ELSE {}

Drives(p, high) ==
    {Loads(Output(p)), Access(IF high THEN "set" ELSE "clear", Output(p), {p}, 0)}

Section == {Other("cli", 0), Other("sei", 0)}

LEMMA PlainPinMode ==
    ASSUME NEW p, NEW q, NEW mode \in {"INPUT", "INPUT_PULLUP", "OUTPUT"}
    PROVE  /\ Plain(pinMode(p, mode), q)
           /\ Items(pinMode(p, mode)) = Section \cup {Loads(Mode(p))} \cup
                  IF mode = "OUTPUT" THEN {Access("set", Mode(p), {p}, 0)}
                  ELSE {Access("clear", Mode(p), {p}, 0)} \cup Drives(p, mode = "INPUT_PULLUP")
<1>1. ASSUME NEW op \in {"set", "clear"}, NEW r
      PROVE  /\ Plain(ReadModifyWrite(op, r, {p}), q)
             /\ Items(ReadModifyWrite(op, r, {p})) = {Loads(r), Access(op, r, {p}, 0)}
  BY PlainReadModifyWrite
<1>2. ASSUME NEW op \in {"set", "clear"}, NEW r, NEW o
      PROVE  LET s == ReadModifyWrite("clear", r, {p}) \o ReadModifyWrite(op, o, {p})
             IN  /\ Plain(s, q)
                 /\ Items(s) = {Loads(r), Access("clear", r, {p}, 0),
                                Loads(o), Access(op, o, {p}, 0)}
  <2> DEFINE a == ReadModifyWrite("clear", r, {p})
             b == ReadModifyWrite(op, o, {p})
  <2>1. /\ Plain(a, q) /\ Items(a) = {Loads(r), Access("clear", r, {p}, 0)}
        /\ Plain(b, q) /\ Items(b) = {Loads(o), Access(op, o, {p}, 0)}
    BY <1>1
  <2> HIDE DEF a, b
  <2>2. Plain(a \o b, q) /\ Items(a \o b) = Items(a) \cup Items(b)
    BY <2>1, PlainJoin
  <2>3. QED
    BY <2>1, <2>2 DEF a, b
<1>3. \A s : Plain(s, q) =>
          Plain(Protected(s), q) /\ Items(Protected(s)) = Section \cup Items(s)
  BY PlainProtected DEF Section
<1>4. CASE mode = "OUTPUT"
  <2> DEFINE s == ReadModifyWrite("set", Mode(p), {p})
  <2>1. pinMode(p, mode) = Protected(s)
    BY <1>4 DEF pinMode
  <2>2. Plain(s, q) /\ Items(s) = {Loads(Mode(p)), Access("set", Mode(p), {p}, 0)}
    BY <1>1
  <2> HIDE DEF s
  <2>3. Plain(Protected(s), q) /\ Items(Protected(s)) = Section \cup Items(s)
    BY <1>3, <2>2
  <2>4. QED
    BY <1>4, <2>1, <2>2, <2>3
<1>5. ASSUME NEW op \in {"set", "clear"},
             op = IF mode = "INPUT" THEN "clear" ELSE "set", mode # "OUTPUT"
      PROVE  /\ Plain(pinMode(p, mode), q)
             /\ Items(pinMode(p, mode)) = Section \cup
                    {Loads(Mode(p)), Access("clear", Mode(p), {p}, 0)}
                    \cup Drives(p, mode = "INPUT_PULLUP")
  <2> DEFINE s == ReadModifyWrite("clear", Mode(p), {p}) \o ReadModifyWrite(op, Output(p), {p})
  <2>1. pinMode(p, mode) = Protected(s)
    BY <1>5 DEF pinMode
  <2>2. /\ Plain(s, q)
        /\ Items(s) = {Loads(Mode(p)), Access("clear", Mode(p), {p}, 0),
                       Loads(Output(p)), Access(op, Output(p), {p}, 0)}
    BY <1>2
  <2> HIDE DEF s
  <2>3. Plain(Protected(s), q) /\ Items(Protected(s)) = Section \cup Items(s)
    BY <1>3, <2>2
  <2>4. Drives(p, mode = "INPUT_PULLUP") = {Loads(Output(p)), Access(op, Output(p), {p}, 0)}
    BY <1>5 DEF Drives
  <2>5. QED
    BY <2>1, <2>2, <2>3, <2>4
<1>6. CASE mode = "INPUT"
  BY <1>5, <1>6
<1>7. CASE mode = "INPUT_PULLUP"
  BY <1>5, <1>7
<1>8. QED
  BY <1>4, <1>6, <1>7

LEMMA PlainOutput ==
    ASSUME NEW p, NEW q
    PROVE  /\ Plain(pinMode(p, "OUTPUT"), q)
           /\ Items(pinMode(p, "OUTPUT")) =
                  Section \cup {Loads(Mode(p)), Access("set", Mode(p), {p}, 0)}
<1>1. PICK mode \in {"INPUT", "INPUT_PULLUP", "OUTPUT"} : mode = "OUTPUT"
  OBVIOUS
<1>2. /\ Plain(pinMode(p, mode), q)
      /\ Items(pinMode(p, mode)) = Section \cup {Loads(Mode(p))} \cup
             IF mode = "OUTPUT" THEN {Access("set", Mode(p), {p}, 0)}
             ELSE {Access("clear", Mode(p), {p}, 0)} \cup Drives(p, mode = "INPUT_PULLUP")
  BY PlainPinMode
<1>3. QED
  BY <1>1, <1>2

LEMMA PlainTurnOffPWM ==
    ASSUME NEW p, NEW q
    PROVE  Plain(turnOffPWM(p), q) /\ Items(turnOffPWM(p)) = Disconnects(p)
BY PlainReadModifyWrite, NoneInOrder DEF turnOffPWM, Disconnects

LEMMA PlainDigitalWrite ==
    ASSUME NEW p, NEW q, NEW high
    PROVE  /\ Plain(digitalWrite(p, high), q)
           /\ Items(digitalWrite(p, high)) = Disconnects(p) \cup Section \cup Drives(p, high)
<1> DEFINE op == IF high THEN "set" ELSE "clear"
           a == turnOffPWM(p)
           b == ReadModifyWrite(op, Output(p), {p})
<1>1. op \in {"set", "clear"}
  OBVIOUS
<1>2. Plain(b, q) /\ Items(b) = Drives(p, high)
  BY <1>1, PlainReadModifyWrite DEF Drives
<1>3. Plain(a, q) /\ Items(a) = Disconnects(p)
  BY PlainTurnOffPWM
<1>4. digitalWrite(p, high) = a \o Protected(b)
  BY DEF digitalWrite
<1> HIDE DEF a, b
<1>5. Plain(Protected(b), q) /\ Items(Protected(b)) = Items(b) \cup Section
  BY <1>2, PlainProtected DEF Section
<1>6. /\ Plain(a \o Protected(b), q)
      /\ Items(a \o Protected(b)) = Items(a) \cup Items(Protected(b))
  BY <1>3, <1>5, PlainJoin
<1>7. QED
  BY <1>2, <1>3, <1>4, <1>5, <1>6

LEMMA PlainAnalogWrite ==
    ASSUME NEW p, NEW q, NEW val
    PROVE  /\ Plain(analogWrite(p, val), q)
           /\ Items(analogWrite(p, val)) =
                  Section \cup {Loads(Mode(p)), Access("set", Mode(p), {p}, 0)} \cup
                  IF OnTimer(p) /\ val \notin {0, 255}
                  THEN {Loads(Timer(p)), Access("set", Timer(p), {p}, 0), Other("duty", val)}
                  ELSE Disconnects(p) \cup Drives(p, val >= 128)
<1> DEFINE m == pinMode(p, "OUTPUT")
<1>1. /\ Plain(m, q)
      /\ Items(m) =
             Section \cup {Loads(Mode(p)), Access("set", Mode(p), {p}, 0)}
  BY PlainOutput
<1>2. CASE OnTimer(p) /\ val \notin {0, 255}
  <2> DEFINE s == ReadModifyWrite("set", Timer(p), {p})
             d == <<Other("duty", val)>>
  <2>1. Plain(s, q) /\ Items(s) = {Loads(Timer(p)), Access("set", Timer(p), {p}, 0)}
    BY PlainReadModifyWrite
  <2>2. Plain(d, q) /\ Items(d) = {Other("duty", val)}
    BY OpsOf, PlainOne
  <2>3. analogWrite(p, val) = m \o (s \o d)
    BY <1>2 DEF analogWrite
  <2> HIDE DEF s, d, m
  <2>4. Plain(s \o d, q) /\ Items(s \o d) = Items(s) \cup Items(d)
    BY <2>1, <2>2, PlainJoin
  <2>5. Plain(m \o (s \o d), q) /\ Items(m \o (s \o d)) = Items(m) \cup Items(s \o d)
    BY <1>1, <2>4, PlainJoin
  <2>6. QED
    BY <1>1, <1>2, <2>1, <2>2, <2>3, <2>4, <2>5
<1>3. CASE ~(OnTimer(p) /\ val \notin {0, 255})
  <2> DEFINE d == digitalWrite(p, val >= 128)
  <2>1. analogWrite(p, val) = m \o d
    BY <1>3 DEF analogWrite
  <2>2. /\ Plain(d, q)
        /\ Items(d) = Disconnects(p) \cup Section \cup Drives(p, val >= 128)
    BY PlainDigitalWrite
  <2> HIDE DEF d, m
  <2>3. Plain(m \o d, q) /\ Items(m \o d) = Items(m) \cup Items(d)
    BY <1>1, <2>2, PlainJoin
  <2>4. QED
    BY <1>1, <1>3, <2>1, <2>2, <2>3
<1>4. QED
  BY <1>2, <1>3

LEMMA DigitalReadInOrder ==
    ASSUME NEW p, NEW q
    PROVE  /\ InOrder(digitalRead(p), q) /\ Whole(digitalRead(p))
           /\ Items(digitalRead(p)) = Disconnects(p) \cup {Other("read", p)}
<1> DEFINE s == turnOffPWM(p)
           u == <<Other("read", p)>>
<1>1. Plain(s, q) /\ Items(s) = Disconnects(p)
  BY PlainTurnOffPWM
<1>2. InOrder(u, q) /\ Whole(u) /\ Items(u) = {Other("read", p)}
  BY OpsOf, OneInOrder DEF IsStore
<1>3. digitalRead(p) = s \o u
  BY DEF digitalRead
<1> HIDE DEF s, u
<1>4. Follows(u, s, q)
  BY <1>1, <1>2, OpsOf DEF Plain, Follows, Has
<1>5. QED
  BY <1>1, <1>2, <1>3, <1>4, JoinInOrder, JoinWhole DEF Plain

LEMMA AnalogReadInOrder ==
    ASSUME NEW p, NEW q
    PROVE  /\ InOrder(analogRead(p), q) /\ Whole(analogRead(p))
           /\ Items(analogRead(p)) = {Other("admux", analogChannel(p)), Other("convert", p)}
BY OpsOf, PairInOrder DEF analogRead, IsStore

LEMMA FourInOrder ==
    ASSUME NEW w, NEW x, NEW y, NEW z, NEW p,
           \A a \in {w, x, y, z} :
               a.op \notin {"set", "clear", "duty", "read", "convert", "tone_pin"},
           \A a \in {x, y, z} : a.op = "compare_interrupt" => a.arg,
           y.op # "write", z.op # "write", x.op = "write" => w.op = "compare_interrupt"
    PROVE  LET s == <<w, x, y, z>> IN
           InOrder(s, p) /\ Whole(s) /\ Items(s) = {w, x, y, z}
<1> DEFINE s == <<w, x, y, z>>
<1>1. /\ s \in Seq({w, x, y, z}) /\ Len(s) = 4 /\ DOMAIN s = 1 .. 4
      /\ s[1] = w /\ s[2] = x /\ s[3] = y /\ s[4] = z
  OBVIOUS
<1> HIDE DEF s
<1>2. \A i \in 1 .. 4 : i = 1 \/ i = 2 \/ i = 3 \/ i = 4
  OBVIOUS
<1>3. s \in Seq(Items(s)) /\ Items(s) = {w, x, y, z}
  BY <1>1, <1>2, SeqOfItems DEF Items
<1>4. Paired(s) /\ LooksLast(s) /\ Whole(s)
  BY <1>1, <1>2, <1>3 DEF Paired, LooksLast, Whole, IsStore
<1>5. TimerInOrder(s, p)
  <2>1. \A a \in Items(s) : ~ConnectsPin(a, p)
    BY <1>3 DEF ConnectsPin
  <2>2. \A i \in 1 .. 4 : s[i].op = "write" =>
            \A j \in 1 .. 4 : j < i => s[j].op = "compare_interrupt"
    <3>1. s[3].op # "write" /\ s[4].op # "write"
      BY <1>1
    <3>2. s[2].op = "write" => s[1].op = "compare_interrupt"
      BY <1>1
    <3>3. QED
      BY <1>2, <3>1, <3>2
  <2>3. \A i \in 1 .. 4 : s[i].op # "tone_pin"
    BY <1>1, <1>2
  <2>4. \A i \in 1 .. 4 : s[i].op = "compare_interrupt" => s[i].arg \/ i = 1
    BY <1>1, <1>2
  <2>5. QED
    BY <1>1, <2>1, <2>2, <2>3, <2>4 DEF TimerInOrder
<1>6. QED
  BY <1>3, <1>4, <1>5 DEF InOrder, s

LEMMA DivisorJoins ==
    ASSUME NEW s, NEW u, NEW v, s \in Seq(Items(s)), u \in Seq(Items(u))
    PROVE  /\ LastDivisor(u, v) => LastDivisor(s \o u, v)
           /\ LastDivisor(s, v) /\ ~Has(u, "prescale") => LastDivisor(s \o u, v)
<1> DEFINE w == s \o u
           k == Len(s)
<1>1. /\ Len(w) = k + Len(u) /\ k \in Nat /\ Len(u) \in Nat
      /\ \A i \in 1 .. k : w[i] = s[i] /\ s[i] \in Items(s)
      /\ \A i \in 1 .. Len(u) : w[k + i] = u[i] /\ u[i] \in Items(u)
  BY JoinItems
<1> HIDE DEF w, k
<1>2. ASSUME NEW i \in 1 .. Len(w)
      PROVE  i \in 1 .. k \/ \E j \in 1 .. Len(u) : i = k + j
  <2>1. i \in 1 .. k \/ i - k \in 1 .. Len(u)
    BY <1>1
  <2>2. i = k + (i - k)
    BY <1>1
  <2>3. QED
    BY <2>1, <2>2
<1>3. ASSUME LastDivisor(u, v) PROVE LastDivisor(w, v)
  <2>1. PICK i \in 1 .. Len(u) : /\ u[i].op = "prescale" /\ u[i].arg = v
                                 /\ \A j \in 1 .. Len(u) : j > i => u[j].op # "prescale"
    BY <1>3 DEF LastDivisor
  <2>2. k + i \in 1 .. Len(w) /\ w[k + i] = u[i]
    BY <1>1
  <2>3. ASSUME NEW j \in 1 .. Len(w), j > k + i PROVE w[j].op # "prescale"
    <3>1. j - k \in 1 .. Len(u) /\ j - k > i /\ k + (j - k) = j
      BY <1>1, <2>3
    <3>2. QED
      BY <1>1, <2>1, <3>1
  <2>4. QED
    BY <2>1, <2>2, <2>3 DEF LastDivisor
<1>4. ASSUME LastDivisor(s, v), ~Has(u, "prescale") PROVE LastDivisor(w, v)
  <2>1. PICK i \in 1 .. k : /\ s[i].op = "prescale" /\ s[i].arg = v
                            /\ \A j \in 1 .. k : j > i => s[j].op # "prescale"
    BY <1>4 DEF LastDivisor, k
  <2>2. i \in 1 .. Len(w) /\ w[i] = s[i]
    BY <1>1
  <2>3. ASSUME NEW j \in 1 .. Len(w), j > i PROVE w[j].op # "prescale"
    BY <1>1, <1>2, <1>4, <2>1, <2>3 DEF Has
  <2>4. QED
    BY <2>1, <2>2, <2>3 DEF LastDivisor
<1>5. QED
  BY <1>3, <1>4 DEF w

\* The four settings at the end of tone.
SetsTone(asTone) ==
    LET divisor == Prescaler(asTone.frequency) IN
    {Other("prescale", divisor), Other("top", Top(asTone.frequency, divisor) % 256),
     Other("count", ToggleCount(asTone)), Other("compare_interrupt", TRUE)}

StartItems(p, asTone) ==
    Section \cup {Loads(Mode(p)), Access("set", Mode(p), {p}, 0)} \cup SetsTone(asTone)

LEMMA StartInOrder ==
    ASSUME NEW p, NEW asTone
    PROVE  LET s == Start(p, asTone) IN
           /\ InOrder(s, p) /\ Whole(s) /\ Items(s) = StartItems(p, asTone)
           /\ LastDivisor(s, Prescaler(asTone.frequency))
<1> DEFINE divisor == Prescaler(asTone.frequency)
           a == Other("prescale", divisor)
           b == Other("top", Top(asTone.frequency, divisor) % 256)
           c == Other("count", ToggleCount(asTone))
           d == Other("compare_interrupt", TRUE)
           m == pinMode(p, "OUTPUT")
           u == <<a, b, c, d>>
<1>1. /\ a.op = "prescale" /\ a.arg = divisor /\ b.op = "top" /\ c.op = "count"
      /\ d.op = "compare_interrupt" /\ d.arg = TRUE
  BY OpsOf
<1>2. Start(p, asTone) = m \o u
  BY DEF Start
<1>3. {a, b, c, d} = SetsTone(asTone)
  BY DEF SetsTone
<1> HIDE DEF a, b, c, d, m
<1>4. InOrder(u, p) /\ Whole(u) /\ Items(u) = {a, b, c, d}
  BY <1>1, FourInOrder
<1>5. LastDivisor(u, divisor)
  <2>1. /\ Len(u) = 4 /\ u[1] = a /\ u[2] = b /\ u[3] = c /\ u[4] = d
    OBVIOUS
  <2>2. \A i \in 1 .. 4 : i = 1 \/ i = 2 \/ i = 3 \/ i = 4
    OBVIOUS
  <2> HIDE DEF u
  <2>3. \A j \in 1 .. 4 : j > 1 => u[j].op # "prescale"
    BY <1>1, <2>1, <2>2
  <2>4. QED
    BY <1>1, <2>1, <2>3 DEF LastDivisor
<1> HIDE DEF u, divisor
<1>6. /\ Plain(m, p)
      /\ Items(m) = Section \cup {Loads(Mode(p)), Access("set", Mode(p), {p}, 0)}
  BY PlainOutput DEF m
<1>7. Follows(u, m, p)
  BY <1>1, <1>4, <1>6 DEF Plain, Follows, Has
<1>8. InOrder(m \o u, p) /\ Whole(m \o u) /\ Items(m \o u) = Items(m) \cup Items(u)
  BY <1>4, <1>6, <1>7, JoinInOrder, JoinWhole DEF Plain
<1>9. LastDivisor(m \o u, divisor)
  BY <1>4, <1>5, <1>6, DivisorJoins DEF Plain, Whole
<1>10. QED
  BY <1>2, <1>3, <1>4, <1>6, <1>8, <1>9 DEF StartItems, divisor

SetupItems ==
    {Access("write", "TCCR2A", {}, 0), Other("prescale", 0), Loads("TCCR2A"),
     Access("set", "TCCR2A", {WGM21}, 0), Other("prescale", 1), Other("tone_pin", 0)}

LEMMA SetsToneOps ==
    ASSUME NEW asTone
    PROVE  \A x \in SetsTone(asTone) :
               /\ x.op \in {"prescale", "top", "count", "compare_interrupt"}
               /\ x.op = "prescale" => x.arg = Prescaler(asTone.frequency)
               /\ x.op = "top" => x.arg = Top(asTone.frequency, Prescaler(asTone.frequency)) % 256
               /\ x.op = "compare_interrupt" => x.arg = TRUE
<1> DEFINE divisor == Prescaler(asTone.frequency)
           top == Top(asTone.frequency, divisor) % 256
           a == Other("prescale", divisor)
           b == Other("top", top)
           c == Other("count", ToggleCount(asTone))
           d == Other("compare_interrupt", TRUE)
<1>1. SetsTone(asTone) = {a, b, c, d}
  BY DEF SetsTone
<1> HIDE DEF top, divisor
<1>2. /\ a.op = "prescale" /\ a.arg = divisor /\ b.op = "top" /\ b.arg = top /\ c.op = "count"
      /\ d.op = "compare_interrupt" /\ d.arg = TRUE
  BY OpsOf
<1> HIDE DEF a, b, c, d
<1>3. QED
  BY <1>1, <1>2 DEF top, divisor

LEMMA SetupInOrder ==
    ASSUME NEW p \in Pins, NEW asTone
    PROVE  LET s == Setup \o Start(p, asTone) IN
           /\ InOrder(s, p) /\ Whole(s) /\ Items(s) = SetupItems \cup StartItems(p, asTone)
           /\ LastDivisor(s, Prescaler(asTone.frequency))
<1> DEFINE a == Access("write", "TCCR2A", {}, 0)
           b == Other("prescale", 0)
           c == Other("prescale", 1)
           d == Other("tone_pin", 0)
           s == <<a, b>>
           m == ReadModifyWrite("set", "TCCR2A", {WGM21})
           u == <<c, d>>
           z == Start(p, asTone)
<1>1. /\ a.op = "write" /\ b.op = "prescale" /\ c.op = "prescale" /\ d.op = "tone_pin"
  BY OpsOf DEF Access
<1>2. Setup = (s \o m) \o u
  BY DEF Setup
<1>3. Plain(m, p) /\ Items(m) = {Loads("TCCR2A"), Access("set", "TCCR2A", {WGM21}, 0)}
  BY PlainReadModifyWrite
<1>4. /\ InOrder(z, p) /\ Whole(z) /\ Items(z) = StartItems(p, asTone)
      /\ LastDivisor(z, Prescaler(asTone.frequency))
  BY StartInOrder
<1>5. SetupItems = {a, b, c, d} \cup Items(m)
  BY <1>3 DEF SetupItems
<1> HIDE DEF a, b, c, d, m, z
<1>6. InOrder(s, p) /\ Whole(s) /\ Items(s) = {a, b}
  BY <1>1, PairInOrder DEF IsStore, ConnectsPin
<1>7. InOrder(u, p) /\ Whole(u) /\ Items(u) = {c, d}
  BY <1>1, PairInOrder DEF IsStore, ConnectsPin
<1> HIDE DEF s, u
<1>8. \A x \in Items(m) : ~ConnectsPin(x, p)
  <2>1. {WGM21} # {p}
    BY PinNumbers
  <2>2. QED
    BY <1>3, <2>1 DEF ConnectsPin, Loads, Access
<1>9. Follows(m, s, p)
  BY <1>1, <1>3, <1>6, <1>8 DEF Plain, Follows, Has
<1>10. InOrder(s \o m, p) /\ Whole(s \o m) /\ Items(s \o m) = Items(s) \cup Items(m)
  BY <1>3, <1>6, <1>9, JoinInOrder, JoinWhole DEF Plain
<1>11. \A x \in Items(m) : x.op \in {"load", "set"}
  BY <1>3 DEF Loads, Access
<1>12. Follows(u, s \o m, p)
  BY <1>1, <1>6, <1>7, <1>10, <1>11 DEF Follows, Has, ConnectsPin
<1>13. /\ InOrder(Setup, p) /\ Whole(Setup) /\ Items(Setup) = SetupItems
  BY <1>2, <1>5, <1>6, <1>7, <1>10, <1>12, JoinInOrder, JoinWhole
<1>14. Follows(z, Setup, p)
  <2>1. \A x \in SetupItems : x.op \in {"write", "prescale", "load", "set", "tone_pin"}
    BY OpsOf DEF SetupItems, Loads, Access
  <2>2. \A x \in StartItems(p, asTone) :
            /\ x.op \in {"cli", "sei", "load", "set", "prescale", "top", "count",
                         "compare_interrupt"}
            /\ x.op = "compare_interrupt" => x.arg
            /\ x.op = "set" => x.reg = Mode(p)
    <3>1. \A x \in SetsTone(asTone) :
              /\ x.op \in {"prescale", "top", "count", "compare_interrupt"}
              /\ x.op = "compare_interrupt" => x.arg
      BY SetsToneOps
    <3>2. \A x \in Section : x.op \in {"cli", "sei"}
      BY OpsOf DEF Section
    <3>3. \A x \in {Loads(Mode(p)), Access("set", Mode(p), {p}, 0)} :
              x.op \in {"load", "set"} /\ x.reg = Mode(p)
      BY DEF Loads, Access
    <3>4. QED
      BY <3>1, <3>2, <3>3 DEF StartItems
  <2>3. \A x \in StartItems(p, asTone) : ~ConnectsPin(x, p)
    BY <2>2, RegistersOf DEF ConnectsPin
  <2>4. QED
    BY <1>4, <1>13, <2>1, <2>2, <2>3 DEF Follows, Has
<1>15. /\ InOrder(Setup \o z, p) /\ Whole(Setup \o z)
       /\ Items(Setup \o z) = Items(Setup) \cup Items(z)
  BY <1>4, <1>13, <1>14, JoinInOrder, JoinWhole
<1>16. LastDivisor(Setup \o z, Prescaler(asTone.frequency))
  BY <1>4, <1>13, DivisorJoins DEF Whole
<1>17. QED
  BY <1>4, <1>13, <1>15, <1>16 DEF z

DisableItems ==
    {Other("compare_interrupt", FALSE), Access("write", "TCCR2A", {WGM20}, 0),
     Other("prescale", 64), Other("top", 0)}

LEMMA DisableInOrder ==
    ASSUME NEW p \in Pins
    PROVE  LET s == disableTimer \o digitalWrite(p, FALSE) IN
           /\ InOrder(s, p) /\ Whole(s)
           /\ Items(s) = DisableItems \cup Disconnects(p) \cup Section \cup Drives(p, FALSE)
           /\ LastDivisor(s, 64)
<1> DEFINE a == Other("compare_interrupt", FALSE)
           b == Access("write", "TCCR2A", {WGM20}, 0)
           c == Other("prescale", 64)
           d == Other("top", 0)
           s == <<a, b, c, d>>
           u == digitalWrite(p, FALSE)
<1>1. /\ a.op = "compare_interrupt" /\ b.op = "write" /\ c.op = "prescale" /\ c.arg = 64
      /\ d.op = "top"
  <2>1. b.op = "write"
    BY DEF Access
  <2>2. a.op = "compare_interrupt" /\ c.op = "prescale" /\ d.op = "top"
    BY OpsOf
  <2>3. c.arg = 64
    BY OpsOf
  <2>4. QED
    BY <2>1, <2>2, <2>3
<1>2. disableTimer = s /\ DisableItems = {a, b, c, d}
  BY DEF disableTimer, DisableItems
<1>3. Plain(u, p) /\ Items(u) = Disconnects(p) \cup Section \cup Drives(p, FALSE)
  BY PlainDigitalWrite
<1> HIDE DEF a, b, c, d, u
<1>4. InOrder(s, p) /\ Whole(s) /\ Items(s) = {a, b, c, d}
  BY <1>1, FourInOrder
<1>5. LastDivisor(s, 64)
  <2>1. /\ Len(s) = 4 /\ s[1] = a /\ s[2] = b /\ s[3] = c /\ s[4] = d
    OBVIOUS
  <2>2. \A i \in 1 .. 4 : i > 3 => i = 4
    OBVIOUS
  <2> HIDE DEF s
  <2>3. \A j \in 1 .. 4 : j > 3 => s[j].op # "prescale"
    BY <1>1, <2>1, <2>2
  <2>4. QED
    BY <1>1, <2>1, <2>3 DEF LastDivisor
<1> HIDE DEF s
<1>6. \A x \in Items(u) : /\ x.op \in {"load", "clear", "cli", "sei"}
                          /\ ~ConnectsPin(x, p)
  <2>1. \A x \in Items(u) : x.op \in {"load", "clear", "cli", "sei"}
    BY <1>3, OpsOf DEF Disconnects, Section, Drives, Loads, Access
  <2>2. QED
    BY <2>1 DEF ConnectsPin
<1>7. Follows(u, s, p)
  BY <1>1, <1>4, <1>6 DEF Follows, Has
<1>8. InOrder(s \o u, p) /\ Whole(s \o u) /\ Items(s \o u) = Items(s) \cup Items(u)
  BY <1>3, <1>4, <1>7, JoinInOrder, JoinWhole DEF Plain
<1>9. LastDivisor(s \o u, 64)
  BY <1>3, <1>4, <1>5, <1>6, DivisorJoins DEF Plain, Whole, Has
<1>10. QED
  BY <1>2, <1>3, <1>4, <1>8, <1>9 DEF u

-----------------------------------------------------------------------------
(* An access is made *)

\* The rest of a call is as it was asked for, too.
Later == ~Idle /\ script' = Tail(script) /\ pin' = pin

SameCall == UNCHANGED <<asked, tone_pins, sounding, use>>

SameTimer == UNCHANGED <<timer2_pin, OCIE2A, prescaler2>>

LEMMA FitsStay ==
    ASSUME pin' = pin, SameCall, NEW x
    PROVE  Fits(x)' <=> Fits(x)
<1>1. /\ asked' = asked /\ tone_pins' = tone_pins /\ sounding' = sounding /\ use' = use
  BY DEF SameCall
<1>2. TopAsked' = TopAsked
  BY <1>1 DEF TopAsked, Divisor
<1>3. PinStore(x)' <=> PinStore(x)
  BY <1>1 DEF PinStore
<1>4. QED
  BY <1>1, <1>2, <1>3 DEF Fits

LEMMA HeadFits ==
    ASSUME PinInv, ~Idle
    PROVE  /\ script \in Seq(Items(script)) /\ script # <<>>
           /\ Head(script) \in Items(script) /\ Fits(Head(script))
           /\ Items(Tail(script)) \subseteq Items(script)
<1>1. script \in Seq(Items(script)) /\ script # <<>>
  BY DEF PinInv, InOrder, Idle
<1>2. QED
  BY <1>1, TailItems DEF PinInv, AllFit

LEMMA RestFits ==
    ASSUME PinInv, Later, SameCall
    PROVE  InOrder(script, pin)' /\ AllFit'
<1>1. InOrder(script', pin')
  BY TailInOrder DEF PinInv, Later, Idle
<1>2. \A x \in Items(script') : Fits(x)'
  BY HeadFits, FitsStay DEF PinInv, AllFit, Later
<1>3. QED
  BY <1>1, <1>2 DEF AllFit

LEMMA LoadedLater ==
    ASSUME PinInv, Later, Head(script).op \notin {"load", "admux"}
    PROVE  Loaded'
<1>1. script' # <<>> => ~IsStore(Head(script')) /\ Head(script').op # "convert"
  BY HeadInOrder DEF PinInv, Later, Idle
<1>2. QED
  BY <1>1 DEF Loaded, Idle

LEMMA AnswersLater ==
    ASSUME PinInv, ~Idle, answer' = answer
    PROVE  Answers'
<1>1. answer' = <<>>
  BY DEF PinInv, Answers
<1>2. QED
  BY <1>1 DEF Answers

LEMMA PinsSettleLater ==
    ASSUME PinInv, Later, UNCHANGED <<reg, ocr, asked, tone_pins>>,
           ~IsStore(Head(script)), Head(script).op # "duty"
    PROVE  PinsSettle'
<1>1. reg' = reg /\ ocr' = ocr /\ asked' = asked /\ tone_pins' = tone_pins /\ pin' = pin
  BY DEF Later
<1>2. /\ \A op : Has(script, op) => Head(script).op = op \/ Has(script', op)
      /\ \A r, p : Stores(script, r, p) => Stores(script', r, p)
  BY HeadFits, TailHas DEF Later
<1>3. QED
  BY <1>1, <1>2 DEF PinInv, PinsSettle, OutIs, HighIs, ConnectedIs, DutyIs

LEMMA DivisorLater ==
    ASSUME NEW s, s \in Seq(Items(s)), s # <<>>, NEW scale, NEW v, DivisorSettles(s, scale, v)
    PROVE  /\ Head(s).op # "prescale" => DivisorSettles(Tail(s), scale, v)
           /\ Head(s).op = "prescale" => DivisorSettles(Tail(s), Head(s).arg, v)
<1>1. /\ Has(Tail(s), "prescale") => Has(s, "prescale")
      /\ Head(s) \in Items(s)
  BY TailHas, TailItems
<1>2. CASE LastDivisor(s, v)
  BY <1>1, <1>2, TailDivisor DEF DivisorSettles
<1>3. CASE scale = v /\ ~Has(s, "prescale")
  BY <1>1, <1>3 DEF DivisorSettles, Has
<1>4. QED
  BY <1>2, <1>3 DEF DivisorSettles

\* A compare interrupt that is to be turned off is turned off first.
LEMMA SilentFirst ==
    ASSUME PinInv, ~Idle, tone_pins = NoPin, OCIE2A
    PROVE  Head(script).op = "compare_interrupt"
<1>1. PICK x \in Items(script) : x.op = "compare_interrupt"
  BY DEF PinInv, TimerSettles, IsSilent, Has
<1>2. ~x.arg
  BY <1>1 DEF PinInv, AllFit, Fits
<1>3. QED
  BY <1>1, <1>2, HeadFits, HeadInOrder DEF PinInv

LEMMA TimerSettlesLater ==
    ASSUME PinInv, Later, SameCall, SameTimer,
           Wgm' = Wgm, tone_pins = NoPin \/ ocr'[OCR2A] = ocr[OCR2A],
           Head(script).op \notin TimerOps \ {"count"}, ~ModeStore(Head(script))
    PROVE  TimerSettles'
<1>1. /\ asked' = asked /\ tone_pins' = tone_pins /\ sounding' = sounding /\ use' = use
      /\ timer2_pin' = timer2_pin /\ OCIE2A' = OCIE2A /\ prescaler2' = prescaler2
      /\ pin' = pin
  BY DEF SameCall, SameTimer, Later
<1>2. Divisor' = Divisor /\ TopAsked' = TopAsked
  BY <1>1 DEF TopAsked, Divisor
<1>3. /\ \A op : Has(script', op) => Has(script, op)
      /\ \A op : Has(script, op) => Head(script).op = op \/ Has(script', op)
      /\ (\E x \in Items(script) : ModeStore(x)) => \E x \in Items(script') : ModeStore(x)
  BY HeadFits, TailHas DEF Later
<1>4. \A v : DivisorSettles(script, prescaler2, v) => DivisorSettles(script', prescaler2', v)
  BY <1>1, HeadFits, DivisorLater DEF Later, TimerOps
<1>5. Head(script).op \notin {"write", "tone_pin", "top", "prescale", "compare_interrupt"}
  BY DEF TimerOps
<1>6. IF tone_pins' = NoPin THEN IsSilent' ELSE Sounds'
  <2>1. CASE tone_pins = NoPin
    <3>1. IsSilent
      BY <2>1 DEF PinInv, TimerSettles
    <3>2. IsSilent'
      BY <1>1, <1>3, <1>4, <1>5, <3>1 DEF IsSilent
    <3>3. QED
      BY <1>1, <2>1, <3>2
  <2>2. CASE tone_pins # NoPin
    <3>1. Sounds
      BY <2>2 DEF PinInv, TimerSettles
    <3>2. Sounds'
      BY <1>1, <1>2, <1>3, <1>4, <1>5, <2>2, <3>1 DEF Sounds
    <3>3. QED
      BY <1>1, <2>2, <3>2
  <2>3. QED
    BY <2>1, <2>2
<1>7. TogglesItsPin'
  <2>1. ~(tone_pins = NoPin /\ OCIE2A)
    BY <1>5, SilentFirst DEF Later
  <2>2. QED
    BY <1>1, <2>1 DEF PinInv, TimerSettles, TogglesItsPin
<1>8. QED
  BY <1>1, <1>3, <1>6, <1>7 DEF PinInv, TimerSettles

LEMMA QuietSettles ==
    ASSUME PinInv, Later, SameCall, SameTimer, UNCHANGED <<reg, ocr, answer>>, Loaded',
           ~IsStore(Head(script)), Head(script).op \notin {"duty"} \cup (TimerOps \ {"count"})
    PROVE  PinInv'
<1>1. /\ reg' = reg /\ ocr' = ocr /\ asked' = asked /\ tone_pins' = tone_pins
      /\ answer' = answer /\ use' = use
  BY DEF SameCall
<1>2. ~ModeStore(Head(script)) /\ ~Idle
  BY DEF ModeStore, IsStore, Later
<1>3. Wgm' = Wgm
  BY <1>1 DEF Wgm
<1>4. PinTypes'
  BY <1>1 DEF PinInv, PinTypes
<1>5. PinsSettle'
  BY <1>1, PinsSettleLater
<1>6. TimerSettles'
  BY <1>1, <1>2, <1>3, TimerSettlesLater
<1>7. Answers'
  BY <1>1, <1>2, AnswersLater
<1>8. QED
  BY <1>4, <1>5, <1>6, <1>7, RestFits DEF PinInv

LEMMA LoadSettles ==
    ASSUME PinInv, LoadRegister, UNCHANGED <<toneVars, use>>
    PROVE  PinInv'
<1>1. /\ Later /\ SameCall /\ SameTimer /\ Head(script).op = "load"
      /\ reg' = reg /\ ocr' = ocr /\ answer' = answer
      /\ copy' = reg[Head(script).reg]
  BY DEF LoadRegister, Does, hardware, toneVars, Later, SameCall, SameTimer
<1>2. script' # <<>> => /\ IsStore(Head(script')) => Head(script').reg = Head(script).reg
                        /\ Head(script').op # "convert"
  BY <1>1, HeadInOrder DEF PinInv, Later, Idle
<1>3. Loaded'
  BY <1>1, <1>2 DEF Loaded, Idle
<1>4. QED
  BY <1>1, <1>3, QuietSettles DEF IsStore, TimerOps

LEMMA SelectSettles ==
    ASSUME PinInv, SelectChannel, UNCHANGED <<toneVars, use>>
    PROVE  PinInv'
<1>1. /\ Later /\ SameCall /\ SameTimer /\ Head(script).op = "admux"
      /\ reg' = reg /\ ocr' = ocr /\ answer' = answer
      /\ adc' = [channel |-> Head(script).arg, reference |-> analog_reference]
      /\ analog_reference' = analog_reference
  BY DEF SelectChannel, Does, toneVars, Later, SameCall, SameTimer
<1>2. script' # <<>> => ~IsStore(Head(script'))
  BY <1>1, HeadInOrder DEF PinInv, Later, Idle
<1>3. Head(script).arg = analogChannel(pin)
  BY <1>1, HeadFits DEF Fits, Later
<1>4. Loaded'
  BY <1>1, <1>2, <1>3 DEF Loaded, Idle, Later
<1>5. QED
  BY <1>1, <1>4, QuietSettles DEF IsStore, TimerOps

\* Accesses that neither the pins nor the tone depend on.
LEMMA OthersSettle ==
    ASSUME PinInv, Later, SameCall, SameTimer, UNCHANGED <<reg, ocr, answer>>,
           Head(script).op \notin (WiringOps \ {"count"})
    PROVE  PinInv'
<1>1. /\ ~IsStore(Head(script)) /\ Head(script).op \notin {"duty", "load", "admux"}
      /\ Head(script).op \notin TimerOps \ {"count"}
  BY DEF IsStore, WiringOps, TimerOps
<1>2. Loaded'
  BY <1>1, LoadedLater
<1>3. QED
  BY <1>1, <1>2, QuietSettles

\* Nothing is left to store when the program looks at the board.
LEMMA LookSettles ==
    ASSUME PinInv, Later, SameCall, SameTimer, UNCHANGED <<reg, ocr>>, Answers',
           Head(script).op \in {"read", "convert"}
    PROVE  PinInv'
<1>1. /\ reg' = reg /\ ocr' = ocr /\ asked' = asked /\ tone_pins' = tone_pins /\ use' = use
  BY DEF SameCall
<1>2. /\ ~IsStore(Head(script)) /\ Head(script).op \notin {"duty", "load", "admux"}
      /\ Head(script).op \notin TimerOps \ {"count"} /\ ~ModeStore(Head(script))
  BY DEF IsStore, TimerOps, ModeStore
<1>3. Wgm' = Wgm
  BY <1>1 DEF Wgm
<1>4. PinTypes'
  BY <1>1 DEF PinInv, PinTypes
<1>5. PinsSettle' /\ Loaded'
  BY <1>1, <1>2, PinsSettleLater, LoadedLater
<1>6. TimerSettles'
  BY <1>1, <1>2, <1>3, TimerSettlesLater
<1>7. QED
  BY <1>4, <1>5, <1>6, RestFits DEF PinInv

LEMMA ReadSettles ==
    ASSUME PinInv, ReadPin, UNCHANGED <<toneVars, use>>
    PROVE  PinInv'
<1>1. /\ Later /\ SameCall /\ SameTimer /\ Head(script).op = "read"
      /\ reg' = reg /\ ocr' = ocr /\ asked' = asked /\ use' = use
      /\ answer' \in IF pin \in reg[Mode(pin)] THEN {<<pin \in reg[Output(pin)]>>}
                                               ELSE {<<TRUE>>, <<FALSE>>}
  BY DEF ReadPin, Does, hardware, toneVars, Later, SameCall, SameTimer
<1>2. script' = <<>>
  BY <1>1, HeadInOrder DEF PinInv, Later, Idle
<1>3. Items(script') = {}
  BY <1>2, NoneInOrder
<1>4. \A r, p : ~Stores(script, r, p)
  <2>1. ~IsStore(Head(script))
    BY <1>1 DEF IsStore
  <2>2. \A r, p : ~Stores(script', r, p)
    BY <1>3 DEF Stores
  <2>3. QED
    BY <1>1, <2>1, <2>2, HeadFits, TailHas DEF Later
<1>5. pin \in Pins \ HandlerPins
  BY <1>1, HeadFits DEF Fits, Later
<1>6. OutIs(pin)
  BY <1>4, <1>5 DEF PinInv, PinsSettle
<1>7. "tone" \notin use => HighIs(pin)
  <2>1. SUFFICES ASSUME "tone" \notin use PROVE HighIs(pin)
    OBVIOUS
  <2>2. tone_pins = NoPin
    BY <2>1 DEF PinInv, TimerSettles
  <2>3. QED
    BY <1>4, <1>5, <2>2, PinNumbers DEF PinInv, PinsSettle
<1>8. \E b : answer' = <<b>>
  BY <1>1
<1>9. "tone" \notin use /\ asked[pin].out => answer' = <<pin \in reg[Output(pin)]>>
  BY <1>1, <1>6 DEF OutIs
<1>10. asked[pin].high \in BOOLEAN
  BY <1>5 DEF PinInv, PinTypes
<1>11. "tone" \notin use /\ asked[pin].out => answer'[1] = asked[pin].high
  BY <1>7, <1>9, <1>10 DEF HighIs
<1>12. answer' = <<answer'[1]>>
  BY <1>8
<1>13. Answers'
  BY <1>1, <1>2, <1>5, <1>11, <1>12 DEF Answers, Idle, Later
<1>14. QED
  BY <1>1, <1>13, LookSettles

LEMMA ConvertSettles ==
    ASSUME PinInv, Convert, UNCHANGED <<toneVars, use>>
    PROVE  PinInv'
<1>1. /\ Later /\ SameCall /\ SameTimer /\ Head(script).op = "convert"
      /\ reg' = reg /\ ocr' = ocr /\ answer' = <<adc.channel, adc.reference>>
      /\ analog_reference' = analog_reference
  BY DEF Convert, Does, hardware, toneVars, Later, SameCall, SameTimer
<1>2. script' = <<>>
  BY <1>1, HeadInOrder DEF PinInv, Later, Idle
<1>3. adc = [channel |-> analogChannel(pin), reference |-> analog_reference]
  BY <1>1 DEF PinInv, Loaded, Later
<1>4. answer' = <<analogChannel(pin'), analog_reference'>>
  BY <1>1, <1>3 DEF Later
<1>5. Answers'
  BY <1>2, <1>4 DEF Answers, Idle
<1>6. QED
  BY <1>1, <1>5, LookSettles

LEMMA StoreWrites ==
    ASSUME PinInv, StoreRegister
    PROVE  LET x == Head(script) IN
           /\ x.bits \subseteq Int
           /\ reg' \in [Registers -> SUBSET Int]
           /\ \A r \in Registers : \A p :
                  IF r = x.reg /\ p \in x.bits THEN p \in reg'[r] <=> x.op = "set"
                                               ELSE p \in reg'[r] <=> p \in reg[r]
<1> DEFINE x == Head(script)
<1>1. ~Idle /\ IsStore(x)
  BY DEF StoreRegister, Does, IsStore
<1>2. copy = reg[x.reg] /\ Fits(x)
  BY <1>1, HeadFits DEF PinInv, Loaded
<1>3. (x.bits = {pin} /\ pin \in Pins) \/ x.bits = {WGM21}
  BY <1>1, <1>2 DEF Fits, PinStore, ModeStore
<1>4. x.bits \subseteq Int
  BY <1>3, PinNumbers
<1>5. \/ x.op = "set" /\ reg' = [reg EXCEPT ![x.reg] = reg[x.reg] \cup x.bits]
      \/ x.op = "clear" /\ reg' = [reg EXCEPT ![x.reg] = reg[x.reg] \ x.bits]
  BY <1>2 DEF StoreRegister, Does
<1>6. reg \in [Registers -> SUBSET Int]
  BY DEF PinInv, PinTypes
<1> HIDE DEF x
<1>7. CASE x.op = "set" /\ reg' = [reg EXCEPT ![x.reg] = reg[x.reg] \cup x.bits]
  <2>1. \A r \in Registers :
            reg'[r] = IF r = x.reg THEN reg[x.reg] \cup x.bits ELSE reg[r]
    BY <1>6, <1>7
  <2>2. reg' \in [Registers -> SUBSET Int]
    BY <1>4, <1>6, <1>7
  <2>3. QED
    BY <1>4, <1>7, <2>1, <2>2 DEF x
<1>8. CASE x.op = "clear" /\ reg' = [reg EXCEPT ![x.reg] = reg[x.reg] \ x.bits]
  <2>1. \A r \in Registers :
            reg'[r] = IF r = x.reg THEN reg[x.reg] \ x.bits ELSE reg[r]
    BY <1>6, <1>8
  <2>2. reg' \in [Registers -> SUBSET Int]
    BY <1>4, <1>6, <1>8
  <2>3. QED
    BY <1>4, <1>8, <2>1, <2>2 DEF x
<1>9. QED
  BY <1>5, <1>7, <1>8

LEMMA StoreSettles ==
    ASSUME PinInv, StoreRegister, UNCHANGED <<toneVars, use>>
    PROVE  PinInv'
<1> DEFINE x == Head(script)
<1>1. /\ Later /\ SameCall /\ SameTimer /\ IsStore(x) /\ ~Idle
      /\ ocr' = ocr /\ asked' = asked /\ tone_pins' = tone_pins /\ answer' = answer /\ pin' = pin
  BY DEF StoreRegister, Does, toneVars, Later, SameCall, SameTimer, IsStore
<1>2. /\ reg' \in [Registers -> SUBSET Int]
      /\ \A r \in Registers : \A p :
             IF r = x.reg /\ p \in x.bits THEN p \in reg'[r] <=> x.op = "set"
                                          ELSE p \in reg'[r] <=> p \in reg[r]
  BY StoreWrites
<1>3. PinStore(x) \/ (ModeStore(x) /\ tone_pins = pin /\ pin \in TonePins)
  BY <1>1, HeadFits DEF Fits
<1>4. /\ \A r, p : Stores(script, r, p) =>
             (IsStore(x) /\ x.reg = r /\ x.bits = {p}) \/ Stores(script', r, p)
      /\ \A op : Has(script, op) => x.op = op \/ Has(script', op)
      /\ \A op : Has(script', op) => Has(script, op)
  BY <1>1, HeadFits, TailHas DEF Later
<1>5. x.op \in {"set", "clear"}
  BY <1>1 DEF IsStore
<1> HIDE DEF x
<1>6. PinTypes'
  BY <1>1, <1>2 DEF PinInv, PinTypes
<1>7. Loaded'
  BY <1>1, <1>5, LoadedLater DEF x
<1>8. Answers'
  BY <1>1, AnswersLater
<1>9. ASSUME NEW p \in Pins
      PROVE  /\ OutIs(p)' \/ Stores(script, Mode(p), p)'
             /\ HighIs(p)' \/ Stores(script, Output(p), p)' \/ p = tone_pins
             /\ ConnectedIs(p)' \/ (OnTimer(p) /\ Stores(script, Timer(p), p)')
             /\ DutyIs(p)' \/ (p = pin /\ Has(script, "duty")')
  <2>1. /\ Mode(p) \in Registers /\ Output(p) \in Registers /\ Mode(p) # Output(p)
        /\ OnTimer(p) => /\ Timer(p) \in Registers /\ Timer(p) # Mode(p)
                         /\ Timer(p) # Output(p)
    BY RegistersOf, TimerIs
  <2>2. /\ OutIs(p) \/ Stores(script, Mode(p), p)
        /\ HighIs(p) \/ Stores(script, Output(p), p) \/ p = tone_pins
        /\ ConnectedIs(p) \/ (OnTimer(p) /\ Stores(script, Timer(p), p))
        /\ DutyIs(p) \/ (p = pin /\ Has(script, "duty"))
    BY DEF PinInv, PinsSettle
  <2>3. DutyIs(p)' \/ (p = pin /\ Has(script, "duty")')
    BY <1>1, <1>4, <1>5, <2>2 DEF DutyIs
  <2>4. CASE p \in x.bits
    <3>1. p = pin /\ PinStore(x) /\ x.bits = {pin}
      BY <1>3, <2>4, PinNumbers DEF PinStore, ModeStore
    <3>2. x.reg = Mode(p) => OutIs(p)'
      BY <1>1, <1>2, <2>1, <2>4, <3>1 DEF PinStore, OutIs
    <3>3. x.reg = Output(p) => HighIs(p)'
      BY <1>1, <1>2, <2>1, <2>4, <3>1 DEF PinStore, HighIs
    <3>4. OnTimer(p) /\ x.reg = Timer(p) => ConnectedIs(p)'
      BY <1>1, <1>2, <2>1, <2>4, <3>1 DEF PinStore, ConnectedIs
    <3>5. /\ OutIs(p) /\ x.reg # Mode(p) => OutIs(p)'
          /\ HighIs(p) /\ x.reg # Output(p) => HighIs(p)'
          /\ ConnectedIs(p) /\ ~(OnTimer(p) /\ x.reg = Timer(p)) => ConnectedIs(p)'
      BY <1>1, <1>2, <2>1 DEF OutIs, HighIs, ConnectedIs
    <3>6. QED
      BY <1>4, <2>2, <2>3, <3>2, <3>3, <3>4, <3>5
  <2>5. CASE p \notin x.bits
    <3>1. /\ OutIs(p) => OutIs(p)'
          /\ HighIs(p) => HighIs(p)'
          /\ ConnectedIs(p) => ConnectedIs(p)'
      BY <1>1, <1>2, <2>1, <2>5 DEF OutIs, HighIs, ConnectedIs
    <3>2. \A r : Stores(script, r, p) => Stores(script', r, p)
      BY <1>4, <2>5
    <3>3. QED
      BY <2>2, <2>3, <3>1, <3>2
  <2>6. QED
    BY <2>4, <2>5
<1>10. PinsSettle'
  BY <1>1, <1>9 DEF PinsSettle
<1>11. "TCCR2A" \in Registers
  BY RegistersOf DEF TimerRegisters
<1>12. CASE ~ModeStore(x)
  <2>1. x.bits \cap Wgm2 = {}
    BY <1>3, <1>12, PinNumbers DEF PinStore, Wgm2
  <2>2. Wgm' = Wgm
    BY <1>2, <1>11, <2>1 DEF Wgm
  <2>3. x.op \notin TimerOps \ {"count"}
    BY <1>5 DEF TimerOps
  <2>4. TimerSettles'
    BY <1>1, <1>12, <2>2, <2>3, TimerSettlesLater DEF x
  <2>5. QED
    BY <1>1, <1>6, <1>7, <1>8, <1>10, <2>4, RestFits DEF PinInv
<1>13. CASE ModeStore(x)
  <2>1. /\ x.op = "set" /\ x.reg = "TCCR2A" /\ x.bits = {WGM21} /\ tone_pins = pin
    BY <1>3, <1>13, PinNumbers DEF ModeStore, PinStore
  <2>2. /\ sounding' = sounding /\ use' = use /\ timer2_pin' = timer2_pin
        /\ OCIE2A' = OCIE2A /\ prescaler2' = prescaler2
    BY <1>1 DEF SameCall, SameTimer
  <2>3. Divisor' = Divisor /\ TopAsked' = TopAsked
    BY <2>2 DEF TopAsked, Divisor
  <2>4. DivisorSettles(script, prescaler2, Divisor)
            => DivisorSettles(script', prescaler2', Divisor')
    BY <1>1, <2>1, <2>2, <2>3, HeadFits, DivisorLater DEF Later, x
  <2>5. ~Has(script, "write")
    BY <1>1, <2>1, HeadFits, HeadInOrder DEF PinInv, x
  <2>6. CASE tone_pins # NoPin
    <3>1. Sounds
      BY <2>6 DEF PinInv, TimerSettles
    <3>2. Wgm = {WGM21} \/ Wgm = {}
      BY <2>5, <3>1 DEF Sounds
    <3>3. Wgm' = {WGM21}
      BY <1>2, <1>11, <2>1, <3>2 DEF Wgm, Wgm2
    <3>4. ~Has(script', "write")
      BY <1>4, <2>5
    <3>5. Sounds'
      BY <1>1, <1>4, <2>1, <2>2, <2>3, <2>4, <3>1, <3>3, <3>4 DEF Sounds
    <3>6. TimerSettles'
      BY <1>1, <1>4, <2>2, <2>6, <3>5 DEF PinInv, TimerSettles, TogglesItsPin
    <3>7. QED
      BY <1>1, <1>6, <1>7, <1>8, <1>10, <3>6, RestFits DEF PinInv
  <2>7. tone_pins # NoPin
    BY <1>3, <1>13, PinNumbers DEF PinStore, ModeStore
  <2>8. QED
    BY <2>6, <2>7
<1>14. QED
  BY <1>12, <1>13

LEMMA DutySettles ==
    ASSUME PinInv, SetDuty, UNCHANGED <<toneVars, use>>
    PROVE  PinInv'
<1> DEFINE x == Head(script)
<1>1. /\ Later /\ SameCall /\ SameTimer /\ x.op = "duty" /\ ~Idle
      /\ ocr' = [ocr EXCEPT ![pin] = x.arg] /\ reg' = reg
      /\ asked' = asked /\ tone_pins' = tone_pins /\ answer' = answer /\ pin' = pin
  BY DEF SetDuty, Does, toneVars, Later, SameCall, SameTimer
<1>2. /\ pin \in Pins /\ OnTimer(pin) /\ x.arg = asked[pin].duty
      /\ pin = OCR2A => "tone" \notin use
  BY <1>1, HeadFits DEF Fits
<1>3. ~IsStore(x) /\ ~ModeStore(x) /\ x.op \notin TimerOps \cup {"load", "admux"}
  BY <1>1 DEF IsStore, ModeStore, TimerOps
<1>4. /\ \A r, p : Stores(script, r, p) => Stores(script', r, p)
      /\ \A op : Has(script', op) => Has(script, op)
  BY <1>1, <1>3, HeadFits, TailHas DEF Later
<1> HIDE DEF x
<1>5. /\ DOMAIN ocr' = DOMAIN ocr /\ ocr'[pin] = x.arg
      /\ \A p : p # pin => ocr'[p] = ocr[p]
  BY <1>1, <1>2 DEF PinInv, PinTypes, OnTimer
<1>6. PinTypes'
  BY <1>1, <1>5 DEF PinInv, PinTypes
<1>7. Loaded' /\ Answers'
  BY <1>1, <1>3, LoadedLater, AnswersLater DEF x
<1>8. ASSUME NEW p \in Pins
      PROVE  /\ OutIs(p)' \/ Stores(script, Mode(p), p)'
             /\ HighIs(p)' \/ Stores(script, Output(p), p)' \/ p = tone_pins
             /\ ConnectedIs(p)' \/ (OnTimer(p) /\ Stores(script, Timer(p), p)')
             /\ DutyIs(p)'
  <2>1. /\ OutIs(p) \/ Stores(script, Mode(p), p)
        /\ HighIs(p) \/ Stores(script, Output(p), p) \/ p = tone_pins
        /\ ConnectedIs(p) \/ (OnTimer(p) /\ Stores(script, Timer(p), p))
        /\ DutyIs(p) \/ (p = pin /\ Has(script, "duty"))
    BY DEF PinInv, PinsSettle
  <2>2. /\ OutIs(p) => OutIs(p)'
        /\ HighIs(p) => HighIs(p)'
        /\ ConnectedIs(p) => ConnectedIs(p)'
    BY <1>1 DEF OutIs, HighIs, ConnectedIs
  <2>3. DutyIs(p)'
    BY <1>1, <1>2, <1>5, <2>1 DEF DutyIs
  <2>4. QED
    BY <1>4, <2>1, <2>2, <2>3
<1>9. PinsSettle'
  BY <1>1, <1>8 DEF PinsSettle
<1>10. tone_pins = NoPin \/ ocr'[OCR2A] = ocr[OCR2A]
  <2>1. CASE "tone" \in use
    BY <1>2, <1>5, <2>1
  <2>2. CASE "tone" \notin use
    BY <2>2 DEF PinInv, TimerSettles
  <2>3. QED
    BY <2>1, <2>2
<1>11. Wgm' = Wgm
  BY <1>1 DEF Wgm
<1>12. TimerSettles'
  BY <1>1, <1>3, <1>10, <1>11, TimerSettlesLater DEF x
<1>13. QED
  BY <1>1, <1>6, <1>7, <1>9, <1>12, RestFits DEF PinInv

\* Settings of the timer but for its mode.
LEMMA SettingSettles ==
    ASSUME PinInv, SetTop \/ SetTone,
           UNCHANGED <<interrupts, sreg, adc, copy, pin, answer, analog_reference, use>>
    PROVE  PinInv'
<1> DEFINE x == Head(script)
<1>1. /\ ~Idle /\ Later /\ SameCall /\ reg' = reg /\ asked' = asked /\ tone_pins' = tone_pins
      /\ sounding' = sounding /\ use' = use /\ answer' = answer /\ pin' = pin
  BY DEF SetTop, SetTone, Does, toneVars, Later, SameCall
<1>2. x.op \in {"top", "prescale", "tone_pin", "count", "compare_interrupt"}
  BY DEF SetTop, SetTone, Does
<1>3. /\ IF x.op = "top" THEN ocr' = [ocr EXCEPT ![OCR2A] = x.arg] ELSE ocr' = ocr
      /\ prescaler2' = IF x.op = "prescale" THEN x.arg ELSE prescaler2
      /\ timer2_pin' = IF x.op = "tone_pin" THEN pin ELSE timer2_pin
      /\ OCIE2A' = IF x.op = "compare_interrupt" THEN x.arg ELSE OCIE2A
  BY DEF SetTop, SetTone, Does, toneVars
<1>4. Fits(x) /\ "tone" \in use /\ tone_pins \in {pin, NoPin} /\ pin \in TonePins
  BY <1>1, <1>2, HeadFits DEF Fits, TimerOps
<1>5. ~IsStore(x) /\ ~ModeStore(x) /\ x.op \notin {"write", "load", "admux", "duty"}
  BY <1>2 DEF IsStore, ModeStore
<1>6. /\ \A r, p : Stores(script, r, p) => Stores(script', r, p)
      /\ \A op : Has(script', op) => Has(script, op)
      /\ \A op : Has(script, op) => x.op = op \/ Has(script', op)
      /\ (\E y \in Items(script) : ModeStore(y)) => \E y \in Items(script') : ModeStore(y)
  BY <1>1, <1>5, HeadFits, TailHas DEF Later
<1>7. \A v : DivisorSettles(script, prescaler2, v) => DivisorSettles(script', prescaler2', v)
  BY <1>1, <1>3, HeadFits, DivisorLater DEF Later
<1>8. /\ Has(script, "tone_pin") => x.op # "compare_interrupt"
  BY <1>1, HeadFits, HeadInOrder DEF PinInv
<1>9. x.op = "compare_interrupt" => x.arg \in BOOLEAN /\ (x.arg <=> tone_pins # NoPin)
  BY <1>4 DEF Fits
<1>10. x.op = "top" /\ tone_pins # NoPin => x.arg = TopAsked
  BY <1>4 DEF Fits
<1>11. tone_pins = NoPin /\ OCIE2A => x.op = "compare_interrupt"
  BY <1>1, SilentFirst
<1>12. Loaded' /\ Answers'
  BY <1>1, <1>5, LoadedLater, AnswersLater
<1> HIDE DEF x
<1>13. /\ DOMAIN ocr' = DOMAIN ocr /\ (x.op = "top" => ocr'[OCR2A] = x.arg)
       /\ \A p : p # OCR2A => ocr'[p] = ocr[p]
       /\ x.op # "top" => ocr' = ocr
  <2>1. OCR2A \in DOMAIN ocr
    BY TimerIs DEF OCR2A, PinInv, PinTypes
  <2>2. CASE x.op = "top"
    <3>1. ocr' = [ocr EXCEPT ![OCR2A] = x.arg]
      BY <1>3, <2>2
    <3>2. QED
      BY <2>1, <2>2, <3>1
  <2>3. CASE x.op # "top"
    <3>1. ocr' = ocr
      BY <1>3, <2>3
    <3>2. QED
      BY <2>3, <3>1
  <2>4. QED
    BY <2>2, <2>3
<1>14. PinTypes'
  BY <1>1, <1>13 DEF PinInv, PinTypes
<1>15. ASSUME NEW p \in Pins
       PROVE  /\ OutIs(p)' \/ Stores(script, Mode(p), p)'
              /\ HighIs(p)' \/ Stores(script, Output(p), p)' \/ p = tone_pins
              /\ ConnectedIs(p)' \/ (OnTimer(p) /\ Stores(script, Timer(p), p)')
              /\ DutyIs(p)' \/ (p = pin /\ Has(script, "duty")')
  <2>1. /\ OutIs(p) \/ Stores(script, Mode(p), p)
        /\ HighIs(p) \/ Stores(script, Output(p), p) \/ p = tone_pins
        /\ ConnectedIs(p) \/ (OnTimer(p) /\ Stores(script, Timer(p), p))
        /\ DutyIs(p) \/ (p = pin /\ Has(script, "duty"))
    BY DEF PinInv, PinsSettle
  <2>2. /\ OutIs(p) => OutIs(p)'
        /\ HighIs(p) => HighIs(p)'
        /\ ConnectedIs(p) => ConnectedIs(p)'
    BY <1>1 DEF OutIs, HighIs, ConnectedIs
  <2>3. p = OCR2A => asked[p].duty = 0
    BY <1>4 DEF PinInv, TimerSettles
  <2>4. DutyIs(p) => DutyIs(p)'
    BY <1>1, <1>13, <2>3 DEF DutyIs
  <2>5. QED
    BY <1>5, <1>6, <2>1, <2>2, <2>4
<1>16. PinsSettle'
  BY <1>1, <1>15 DEF PinsSettle
<1>17. Wgm' = Wgm /\ Divisor' = Divisor /\ TopAsked' = TopAsked
  BY <1>1 DEF Wgm, TopAsked, Divisor
<1>18. CASE tone_pins = NoPin
  <2>1. IsSilent
    BY <1>18 DEF PinInv, TimerSettles
  <2>2. IsSilent'
    BY <1>3, <1>5, <1>6, <1>7, <1>9, <1>17, <1>18, <2>1 DEF IsSilent
  <2>3. ~OCIE2A'
    BY <1>3, <1>9, <1>11, <1>18
  <2>4. TimerSettles'
    BY <1>1, <1>18, <2>2, <2>3 DEF PinInv, TimerSettles, TogglesItsPin
  <2>5. QED
    BY <1>1, <1>12, <1>14, <1>16, <2>4, RestFits DEF PinInv
<1>19. CASE tone_pins # NoPin
  <2>1. Sounds /\ tone_pins = pin
    BY <1>4, <1>19 DEF PinInv, TimerSettles
  <2>2. /\ OCIE2A' \/ Has(script', "compare_interrupt")
        /\ timer2_pin' = tone_pins \/ Has(script', "tone_pin")
        /\ ocr'[OCR2A] = TopAsked \/ Has(script', "top")
    BY <1>3, <1>6, <1>9, <1>10, <1>13, <1>19, <2>1 DEF Sounds
  <2>3. Sounds'
    BY <1>1, <1>5, <1>6, <1>7, <1>17, <2>1, <2>2 DEF Sounds
  <2>4. TogglesItsPin' /\ (Has(script', "tone_pin") => ~OCIE2A')
    <3>1. Has(script, "tone_pin") => ~OCIE2A /\ x.op # "compare_interrupt"
      BY <1>8 DEF PinInv, TimerSettles, x
    <3>2. OCIE2A' => timer2_pin' = tone_pins
      BY <1>3, <2>1, <3>1 DEF Sounds, PinInv, TimerSettles, TogglesItsPin
    <3>3. QED
      BY <1>1, <1>3, <1>4, <1>6, <1>19, <3>1, <3>2 DEF TogglesItsPin
  <2>5. TimerSettles'
    BY <1>1, <1>19, <2>3, <2>4 DEF PinInv, TimerSettles
  <2>6. QED
    BY <1>1, <1>12, <1>14, <1>16, <2>5, RestFits DEF PinInv
<1>20. QED
  BY <1>18, <1>19

LEMMA WriteSettles ==
    ASSUME PinInv, WriteRegister,
           UNCHANGED <<interrupts, sreg, adc, copy, pin, answer, analog_reference, use>>
    PROVE  PinInv'
<1> DEFINE x == Head(script)
<1>1. /\ ~Idle /\ Later /\ x.op = "write" /\ reg' = [reg EXCEPT ![x.reg] = x.bits]
      /\ ocr' = ocr /\ asked' = LosePWM /\ tone_pins' = tone_pins /\ use' = use
      /\ sounding' = sounding /\ timer2_pin' = timer2_pin /\ OCIE2A' = OCIE2A
      /\ prescaler2' = prescaler2 /\ answer' = answer /\ pin' = pin
  BY DEF WriteRegister, Does, toneVars, Later
<1>2. /\ x.reg = "TCCR2A" /\ x.bits = IF tone_pins = NoPin THEN {WGM20} ELSE {}
      /\ "tone" \in use /\ pin \in TonePins
  BY <1>1, HeadFits DEF Fits, TimerOps
<1>3. ~IsStore(x) /\ ~ModeStore(x) /\ x.op \notin {"load", "admux", "duty"}
  BY <1>1 DEF IsStore, ModeStore
<1>4. /\ \A r, p : Stores(script, r, p) => Stores(script', r, p)
      /\ \A op : Has(script', op) => Has(script, op)
      /\ \A op : Has(script, op) => x.op = op \/ Has(script', op)
      /\ (\E y \in Items(script) : ModeStore(y)) => \E y \in Items(script') : ModeStore(y)
  BY <1>1, <1>3, HeadFits, TailHas DEF Later
<1>5. /\ Has(script, "write") /\ ~Has(script', "write")
      /\ \A y \in Items(script) : ~ConnectsPin(y, pin)
  BY <1>1, HeadFits, HeadInOrder DEF PinInv, Later, Has
<1>6. \A v : DivisorSettles(script, prescaler2, v) => DivisorSettles(script', prescaler2', v)
  BY <1>1, HeadFits, DivisorLater DEF Later
<1>7. Loaded' /\ Answers'
  BY <1>1, <1>3, LoadedLater, AnswersLater
<1>8. Items(script') \subseteq Items(script) /\ InOrder(script', pin')
  BY <1>1, HeadFits, TailInOrder DEF PinInv, Later, Idle
<1>9. ~(tone_pins = NoPin /\ OCIE2A)
  BY <1>1, SilentFirst
<1> HIDE DEF x
<1>10. /\ \A p \in Pins : /\ asked'[p].out = asked[p].out /\ asked'[p].high = asked[p].high
                          /\ asked'[p].duty = IF p \in Timer2Pins THEN 0 ELSE asked[p].duty
       /\ asked' \in [Pins -> [out : BOOLEAN, high : BOOLEAN, duty : Int]]
  <2>1. asked \in [Pins -> [out : BOOLEAN, high : BOOLEAN, duty : Int]]
    BY DEF PinInv, PinTypes
  <2>2. QED
    BY <1>1, <2>1 DEF LosePWM
<1>11. /\ reg' \in [Registers -> SUBSET Int] /\ reg'["TCCR2A"] = x.bits
       /\ \A r \in Registers : r # "TCCR2A" => reg'[r] = reg[r]
  <2>1. x.bits \subseteq Int /\ "TCCR2A" \in Registers
    BY <1>2, PinNumbers, RegistersOf DEF TimerRegisters
  <2>2. QED
    BY <1>1, <1>2, <2>1 DEF PinInv, PinTypes
<1>12. PinTypes'
  BY <1>1, <1>10, <1>11 DEF PinInv, PinTypes
<1>13. ASSUME NEW y \in Items(script') PROVE Fits(y)'
  <2>1. Fits(y) /\ ~ConnectsPin(y, pin)
    BY <1>5, <1>8 DEF PinInv, AllFit
  <2>2. TopAsked' = TopAsked
    BY <1>1 DEF TopAsked, Divisor
  <2>3. pin \in Pins
    BY <1>2, PinNumbers
  <2>4. PinStore(y) => PinStore(y)'
    <3>1. SUFFICES ASSUME PinStore(y) PROVE PinStore(y)'
      OBVIOUS
    <3>2. OnTimer(pin) /\ y.reg = Timer(pin) => y.op # "set"
      BY <2>1, <3>1, TimerIs DEF ConnectsPin, PinStore
    <3>3. OnTimer(pin) /\ y.reg = Timer(pin) => asked[pin].duty = 0 \/ y.reg # Timer(pin)
      BY <3>1, <3>2, RegistersOf, TimerIs DEF PinStore
    <3>4. QED
      BY <1>1, <1>10, <2>3, <3>1, <3>2, <3>3 DEF PinStore
  <2>5. y.op # "duty"
    BY <2>1 DEF ConnectsPin
  <2>6. QED
    BY <1>1, <2>1, <2>2, <2>4, <2>5 DEF Fits
<1>14. ASSUME NEW p \in Pins
       PROVE  /\ OutIs(p)' \/ Stores(script, Mode(p), p)'
              /\ HighIs(p)' \/ Stores(script, Output(p), p)' \/ p = tone_pins
              /\ ConnectedIs(p)' \/ (OnTimer(p) /\ Stores(script, Timer(p), p)')
              /\ DutyIs(p)' \/ (p = pin /\ Has(script, "duty")')
  <2>1. /\ OutIs(p) \/ Stores(script, Mode(p), p)
        /\ HighIs(p) \/ Stores(script, Output(p), p) \/ p = tone_pins
        /\ ConnectedIs(p) \/ (OnTimer(p) /\ Stores(script, Timer(p), p))
        /\ DutyIs(p) \/ (p = pin /\ Has(script, "duty"))
    BY DEF PinInv, PinsSettle
  <2>2. /\ Mode(p) \in Registers /\ Output(p) \in Registers
        /\ Mode(p) # "TCCR2A" /\ Output(p) # "TCCR2A"
        /\ OnTimer(p) => Timer(p) \in Registers
    BY RegistersOf
  <2>3. /\ OutIs(p) => OutIs(p)'
        /\ HighIs(p) => HighIs(p)'
    BY <1>10, <1>11, <2>2 DEF OutIs, HighIs
  <2>4. p \notin x.bits
    BY <1>2, PinNumbers
  <2>5. CASE p \in Timer2Pins
    <3>1. OnTimer(p) /\ Timer(p) = "TCCR2A" /\ asked'[p].duty = 0
      BY <1>10, <2>5 DEF Timer2Pins
    <3>2. ConnectedIs(p)' /\ DutyIs(p)'
      BY <1>11, <2>4, <3>1 DEF ConnectedIs, DutyIs
    <3>3. QED
      BY <1>4, <2>1, <2>3, <3>2
  <2>6. CASE p \notin Timer2Pins
    <3>1. asked'[p].duty = asked[p].duty /\ (OnTimer(p) => Timer(p) # "TCCR2A")
      BY <1>10, <2>6 DEF Timer2Pins
    <3>2. (ConnectedIs(p) => ConnectedIs(p)') /\ (DutyIs(p) => DutyIs(p)')
      BY <1>1, <1>11, <2>2, <3>1 DEF ConnectedIs, DutyIs
    <3>3. QED
      BY <1>1, <1>3, <1>4, <2>1, <2>3, <3>2
  <2>7. QED
    BY <2>5, <2>6
<1>15. PinsSettle'
  BY <1>1, <1>14 DEF PinsSettle
<1>16. Wgm' = x.bits /\ Divisor' = Divisor /\ TopAsked' = TopAsked
  BY <1>1, <1>2, <1>11 DEF Wgm, Wgm2, TopAsked, Divisor
<1>17. IF tone_pins' = NoPin THEN IsSilent' ELSE Sounds'
  <2>1. CASE tone_pins = NoPin
    <3>1. IsSilent
      BY <2>1 DEF PinInv, TimerSettles
    <3>2. IsSilent'
      BY <1>1, <1>2, <1>4, <1>6, <1>16, <2>1, <3>1 DEF IsSilent
    <3>3. QED
      BY <1>1, <2>1, <3>2
  <2>2. CASE tone_pins # NoPin
    <3>1. Sounds
      BY <2>2 DEF PinInv, TimerSettles
    <3>2. \E y \in Items(script') : ModeStore(y)
      BY <1>4, <1>5, <3>1 DEF Sounds
    <3>3. Sounds'
      BY <1>1, <1>2, <1>4, <1>6, <1>16, <2>2, <3>1, <3>2 DEF Sounds
    <3>4. QED
      BY <1>1, <2>2, <3>3
  <2>3. QED
    BY <2>1, <2>2
<1>18. OCR2A \in Pins => asked'[OCR2A].duty = 0
  BY <1>2, <1>10 DEF PinInv, TimerSettles
<1>19. TimerSettles'
  BY <1>1, <1>4, <1>9, <1>17, <1>18 DEF PinInv, TimerSettles, TogglesItsPin
<1>20. QED
  BY <1>7, <1>8, <1>12, <1>13, <1>15, <1>19 DEF PinInv, AllFit

-----------------------------------------------------------------------------
(* A call begins *)

\* Nothing is left but to look at tone_pins.
Free == \A x \in Items(script) : x.op \in {"begin", "end"}

LEMMA IdleIsFree == Idle => Free
BY NoneInOrder DEF Idle, Free

LEMMA Settled ==
    ASSUME PinInv, Free
    PROVE  /\ \A p \in Pins : /\ OutIs(p) /\ ConnectedIs(p) /\ DutyIs(p)
                              /\ HighIs(p) \/ p = tone_pins
           /\ tone_pins = NoPin => ~OCIE2A /\ Wgm = {WGM20} /\ prescaler2 = 64
           /\ tone_pins # NoPin => /\ OCIE2A /\ Wgm = {WGM21} /\ timer2_pin = tone_pins
                                   /\ prescaler2 = Divisor /\ ocr[OCR2A] = TopAsked
<1>1. /\ \A r, p : ~Stores(script, r, p)
      /\ \A op : op \notin {"begin", "end"} => ~Has(script, op)
      /\ \A x \in Items(script) : ~ModeStore(x)
  BY DEF Free, Stores, Has, ModeStore, IsStore
<1>2. \A scale, v : DivisorSettles(script, scale, v) => scale = v
  <2>1. SUFFICES ASSUME NEW scale, NEW v, LastDivisor(script, v) PROVE FALSE
    BY DEF DivisorSettles
  <2>2. Has(script, "prescale")
    BY <2>1, DivisorIsSet DEF PinInv, InOrder
  <2>3. QED
    BY <1>1, <2>2
<1>3. \A p \in Pins : /\ OutIs(p) /\ ConnectedIs(p) /\ DutyIs(p)
                      /\ HighIs(p) \/ p = tone_pins
  BY <1>1 DEF PinInv, PinsSettle
<1>4. tone_pins = NoPin => ~OCIE2A /\ Wgm = {WGM20} /\ prescaler2 = 64
  BY <1>1, <1>2 DEF PinInv, TimerSettles, IsSilent
<1>5. tone_pins # NoPin => /\ OCIE2A /\ Wgm = {WGM21} /\ timer2_pin = tone_pins
                           /\ prescaler2 = Divisor /\ ocr[OCR2A] = TopAsked
  BY <1>1, <1>2 DEF PinInv, TimerSettles, Sounds
<1>6. QED
  BY <1>3, <1>4, <1>5

\* The pin of the call is as it is asked for, or about to be.
WillBe(p) ==
    /\ OutIs(p) \/ Stores(script, Mode(p), p)
    /\ HighIs(p) \/ Stores(script, Output(p), p) \/ p = tone_pins
    /\ ConnectedIs(p) \/ (OnTimer(p) /\ Stores(script, Timer(p), p))
    /\ DutyIs(p) \/ Has(script, "duty")

\* A call is about p and leaves the others alone.
About(p) ==
    /\ pin' = p /\ answer' = <<>> /\ reg' = reg /\ ocr' = ocr /\ use' = use
    /\ asked' \in [Pins -> [out : BOOLEAN, high : BOOLEAN, duty : Int]]
    /\ \A q \in Pins \ {p} : asked'[q] = asked[q]

LEMMA CallBegins ==
    ASSUME PinInv, Free, NEW p, About(p), InOrder(script', p), Whole(script'),
           \A x \in Items(script') : Fits(x)',
           p \in Pins => WillBe(p)', tone_pins' \in {p, tone_pins, NoPin},
           tone_pins' # tone_pins => tone_pins \in {p, NoPin},
           TimerSettles'
    PROVE  PinInv'
<1>1. /\ pin' = p /\ answer' = <<>> /\ reg' = reg /\ ocr' = ocr /\ use' = use
      /\ asked' \in [Pins -> [out : BOOLEAN, high : BOOLEAN, duty : Int]]
      /\ \A q \in Pins \ {p} : asked'[q] = asked[q]
  BY DEF About
<1>2. PinTypes'
  BY <1>1 DEF PinInv, PinTypes
<1>3. AllFit'
  BY DEF AllFit
<1>4. Loaded'
  <2>1. script' # <<>> => ~IsStore(Head(script')) /\ Head(script').op # "convert"
    BY HeadTailProperties DEF Whole
  <2>2. QED
    BY <2>1 DEF Loaded, Idle
<1>5. ASSUME NEW q \in Pins, q # p
      PROVE  /\ OutIs(q)' /\ ConnectedIs(q)' /\ DutyIs(q)'
             /\ HighIs(q)' \/ q = tone_pins'
  <2>1. OutIs(q) /\ ConnectedIs(q) /\ DutyIs(q) /\ (HighIs(q) \/ q = tone_pins)
    BY Settled
  <2>2. (OutIs(q) <=> OutIs(q)') /\ (HighIs(q) <=> HighIs(q)')
    BY <1>1, <1>5 DEF OutIs, HighIs
  <2>3. (ConnectedIs(q) <=> ConnectedIs(q)') /\ (DutyIs(q) <=> DutyIs(q)')
    BY <1>1, <1>5 DEF ConnectedIs, DutyIs
  <2>4. tone_pins = q => tone_pins' = q
    BY <1>5, PinNumbers
  <2>5. QED
    BY <2>1, <2>2, <2>3, <2>4
<1>6. PinsSettle'
  BY <1>1, <1>5 DEF PinsSettle, WillBe
<1>7. Answers'
  BY <1>1 DEF Answers
<1>8. QED
  BY <1>1, <1>2, <1>3, <1>4, <1>6, <1>7 DEF PinInv

\* A call that does nothing to the timer.
LEMMA WiringCallSettles ==
    ASSUME PinInv, Free, NEW p, About(p), InOrder(script', p), Whole(script'),
           \A x \in Items(script') : Fits(x)' /\ x.op \notin TimerOps,
           p \in Pins => WillBe(p)', UNCHANGED toneVars,
           "tone" \in use /\ OCR2A \in Pins => asked'[OCR2A].duty = 0
    PROVE  PinInv'
<1>1. /\ tone_pins' = tone_pins /\ sounding' = sounding /\ timer2_pin' = timer2_pin
      /\ OCIE2A' = OCIE2A /\ prescaler2' = prescaler2
      /\ use' = use /\ reg' = reg /\ ocr' = ocr
  BY DEF toneVars, About
<1>2. \A op \in TimerOps : ~Has(script', op)
  BY DEF Has
<1>3. Wgm' = Wgm /\ Divisor' = Divisor /\ TopAsked' = TopAsked
  BY <1>1 DEF Wgm, TopAsked, Divisor
<1>4. /\ tone_pins = NoPin => ~OCIE2A /\ Wgm = {WGM20} /\ prescaler2 = 64
      /\ tone_pins # NoPin => /\ OCIE2A /\ Wgm = {WGM21} /\ timer2_pin = tone_pins
                              /\ prescaler2 = Divisor /\ ocr[OCR2A] = TopAsked
  BY Settled
<1>5. ~Has(script', "prescale") /\ ~Has(script', "write") /\ ~Has(script', "tone_pin")
  BY <1>2 DEF TimerOps
<1>6. tone_pins = NoPin => IsSilent'
  BY <1>1, <1>3, <1>4, <1>5 DEF IsSilent, DivisorSettles
<1>7. tone_pins # NoPin => Sounds'
  BY <1>1, <1>3, <1>4, <1>5 DEF Sounds, DivisorSettles
<1>8. TogglesItsPin'
  BY <1>1, <1>4 DEF TogglesItsPin, PinInv, TimerSettles
<1>9. TimerSettles'
  BY <1>1, <1>5, <1>6, <1>7, <1>8 DEF PinInv, TimerSettles
<1>10. QED
  BY <1>1, <1>9, CallBegins

-----------------------------------------------------------------------------
(* The calls of the wiring library *)

LEMMA AccessIs ==
    /\ \A op, r, bits, arg :
           /\ Access(op, r, bits, arg).op = op /\ Access(op, r, bits, arg).reg = r
           /\ Access(op, r, bits, arg).bits = bits /\ Access(op, r, bits, arg).arg = arg
    /\ \A r : Loads(r).op = "load"
    /\ \A x \in Section : x.op \in {"cli", "sei"}
BY OpsOf DEF Access, Loads, Section

\* Accesses that fit any call.
LEMMA QuietFits ==
    ASSUME NEW x, x.op \in {"cli", "sei", "load"}
    PROVE  Fits(x)' /\ Fits(x) /\ x.op \notin TimerOps
BY DEF Fits, IsStore, TimerOps, ModeStore

\* The stores of a call that has been asked for with this one.
LEMMA DrivesFits ==
    ASSUME NEW p, pin' = p, p \in Pins \ HandlerPins, NEW high \in BOOLEAN, asked'[p].high = high
    PROVE  /\ \A x \in Drives(p, high) : Fits(x)' /\ x.op \notin TimerOps
           /\ \E x \in Drives(p, high) : IsStore(x) /\ x.reg = Output(p) /\ x.bits = {p}
<1> DEFINE y == Access(IF high THEN "set" ELSE "clear", Output(p), {p}, 0)
<1>1. /\ y.op = (IF high THEN "set" ELSE "clear") /\ y.reg = Output(p) /\ y.bits = {p}
  BY AccessIs
<1>2. Drives(p, high) = {Loads(Output(p)), y}
  BY DEF Drives
<1> HIDE DEF y
<1>3. PinStore(y)' /\ IsStore(y)
  BY <1>1 DEF PinStore, IsStore
<1>4. Fits(y)' /\ y.op \notin TimerOps
  BY <1>1, <1>3 DEF Fits, IsStore, TimerOps
<1>5. QED
  BY <1>1, <1>2, <1>3, <1>4, AccessIs, QuietFits

LEMMA DisconnectsFits ==
    ASSUME NEW p, pin' = p, p \in Pins, asked'[p].duty = 0
    PROVE  /\ \A x \in Disconnects(p) : Fits(x)' /\ x.op \notin TimerOps
           /\ OnTimer(p) => \E x \in Disconnects(p) :
                                  IsStore(x) /\ x.reg = Timer(p) /\ x.bits = {p}
<1> DEFINE y == Access("clear", Timer(p), {p}, 0)
<1>1. y.op = "clear" /\ y.reg = Timer(p) /\ y.bits = {p}
  BY AccessIs
<1>2. Disconnects(p) = IF OnTimer(p) THEN {Loads(Timer(p)), y} ELSE {}
  BY DEF Disconnects
<1> HIDE DEF y
<1>3. OnTimer(p) => PinStore(y)' /\ IsStore(y)
  BY <1>1 DEF PinStore, IsStore
<1>4. OnTimer(p) => Fits(y)' /\ y.op \notin TimerOps
  BY <1>1, <1>3 DEF Fits, IsStore, TimerOps
<1>5. QED
  BY <1>1, <1>2, <1>3, <1>4, AccessIs, QuietFits

LEMMA ModeFits ==
    ASSUME NEW p, pin' = p, p \in Pins, NEW out \in BOOLEAN, asked'[p].out = out
    PROVE  LET y == Access(IF out THEN "set" ELSE "clear", Mode(p), {p}, 0) IN
           /\ Fits(y)' /\ y.op \notin TimerOps
           /\ IsStore(y) /\ y.reg = Mode(p) /\ y.bits = {p}
<1> DEFINE y == Access(IF out THEN "set" ELSE "clear", Mode(p), {p}, 0)
<1>1. /\ y.op = (IF out THEN "set" ELSE "clear") /\ y.reg = Mode(p) /\ y.bits = {p}
  BY AccessIs
<1> HIDE DEF y
<1>2. PinStore(y)' /\ IsStore(y)
  BY <1>1 DEF PinStore, IsStore
<1>3. Fits(y)' /\ y.op \notin TimerOps
  BY <1>1, <1>2 DEF Fits, IsStore, TimerOps
<1>4. QED
  BY <1>1, <1>2, <1>3 DEF y

AskedAre == asked \in [Pins -> [out : BOOLEAN, high : BOOLEAN, duty : Int]]

LEMMA AsksAbout ==
    ASSUME PinInv, NEW p \in Pins, NEW out \in BOOLEAN, NEW high \in BOOLEAN, NEW duty \in Int,
           Asks(p, out, high, duty)
    PROVE  /\ AskedAre'
           /\ asked'[p].out = out /\ asked'[p].high = high /\ asked'[p].duty = duty
           /\ \A q \in Pins \ {p} : asked'[q] = asked[q]
BY DEF PinInv, PinTypes, Asks, AskedAre

LEMMA CallIs ==
    ASSUME NEW p, NEW accesses, Calls(p, accesses)
    PROVE  /\ Idle /\ Free /\ script' = accesses /\ pin' = p /\ answer' = <<>>
           /\ reg' = reg /\ ocr' = ocr
BY IdleIsFree DEF Calls, hardware

\* The others stay as they are, and so does p in what is not stored.
LEMMA StaysSettled ==
    ASSUME PinInv, Free, NEW p \in Pins, reg' = reg, ocr' = ocr, tone_pins' = tone_pins
    PROVE  /\ asked'[p].out = asked[p].out => OutIs(p)'
           /\ asked'[p].high = asked[p].high => HighIs(p)' \/ p = tone_pins'
           /\ asked'[p].duty = asked[p].duty => ConnectedIs(p)' /\ DutyIs(p)'
           /\ asked'[p].duty = 0 => DutyIs(p)'
<1>1. OutIs(p) /\ ConnectedIs(p) /\ DutyIs(p) /\ (HighIs(p) \/ p = tone_pins)
  BY Settled
<1>2. QED
  BY <1>1 DEF OutIs, HighIs, ConnectedIs, DutyIs

LEMMA PinModeSettles ==
    ASSUME PinInv, NEW p \in Pins, NEW mode \in {"INPUT", "INPUT_PULLUP", "OUTPUT"},
           CallPinMode(p, mode), UNCHANGED <<toneVars, use>>
    PROVE  PinInv'
<1> DEFINE out == mode = "OUTPUT"
           high == IF out THEN asked[p].high ELSE mode = "INPUT_PULLUP"
           y == Access(IF out THEN "set" ELSE "clear", Mode(p), {p}, 0)
<1>1. /\ Free /\ script' = pinMode(p, mode) /\ pin' = p /\ answer' = <<>>
      /\ reg' = reg /\ ocr' = ocr /\ use' = use /\ tone_pins' = tone_pins
  BY CallIs DEF CallPinMode, toneVars
<1>2. p \in HandlerPins => out
  BY DEF CallPinMode
<1>3. asked[p].high \in BOOLEAN /\ asked[p].duty \in Int
  BY DEF PinInv, PinTypes
<1>4. out \in BOOLEAN /\ high \in BOOLEAN
  BY <1>3
<1>5. Asks(p, out, high, asked[p].duty)
  <2>1. high = CASE mode = "OUTPUT" -> asked[p].high [] mode = "INPUT" -> FALSE [] OTHER -> TRUE
    OBVIOUS
  <2>2. QED
    BY <2>1 DEF CallPinMode
<1>6. /\ InOrder(script', p) /\ Whole(script')
      /\ Items(script') = Section \cup {Loads(Mode(p)), y}
                              \cup IF out THEN {} ELSE Drives(p, high)
  <2>1. /\ InOrder(script', p) /\ Whole(script')
        /\ Items(script') = Section \cup {Loads(Mode(p))} \cup
               IF mode = "OUTPUT" THEN {Access("set", Mode(p), {p}, 0)}
               ELSE {Access("clear", Mode(p), {p}, 0)} \cup Drives(p, mode = "INPUT_PULLUP")
    BY <1>1, PlainPinMode DEF Plain
  <2>2. CASE mode = "OUTPUT"
    <3>1. y = Access("set", Mode(p), {p}, 0)
      BY <2>2
    <3>2. QED
      BY <2>1, <2>2, <3>1
  <2>3. CASE mode # "OUTPUT"
    <3>1. y = Access("clear", Mode(p), {p}, 0) /\ Drives(p, high) = Drives(p, mode = "INPUT_PULLUP")
      BY <2>3
    <3>2. QED
      BY <2>1, <2>3, <3>1
  <2>4. QED
    BY <2>2, <2>3
<1> HIDE DEF out, high
<1>7. /\ AskedAre' /\ asked'[p].out = out /\ asked'[p].high = high
      /\ asked'[p].duty = asked[p].duty
      /\ \A q \in Pins \ {p} : asked'[q] = asked[q]
  BY <1>3, <1>4, <1>5, AsksAbout
<1>8. About(p)
  BY <1>1, <1>7 DEF About, AskedAre
<1>9. Fits(y)' /\ y.op \notin TimerOps /\ IsStore(y) /\ y.reg = Mode(p) /\ y.bits = {p}
  BY <1>1, <1>4, <1>7, ModeFits
<1> HIDE DEF y
<1>10. ~out => /\ \A x \in Drives(p, high) : Fits(x)' /\ x.op \notin TimerOps
               /\ \E x \in Drives(p, high) : IsStore(x) /\ x.reg = Output(p) /\ x.bits = {p}
  BY <1>1, <1>2, <1>4, <1>7, DrivesFits
<1>11. \A x \in Items(script') : Fits(x)' /\ x.op \notin TimerOps
  BY <1>6, <1>9, <1>10, AccessIs, QuietFits
<1>12. Stores(script', Mode(p), p) /\ (~out => Stores(script', Output(p), p))
  BY <1>6, <1>9, <1>10 DEF Stores
<1>13. out => asked'[p].high = asked[p].high
  BY <1>7 DEF high
<1>14. WillBe(p)'
  BY <1>1, <1>7, <1>12, <1>13, StaysSettled DEF WillBe
<1>15. "tone" \in use /\ OCR2A \in Pins => asked'[OCR2A].duty = 0
  BY <1>7 DEF PinInv, TimerSettles
<1>16. QED
  BY <1>6, <1>8, <1>11, <1>14, <1>15, <1>1, WiringCallSettles

\* digitalWrite, called by the program or at the end of noTone.
LEMMA WriteBegins ==
    ASSUME PinInv, Free, NEW p \in Pins \ HandlerPins, NEW high \in BOOLEAN,
           script' = digitalWrite(p, high), pin' = p, answer' = <<>>,
           Asks(p, asked[p].out, high, 0), UNCHANGED <<reg, ocr, toneVars, use>>
    PROVE  PinInv'
<1>1. reg' = reg /\ ocr' = ocr /\ use' = use /\ tone_pins' = tone_pins
  BY DEF toneVars
<1>2. p \in Pins /\ asked[p].out \in BOOLEAN
  BY DEF PinInv, PinTypes
<1>3. /\ AskedAre' /\ asked'[p].out = asked[p].out /\ asked'[p].high = high
      /\ asked'[p].duty = 0 /\ \A q \in Pins \ {p} : asked'[q] = asked[q]
  BY <1>2, AsksAbout
<1>4. About(p)
  BY <1>1, <1>3 DEF About, AskedAre
<1>5. /\ InOrder(script', p) /\ Whole(script')
      /\ Items(script') = Disconnects(p) \cup Section \cup Drives(p, high)
  BY <1>1, PlainDigitalWrite DEF Plain
<1>6. /\ \A x \in Drives(p, high) : Fits(x)' /\ x.op \notin TimerOps
      /\ \E x \in Drives(p, high) : IsStore(x) /\ x.reg = Output(p) /\ x.bits = {p}
  BY <1>1, <1>3, DrivesFits
<1>7. /\ \A x \in Disconnects(p) : Fits(x)' /\ x.op \notin TimerOps
      /\ OnTimer(p) => \E x \in Disconnects(p) :
                             IsStore(x) /\ x.reg = Timer(p) /\ x.bits = {p}
  BY <1>1, <1>2, <1>3, DisconnectsFits
<1>8. \A x \in Items(script') : Fits(x)' /\ x.op \notin TimerOps
  BY <1>5, <1>6, <1>7, AccessIs, QuietFits
<1>9. Stores(script', Output(p), p) /\ (OnTimer(p) => Stores(script', Timer(p), p))
  BY <1>5, <1>6, <1>7 DEF Stores
<1>10. WillBe(p)'
  <2>1. OutIs(p)' /\ DutyIs(p)'
    BY <1>1, <1>2, <1>3, StaysSettled
  <2>2. ~OnTimer(p) => ConnectedIs(p)'
    BY DEF ConnectedIs
  <2>3. QED
    BY <1>9, <2>1, <2>2 DEF WillBe
<1>11. "tone" \in use /\ OCR2A \in Pins => asked'[OCR2A].duty = 0
  BY <1>3 DEF PinInv, TimerSettles
<1>12. QED
  BY <1>1, <1>4, <1>5, <1>8, <1>10, <1>11, WiringCallSettles

LEMMA DigitalWriteSettles ==
    ASSUME PinInv, NEW p \in Pins \ HandlerPins, NEW high \in BOOLEAN,
           CallDigitalWrite(p, high), UNCHANGED <<toneVars, use>>
    PROVE  PinInv'
<1>1. /\ Free /\ script' = digitalWrite(p, high) /\ pin' = p /\ answer' = <<>>
      /\ reg' = reg /\ ocr' = ocr /\ Asks(p, asked[p].out, high, 0)
  BY CallIs DEF CallDigitalWrite
<1>2. QED
  BY <1>1, WriteBegins

LEMMA DigitalReadSettles ==
    ASSUME PinInv, NEW p \in Pins \ HandlerPins,
           CallDigitalRead(p), UNCHANGED <<toneVars, use>>
    PROVE  PinInv'
<1>1. /\ Free /\ script' = digitalRead(p) /\ pin' = p /\ answer' = <<>>
      /\ reg' = reg /\ ocr' = ocr /\ use' = use /\ tone_pins' = tone_pins
  BY CallIs DEF CallDigitalRead, toneVars
<1>2. p \in Pins /\ asked[p].out \in BOOLEAN /\ asked[p].high \in BOOLEAN
  BY DEF PinInv, PinTypes
<1>3. /\ AskedAre' /\ asked'[p].out = asked[p].out /\ asked'[p].high = asked[p].high
      /\ asked'[p].duty = 0 /\ \A q \in Pins \ {p} : asked'[q] = asked[q]
  BY <1>2, AsksAbout DEF CallDigitalRead
<1>4. About(p)
  BY <1>1, <1>3 DEF About, AskedAre
<1>5. /\ InOrder(script', p) /\ Whole(script')
      /\ Items(script') = Disconnects(p) \cup {Other("read", p)}
  BY <1>1, DigitalReadInOrder
<1>6. /\ \A x \in Disconnects(p) : Fits(x)' /\ x.op \notin TimerOps
      /\ OnTimer(p) => \E x \in Disconnects(p) :
                             IsStore(x) /\ x.reg = Timer(p) /\ x.bits = {p}
  BY <1>1, <1>2, <1>3, DisconnectsFits
<1>7. ASSUME NEW x, x.op = "read" PROVE Fits(x)' /\ x.op \notin TimerOps
  BY <1>1, <1>7 DEF Fits, IsStore, TimerOps
<1>8. \A x \in Items(script') : Fits(x)' /\ x.op \notin TimerOps
  BY <1>5, <1>6, <1>7, OpsOf
<1>9. OnTimer(p) => Stores(script', Timer(p), p)
  BY <1>5, <1>6 DEF Stores
<1>10. WillBe(p)'
  <2>1. OutIs(p)' /\ DutyIs(p)' /\ (HighIs(p)' \/ p = tone_pins')
    BY <1>1, <1>2, <1>3, StaysSettled
  <2>2. ~OnTimer(p) => ConnectedIs(p)'
    BY DEF ConnectedIs
  <2>3. QED
    BY <1>9, <2>1, <2>2 DEF WillBe
<1>11. "tone" \in use /\ OCR2A \in Pins => asked'[OCR2A].duty = 0
  BY <1>3 DEF PinInv, TimerSettles
<1>12. QED
  BY <1>1, <1>4, <1>5, <1>8, <1>10, <1>11, WiringCallSettles

\* A call that asks nothing of a pin.
LEMMA AsksNothing ==
    ASSUME PinInv, Free, NEW p, pin' = p, answer' = <<>>, UNCHANGED <<reg, ocr, asked>>,
           InOrder(script', p), Whole(script'), UNCHANGED <<toneVars, use>>,
           \A x \in Items(script') : Fits(x)' /\ x.op \notin TimerOps
    PROVE  PinInv'
<1>1. reg' = reg /\ ocr' = ocr /\ asked' = asked /\ use' = use /\ tone_pins' = tone_pins
  BY DEF toneVars
<1>2. About(p)
  BY <1>1 DEF About, PinInv, PinTypes
<1>3. p \in Pins => WillBe(p)'
  BY <1>1, StaysSettled DEF WillBe
<1>4. "tone" \in use /\ OCR2A \in Pins => asked'[OCR2A].duty = 0
  BY <1>1 DEF PinInv, TimerSettles
<1>5. QED
  BY <1>1, <1>2, <1>3, <1>4, WiringCallSettles

LEMMA AnalogReadSettles ==
    ASSUME PinInv, NEW p, CallAnalogRead(p), UNCHANGED <<toneVars, use>>
    PROVE  PinInv'
<1>1. /\ Free /\ script' = analogRead(p) /\ pin' = p /\ answer' = <<>>
      /\ reg' = reg /\ ocr' = ocr /\ asked' = asked
  BY CallIs DEF CallAnalogRead
<1>2. /\ InOrder(script', p) /\ Whole(script')
      /\ Items(script') = {Other("admux", analogChannel(p)), Other("convert", p)}
  BY <1>1, AnalogReadInOrder
<1>3. ASSUME NEW x, x.op = "admux", x.arg = analogChannel(p)
      PROVE  Fits(x)' /\ x.op \notin TimerOps
  BY <1>1, <1>3 DEF Fits, IsStore, TimerOps
<1>4. ASSUME NEW x, x.op = "convert" PROVE Fits(x)' /\ x.op \notin TimerOps
  BY <1>4 DEF Fits, IsStore, TimerOps
<1>5. Other("admux", analogChannel(p)).arg = analogChannel(p)
  BY AccessIs DEF Other
<1>6. \A x \in Items(script') : Fits(x)' /\ x.op \notin TimerOps
  BY <1>2, <1>3, <1>4, <1>5, OpsOf
<1>7. QED
  BY <1>1, <1>2, <1>6, AsksNothing

LEMMA ReferenceSettles ==
    ASSUME PinInv, NEW mode, analogReference(mode), UNCHANGED <<toneVars, use>>
    PROVE  PinInv'
<1>1. /\ Free /\ script' = <<>> /\ pin' = pin /\ answer' = <<>>
      /\ reg' = reg /\ ocr' = ocr /\ asked' = asked
  BY IdleIsFree DEF analogReference, hardware, Idle
<1>2. /\ InOrder(script', pin) /\ Whole(script') /\ Items(script') = {}
  BY <1>1, NoneInOrder DEF Plain
<1>3. QED
  BY <1>1, <1>2, AsksNothing

LEMMA AnalogWriteSettles ==
    ASSUME PinInv, NEW p \in Pins \ HandlerPins, NEW val \in 0 .. 255,
           CallAnalogWrite(p, val), p = OCR2A => "tone" \notin use, UNCHANGED <<toneVars, use>>
    PROVE  PinInv'
<1>0. PICK out \in BOOLEAN : out = TRUE
  OBVIOUS
<1> DEFINE y == Access(IF out THEN "set" ELSE "clear", Mode(p), {p}, 0)
           z == Access("set", Timer(p), {p}, 0)
           byTimer == OnTimer(p) /\ val \notin {0, 255}
           high == val >= 128
           short == Asks(p, TRUE, asked[p].high, val)
           full == Asks(p, TRUE, high, 0)
<1>1. /\ Free /\ script' = analogWrite(p, val) /\ pin' = p /\ answer' = <<>>
      /\ reg' = reg /\ ocr' = ocr /\ use' = use /\ tone_pins' = tone_pins
  BY CallIs DEF CallAnalogWrite, toneVars
<1>2. p \in Pins /\ asked[p].high \in BOOLEAN /\ high \in BOOLEAN /\ val \in Int
  BY DEF PinInv, PinTypes
<1>3. /\ byTimer => short
      /\ ~byTimer => full
  <2>1. byTimer <=> OnTimer(p) /\ val \in 1 .. 254
    OBVIOUS
  <2>2. IF OnTimer(p) /\ val \in 1 .. 254 THEN short ELSE full
    BY Zenon DEF CallAnalogWrite
  <2> HIDE DEF short, full
  <2>3. QED
    BY <2>1, <2>2
<1>4. /\ InOrder(script', p) /\ Whole(script')
      /\ Items(script') = Section \cup {Loads(Mode(p)), y} \cup
             IF byTimer THEN {Loads(Timer(p)), z, Other("duty", val)}
             ELSE Disconnects(p) \cup Drives(p, high)
  <2>1. y = Access("set", Mode(p), {p}, 0)
    BY <1>0
  <2>2. QED
    BY <1>1, <2>1, PlainAnalogWrite DEF Plain
<1>5. byTimer => val # 0 /\ OnTimer(p)
  OBVIOUS
<1> HIDE DEF high, byTimer
<1>6. /\ AskedAre' /\ asked'[p].out = out
      /\ byTimer => asked'[p].high = asked[p].high /\ asked'[p].duty = val
      /\ ~byTimer => asked'[p].high = high /\ asked'[p].duty = 0
      /\ \A q \in Pins \ {p} : asked'[q] = asked[q]
  <2>1. /\ byTimer => Asks(p, out, asked[p].high, val)
        /\ ~byTimer => Asks(p, out, high, 0)
    BY <1>0, <1>3, Zenon
  <2>2. CASE byTimer
    <3>1. PICK level \in BOOLEAN : level = asked[p].high
      BY <1>2
    <3>2. Asks(p, out, level, val)
      BY <2>1, <2>2, <3>1
    <3>3. /\ AskedAre' /\ asked'[p].out = out /\ asked'[p].high = level /\ asked'[p].duty = val
          /\ \A q \in Pins \ {p} : asked'[q] = asked[q]
      BY <1>2, <3>2, AsksAbout
    <3>4. QED
      BY <2>2, <3>1, <3>3
  <2>3. CASE ~byTimer
    <3>1. PICK level \in BOOLEAN : level = high
      BY <1>2
    <3>2. Asks(p, out, level, 0) /\ 0 \in Int
      BY <2>1, <2>3, <3>1
    <3>3. /\ AskedAre' /\ asked'[p].out = out /\ asked'[p].high = level /\ asked'[p].duty = 0
          /\ \A q \in Pins \ {p} : asked'[q] = asked[q]
      BY <1>2, <3>2, AsksAbout
    <3>4. QED
      BY <2>3, <3>1, <3>3
  <2>4. QED
    BY <2>2, <2>3
<1>7. About(p)
  BY <1>1, <1>6 DEF About, AskedAre
<1>8. Fits(y)' /\ y.op \notin TimerOps /\ IsStore(y) /\ y.reg = Mode(p) /\ y.bits = {p}
  BY <1>0, <1>1, <1>2, <1>6, ModeFits
<1>9. Stores(script', Mode(p), p)
  BY <1>4, <1>8 DEF Stores
<1>10. "tone" \in use /\ OCR2A \in Pins => asked'[OCR2A].duty = 0
  BY <1>6 DEF PinInv, TimerSettles
<1>11. z.op = "set" /\ z.reg = Timer(p) /\ z.bits = {p} /\ Other("duty", val).arg = val
  BY AccessIs DEF Other
<1> HIDE DEF y, z
<1>12. CASE byTimer
  <2>1. PinStore(z)' /\ IsStore(z)
    BY <1>1, <1>2, <1>5, <1>6, <1>11, <1>12 DEF PinStore, IsStore
  <2>2. Fits(z)' /\ z.op \notin TimerOps
    BY <1>11, <2>1 DEF Fits, IsStore, TimerOps
  <2>3. ASSUME NEW x, x.op = "duty", x.arg = val PROVE Fits(x)' /\ x.op \notin TimerOps
    BY <1>1, <1>2, <1>5, <1>6, <1>12, <2>3 DEF Fits, IsStore, TimerOps
  <2>4. Items(script') = Section \cup {Loads(Mode(p)), y, Loads(Timer(p)), z, Other("duty", val)}
    BY <1>4, <1>12
  <2>5. \A x \in Items(script') : Fits(x)' /\ x.op \notin TimerOps
    BY <1>8, <1>11, <2>2, <2>3, <2>4, AccessIs, OpsOf, QuietFits
  <2>6. Stores(script', Timer(p), p) /\ Has(script', "duty")
    BY <1>11, <2>1, <2>4, OpsOf DEF Stores, Has
  <2>7. HighIs(p)' \/ p = tone_pins'
    BY <1>1, <1>2, <1>6, <1>12, StaysSettled
  <2>8. WillBe(p)'
    BY <1>5, <1>9, <1>12, <2>6, <2>7 DEF WillBe
  <2>9. QED
    BY <1>1, <1>4, <1>7, <1>10, <2>5, <2>8, WiringCallSettles
<1>13. CASE ~byTimer
  <2>1. /\ \A x \in Drives(p, high) : Fits(x)' /\ x.op \notin TimerOps
        /\ \E x \in Drives(p, high) : IsStore(x) /\ x.reg = Output(p) /\ x.bits = {p}
    BY <1>1, <1>2, <1>6, <1>13, DrivesFits
  <2>2. /\ \A x \in Disconnects(p) : Fits(x)' /\ x.op \notin TimerOps
        /\ OnTimer(p) => \E x \in Disconnects(p) :
                               IsStore(x) /\ x.reg = Timer(p) /\ x.bits = {p}
    BY <1>1, <1>2, <1>6, <1>13, DisconnectsFits
  <2>3. Items(script') = Section \cup {Loads(Mode(p)), y} \cup Disconnects(p) \cup Drives(p, high)
    BY <1>4, <1>13
  <2>4. \A x \in Items(script') : Fits(x)' /\ x.op \notin TimerOps
    BY <1>8, <2>1, <2>2, <2>3, AccessIs, QuietFits
  <2>5. Stores(script', Output(p), p) /\ (OnTimer(p) => Stores(script', Timer(p), p))
    BY <2>1, <2>2, <2>3 DEF Stores
  <2>6. DutyIs(p)' /\ (~OnTimer(p) => ConnectedIs(p)')
    BY <1>1, <1>2, <1>6, <1>13, StaysSettled DEF ConnectedIs
  <2>7. WillBe(p)'
    BY <1>9, <2>5, <2>6 DEF WillBe
  <2>8. QED
    BY <1>1, <1>4, <1>7, <1>10, <2>4, <2>7, WiringCallSettles
<1>14. QED
  BY <1>12, <1>13

LEMMA ToneCallSettles ==
    ASSUME PinInv, NEW p \in TonePins, "tone" \in use,
           CallNoTone(p) \/ \E asTone \in Tones : CallTone(p, asTone), UNCHANGED use
    PROVE  PinInv'
<1>1. PICK x : x.op \in {"begin", "end"} /\ Calls(p, <<x>>) /\ UNCHANGED <<asked, toneVars>>
  <2>1. CASE CallNoTone(p)
    <3>1. Other("end", 0).op = "end"
      BY OpsOf
    <3>2. QED
      BY <2>1, <3>1 DEF CallNoTone
  <2>2. ASSUME NEW asTone, CallTone(p, asTone)
        PROVE  \E x : x.op \in {"begin", "end"} /\ Calls(p, <<x>>) /\ UNCHANGED <<asked, toneVars>>
    <3>1. Other("begin", asTone).op = "begin"
      BY OpsOf
    <3>2. QED
      BY <2>2, <3>1 DEF CallTone
  <2>3. QED
    BY <2>1, <2>2
<1>2. /\ Free /\ script' = <<x>> /\ pin' = p /\ answer' = <<>>
      /\ reg' = reg /\ ocr' = ocr /\ asked' = asked
  BY <1>1, CallIs
<1>3. ~IsStore(x) /\ x.op # "convert" /\ x.op \notin TimerOps
  BY <1>1 DEF IsStore, TimerOps
<1>4. /\ InOrder(script', p) /\ Whole(script') /\ Items(script') = {x}
  BY <1>2, <1>3, OneInOrder
<1>5. Fits(x)'
  BY <1>1, <1>2, <1>3 DEF Fits, TimerOps
<1>6. QED
  BY <1>1, <1>2, <1>3, <1>4, <1>5, AsksNothing

-----------------------------------------------------------------------------
(* tone and noTone look at tone_pins *)

LEMMA LookIsFree ==
    ASSUME Inv, PinInv, ~Idle, Head(script).op \in {"begin", "end"}
    PROVE  /\ Free /\ Tail(script) = <<>> /\ answer = <<>>
           /\ "tone" \in use /\ pin \in TonePins /\ pin \in Pins \ HandlerPins /\ pin # NoPin
<1>1. Deciding
  BY NextAccess DEF Inv, Phase, WiringOps
<1>2. PICK x : script = <<x>>
  BY <1>1 DEF Deciding
<1>3. Head(script) = x /\ Tail(script) = <<>>
  BY <1>2, Tuples
<1>4. Items(script) = {x}
  BY <1>2, OneInOrder
<1>5. "tone" \in use /\ pin \in TonePins
  BY HeadFits DEF Fits
<1>6. answer = <<>>
  BY DEF PinInv, Answers
<1>7. QED
  BY <1>3, <1>4, <1>5, <1>6, PinNumbers DEF Free

\* What tone() writes when its pin sounds already.
LEMMA StartFits ==
    ASSUME NEW p \in TonePins, NEW asTone, pin' = p, tone_pins' = p, sounding' = asTone,
           "tone" \in use', asked'[p].out = TRUE
    PROVE  /\ \A x \in StartItems(p, asTone) :
                  Fits(x)' /\ x.op \notin {"write", "tone_pin", "duty"}
           /\ \E x \in StartItems(p, asTone) :
                  IsStore(x) /\ x.reg = Mode(p) /\ x.bits = {p}
           /\ \E x \in StartItems(p, asTone) : x.op = "top"
           /\ \E x \in StartItems(p, asTone) : x.op = "compare_interrupt"
<1> DEFINE y == Access("set", Mode(p), {p}, 0)
<1>1. p \in Pins /\ p # NoPin
  BY PinNumbers
<1>2. Fits(y)' /\ IsStore(y) /\ y.reg = Mode(p) /\ y.bits = {p} /\ y.op = "set"
  <2>1. PICK out \in BOOLEAN : out = TRUE
    OBVIOUS
  <2>2. Access(IF out THEN "set" ELSE "clear", Mode(p), {p}, 0) = y
    BY <2>1
  <2>3. asked'[p].out = out
    BY <2>1
  <2>4. Fits(y)' /\ IsStore(y) /\ y.reg = Mode(p) /\ y.bits = {p}
    BY <1>1, <2>2, <2>3, ModeFits
  <2>5. QED
    BY <2>4, AccessIs
<1>3. StartItems(p, asTone) = Section \cup {Loads(Mode(p)), y} \cup SetsTone(asTone)
  BY DEF StartItems
<1> HIDE DEF y
<1>4. TopAsked' = Top(asTone.frequency, Prescaler(asTone.frequency)) % 256
  BY DEF TopAsked, Divisor
<1>5. ASSUME NEW x \in SetsTone(asTone)
      PROVE  Fits(x)' /\ x.op \notin {"write", "tone_pin", "duty"}
  <2>1. /\ x.op \in {"prescale", "top", "count", "compare_interrupt"}
        /\ x.op = "top" => x.arg = TopAsked'
        /\ x.op = "compare_interrupt" => x.arg = TRUE
    BY <1>4, SetsToneOps
  <2>2. QED
    BY <1>1, <2>1 DEF Fits, IsStore, TimerOps
<1>6. /\ \E x \in SetsTone(asTone) : x.op = "top"
      /\ \E x \in SetsTone(asTone) : x.op = "compare_interrupt"
  BY OpsOf DEF SetsTone
<1>7. \A x \in Section \cup {Loads(Mode(p))} :
          Fits(x)' /\ x.op \notin {"write", "tone_pin", "duty"}
  BY AccessIs, QuietFits
<1>8. QED
  BY <1>2, <1>3, <1>5, <1>6, <1>7

\* And before that, when the timer has been free.
LEMMA SetupFits ==
    ASSUME NEW p \in TonePins, pin' = p, tone_pins' = p, "tone" \in use'
    PROVE  /\ \A x \in SetupItems : Fits(x)'
           /\ \E x \in SetupItems : ModeStore(x)
           /\ \E x \in SetupItems : x.op = "write"
           /\ \E x \in SetupItems : x.op = "tone_pin"
<1> DEFINE a == Access("write", "TCCR2A", {}, 0)
           b == Other("prescale", 0)
           c == Loads("TCCR2A")
           d == Access("set", "TCCR2A", {WGM21}, 0)
           e == Other("prescale", 1)
           f == Other("tone_pin", 0)
<1>1. SetupItems = {a, b, c, d, e, f}
  BY DEF SetupItems
<1>2. /\ a.op = "write" /\ a.reg = "TCCR2A" /\ a.bits = {}
      /\ d.op = "set" /\ d.reg = "TCCR2A" /\ d.bits = {WGM21} /\ c.op = "load"
  BY AccessIs
<1>3. b.op = "prescale" /\ e.op = "prescale" /\ f.op = "tone_pin"
  BY OpsOf
<1> HIDE DEF a, b, c, d, e, f
<1>4. p # NoPin
  BY PinNumbers
<1>5. ModeStore(d) /\ Fits(d)'
  BY <1>2 DEF ModeStore, Fits, TimerOps
<1>6. Fits(a)'
  BY <1>2, <1>4 DEF Fits, TimerOps, IsStore
<1>7. Fits(b)' /\ Fits(e)' /\ Fits(f)'
  BY <1>3 DEF Fits, TimerOps, IsStore
<1>8. Fits(c)'
  BY <1>2, QuietFits
<1>9. QED
  BY <1>1, <1>2, <1>3, <1>5, <1>6, <1>7, <1>8

LEMMA BeginSettles ==
    ASSUME Inv, PinInv, toneBegin, UNCHANGED use
    PROVE  PinInv'
<1>1. /\ ~Idle /\ Head(script).op = "begin" /\ pin' = pin /\ answer' = answer
      /\ reg' = reg /\ ocr' = ocr /\ timer2_pin' = timer2_pin /\ OCIE2A' = OCIE2A
      /\ prescaler2' = prescaler2
  BY DEF toneBegin, hardware
<1>2. /\ Free /\ Tail(script) = <<>> /\ answer = <<>>
      /\ "tone" \in use /\ pin \in TonePins /\ pin \in Pins /\ pin # NoPin
  BY <1>1, LookIsFree
<1> PICK p : p = pin
  OBVIOUS
<1>3. /\ tone_pins = NoPin => ~OCIE2A
      /\ tone_pins # NoPin => /\ OCIE2A /\ Wgm = {WGM21} /\ timer2_pin = tone_pins
  BY <1>2, Settled
<1>4. Wgm' = Wgm
  BY <1>1 DEF Wgm
<1>5. ASSUME NEW asTone, asked' = [asked EXCEPT ![pin].out = TRUE], sounding' = asTone,
             tone_pins' = pin, tone_pins \in {pin, NoPin},
             IF tone_pins = pin THEN script' = Start(pin, asTone)
                                ELSE script' = Setup \o Start(pin, asTone)
      PROVE  PinInv'
  <2>1. /\ asked' \in [Pins -> [out : BOOLEAN, high : BOOLEAN, duty : Int]]
        /\ asked'[pin].out = TRUE /\ asked'[pin].high = asked[pin].high
        /\ asked'[pin].duty = asked[pin].duty /\ \A q \in Pins \ {pin} : asked'[q] = asked[q]
    BY <1>2, <1>5 DEF PinInv, PinTypes
  <2>2. About(p)
    BY <1>1, <1>2, <2>1 DEF About
  <2>3. /\ \A x \in StartItems(pin, asTone) :
               Fits(x)' /\ x.op \notin {"write", "tone_pin", "duty"}
        /\ \E x \in StartItems(pin, asTone) :
               IsStore(x) /\ x.reg = Mode(pin) /\ x.bits = {pin}
        /\ \E x \in StartItems(pin, asTone) : x.op = "top"
        /\ \E x \in StartItems(pin, asTone) : x.op = "compare_interrupt"
    BY <1>1, <1>2, <1>5, <2>1, StartFits
  <2>4. /\ \A x \in SetupItems : Fits(x)'
        /\ \E x \in SetupItems : ModeStore(x)
        /\ \E x \in SetupItems : x.op = "write"
        /\ \E x \in SetupItems : x.op = "tone_pin"
    BY <1>1, <1>2, <1>5, SetupFits
  <2>5. Divisor' = Prescaler(asTone.frequency)
    BY <1>5 DEF Divisor
  <2>6. /\ InOrder(script', pin) /\ Whole(script') /\ LastDivisor(script', Divisor')
        /\ Items(script') = StartItems(pin, asTone) \cup IF tone_pins = pin THEN {} ELSE SetupItems
    <3>1. CASE tone_pins = pin
      BY <1>5, <2>5, <3>1, StartInOrder
    <3>2. CASE tone_pins # pin
      BY <1>2, <1>5, <2>5, <3>2, SetupInOrder
    <3>3. QED
      BY <3>1, <3>2
  <2>7. \A x \in Items(script') : Fits(x)'
    BY <2>3, <2>4, <2>6
  <2>8. /\ Stores(script', Mode(pin), pin) /\ Has(script', "top")
        /\ Has(script', "compare_interrupt")
    BY <2>3, <2>6 DEF Stores, Has
  <2>9. tone_pins = pin => ~Has(script', "write") /\ ~Has(script', "tone_pin")
    BY <2>3, <2>6 DEF Has
  <2>10. tone_pins # pin => /\ Has(script', "write") /\ Has(script', "tone_pin")
                            /\ \E x \in Items(script') : ModeStore(x)
    BY <2>4, <2>6 DEF Has
  <2>11. WillBe(p)'
    <3>1. ConnectedIs(p) /\ DutyIs(p)
      BY <1>2, Settled
    <3>2. ConnectedIs(p)' /\ DutyIs(p)'
      BY <1>1, <2>1, <3>1 DEF ConnectedIs, DutyIs
    <3>3. QED
      BY <1>1, <1>5, <2>8, <3>2 DEF WillBe
  <2>12. Sounds'
    BY <1>1, <1>2, <1>3, <1>4, <1>5, <2>6, <2>8, <2>9, <2>10 DEF Sounds, DivisorSettles
  <2>13. TogglesItsPin' /\ (Has(script', "tone_pin") => ~OCIE2A')
    BY <1>1, <1>2, <1>3, <1>5, <2>9 DEF TogglesItsPin
  <2>14. OCR2A \in Pins => asked'[OCR2A].duty = 0
    BY <1>2, <2>1 DEF PinInv, TimerSettles
  <2>15. TimerSettles'
    BY <1>2, <1>5, <2>12, <2>13, <2>14 DEF TimerSettles
  <2>16. QED
    BY <1>2, <1>5, <2>2, <2>6, <2>7, <2>11, <2>15, CallBegins
<1>6. ASSUME script' = Tail(script), UNCHANGED <<asked, sounding, tone_pins>>
      PROVE  PinInv'
  <2>1. script' = <<>> /\ asked' = asked
    BY <1>2, <1>6
  <2>2. /\ InOrder(script', pin) /\ Whole(script') /\ Items(script') = {}
    BY <2>1, NoneInOrder DEF Plain
  <2>3. Answers' /\ Loaded' /\ AllFit'
    BY <1>1, <1>2, <2>1, <2>2 DEF Answers, Loaded, AllFit, Idle
  <2>4. Later /\ SameCall /\ SameTimer
    BY <1>1, <1>6 DEF Later, SameCall, SameTimer
  <2>5. QED
    BY <1>1, <2>4, OthersSettle DEF WiringOps
<1>7. QED
  BY <1>5, <1>6, <1>2 DEF toneBegin

LEMMA EndSettles ==
    ASSUME Inv, PinInv, noTone, UNCHANGED use
    PROVE  PinInv'
<1>1. /\ ~Idle /\ Head(script).op = "end" /\ pin' = pin /\ answer' = answer
      /\ reg' = reg /\ ocr' = ocr /\ timer2_pin' = timer2_pin /\ OCIE2A' = OCIE2A
      /\ prescaler2' = prescaler2 /\ sounding' = sounding
  BY DEF noTone, hardware
<1>2. /\ Free /\ answer = <<>> /\ "tone" \in use /\ pin \in TonePins
      /\ pin \in Pins \ HandlerPins /\ pin \in Pins /\ pin # NoPin
  BY <1>1, LookIsFree
<1> PICK p : p = pin
  OBVIOUS
<1>3. PICK high \in BOOLEAN : high = FALSE
  OBVIOUS
<1>4. Asks(pin, asked[pin].out, high, 0)
  <2>1. Asks(pin, asked[pin].out, FALSE, 0)
    BY DEF noTone
  <2>2. QED
    BY <1>3, <2>1, Zenon
<1>5. /\ AskedAre' /\ asked'[pin].out = asked[pin].out /\ asked'[pin].high = high
      /\ asked'[pin].duty = 0 /\ \A q \in Pins \ {pin} : asked'[q] = asked[q]
  <2>1. asked[pin].out \in BOOLEAN
    BY <1>2 DEF PinInv, PinTypes
  <2>2. QED
    BY <1>2, <1>3, <1>4, <2>1, AsksAbout
<1>6. digitalWrite(pin, FALSE) = digitalWrite(pin, high) /\ Drives(pin, FALSE) = Drives(pin, high)
  BY <1>3, Zenon
<1>7. CASE tone_pins # pin
  <2>1. script' = digitalWrite(pin, high) /\ UNCHANGED toneVars
    <3>1. script' = digitalWrite(pin, FALSE) /\ UNCHANGED toneVars
      BY <1>7 DEF noTone, toneVars
    <3>2. QED
      BY <1>6, <3>1
  <2>2. QED
    BY <1>1, <1>2, <1>4, <2>1, WriteBegins
<1>8. CASE tone_pins = pin
  <2>1. tone_pins' = NoPin /\ script' = disableTimer \o digitalWrite(pin, FALSE)
    BY <1>8 DEF noTone
  <2>2. /\ InOrder(script', pin) /\ Whole(script') /\ LastDivisor(script', 64)
        /\ Items(script') = DisableItems \cup Disconnects(pin) \cup Section \cup Drives(pin, high)
    BY <1>2, <1>6, <2>1, DisableInOrder
  <2>3. /\ \A x \in Drives(pin, high) : Fits(x)' /\ x.op \notin TimerOps
        /\ \E x \in Drives(pin, high) : IsStore(x) /\ x.reg = Output(pin) /\ x.bits = {pin}
    BY <1>1, <1>2, <1>5, DrivesFits
  <2>4. /\ \A x \in Disconnects(pin) : Fits(x)' /\ x.op \notin TimerOps
        /\ OnTimer(pin) => \E x \in Disconnects(pin) :
                               IsStore(x) /\ x.reg = Timer(pin) /\ x.bits = {pin}
    BY <1>1, <1>2, <1>5, DisconnectsFits
  <2>5. /\ \A x \in DisableItems : Fits(x)' /\ x.op # "tone_pin"
        /\ \E x \in DisableItems : x.op = "compare_interrupt"
        /\ \E x \in DisableItems : x.op = "write"
    <3> DEFINE a == Other("compare_interrupt", FALSE)
               b == Access("write", "TCCR2A", {WGM20}, 0)
               c == Other("prescale", 64)
               d == Other("top", 0)
    <3>1. DisableItems = {a, b, c, d}
      BY DEF DisableItems
    <3>2. /\ a.op = "compare_interrupt" /\ a.arg = FALSE
          /\ c.op = "prescale" /\ d.op = "top"
      BY OpsOf
    <3>3. b.op = "write" /\ b.reg = "TCCR2A" /\ b.bits = {WGM20}
      BY AccessIs
    <3> HIDE DEF a, b, c, d
    <3>4. Fits(a)'
      BY <1>1, <1>2, <2>1, <3>2 DEF Fits, TimerOps, IsStore
    <3>5. Fits(b)'
      BY <1>1, <1>2, <2>1, <3>3 DEF Fits, TimerOps, IsStore
    <3>6. Fits(c)' /\ Fits(d)'
      BY <1>1, <1>2, <2>1, <3>2 DEF Fits, TimerOps, IsStore
    <3>7. QED
      BY <3>1, <3>2, <3>3, <3>4, <3>5, <3>6
  <2>6. \A x \in Items(script') : Fits(x)' /\ x.op # "tone_pin"
    BY <2>2, <2>3, <2>4, <2>5, AccessIs, QuietFits DEF TimerOps
  <2>7. /\ Stores(script', Output(pin), pin) /\ (OnTimer(pin) => Stores(script', Timer(pin), pin))
        /\ Has(script', "compare_interrupt") /\ Has(script', "write")
        /\ ~Has(script', "tone_pin")
    BY <2>2, <2>3, <2>4, <2>5, <2>6 DEF Stores, Has
  <2>8. WillBe(p)'
    <3>1. OutIs(p)
      BY <1>2, Settled
    <3>2. OutIs(p)' /\ DutyIs(p)' /\ (~OnTimer(p) => ConnectedIs(p)')
      BY <1>1, <1>5, <3>1 DEF OutIs, DutyIs, ConnectedIs
    <3>3. QED
      BY <1>1, <2>7, <3>2 DEF WillBe
  <2>9. OCIE2A => timer2_pin = pin
    BY <1>2, <1>8, Settled
  <2>10. IsSilent'
    BY <2>2, <2>7 DEF IsSilent, DivisorSettles
  <2>11. TogglesItsPin'
    BY <1>1, <1>2, <2>1, <2>7, <2>9 DEF TogglesItsPin
  <2>12. OCR2A \in Pins => asked'[OCR2A].duty = 0
    BY <1>2, <1>5 DEF PinInv, TimerSettles
  <2>13. TimerSettles'
    BY <2>1, <2>7, <2>10, <2>11, <2>12 DEF TimerSettles
  <2>14. About(p)
    BY <1>1, <1>2, <1>5 DEF About, AskedAre
  <2>15. QED
    BY <1>2, <1>8, <2>1, <2>2, <2>6, <2>8, <2>13, <2>14, CallBegins
<1>9. QED
  BY <1>7, <1>8

-----------------------------------------------------------------------------
(* Everything else that the program does *)

LEMMA PinInvStays ==
    ASSUME PinInv,
           UNCHANGED <<reg, ocr, script, copy, pin, answer, adc, analog_reference, asked,
                       toneVars, use>>
    PROVE  PinInv'
<1>1. /\ reg' = reg /\ ocr' = ocr /\ script' = script /\ copy' = copy /\ pin' = pin
      /\ answer' = answer /\ adc' = adc /\ analog_reference' = analog_reference
      /\ asked' = asked /\ use' = use
      /\ tone_pins' = tone_pins /\ timer2_pin' = timer2_pin /\ OCIE2A' = OCIE2A
      /\ prescaler2' = prescaler2 /\ sounding' = sounding
  BY DEF toneVars
<1>2. PinTypes' /\ InOrder(script', pin') /\ Loaded' /\ Answers'
  BY <1>1 DEF PinInv, PinTypes, Loaded, Answers, Idle
<1>3. \A x : Fits(x)' <=> Fits(x)
  BY <1>1, FitsStay DEF SameCall
<1>4. AllFit'
  BY <1>1, <1>3 DEF PinInv, AllFit
<1>5. PinsSettle'
  BY <1>1 DEF PinInv, PinsSettle, OutIs, HighIs, ConnectedIs, DutyIs
<1>6. Wgm' = Wgm /\ Divisor' = Divisor /\ TopAsked' = TopAsked
  BY <1>1 DEF Wgm, TopAsked, Divisor
<1>7. TimerSettles'
  BY <1>1, <1>6 DEF PinInv, TimerSettles, IsSilent, Sounds, TogglesItsPin
<1>8. QED
  BY <1>2, <1>4, <1>5, <1>7 DEF PinInv

\* The calls that have nothing to do with the pins' registers.
LEMMA OtherCallSettles ==
    ASSUME PinInv, NEW p, NEW S, NEW s \in Seq(S), Calls(p, s),
           \A x \in S : x.op \notin WiringOps \cup {"begin", "end"},
           UNCHANGED <<asked, toneVars, use>>
    PROVE  PinInv'
<1>1. /\ Free /\ script' = s /\ pin' = p /\ answer' = <<>>
      /\ reg' = reg /\ ocr' = ocr /\ asked' = asked
  BY CallIs
<1>2. s \in Seq(Items(s)) /\ Items(s) \subseteq S
  BY SeqOfItems
<1>3. \A i \in 1 .. Len(s) : s[i] \in S
  BY ElementOfSeq
<1>4. \A x \in S : /\ ~IsStore(x) /\ x.op \notin TimerOps \cup {"duty", "read", "convert", "admux"}
                   /\ x.op \notin {"begin", "end"}
  BY DEF IsStore, TimerOps, WiringOps
<1>5. ASSUME NEW x \in S PROVE Fits(x)'
  <2>1. /\ ~IsStore(x) /\ x.op \notin TimerOps /\ x.op \notin {"begin", "end"}
        /\ x.op \notin {"duty", "read", "admux"}
    BY <1>4
  <2>2. x.op \notin {"write", "top", "compare_interrupt"}
    BY <2>1 DEF TimerOps
  <2>3. QED
    BY <2>1, <2>2 DEF Fits
<1>6. Paired(s) /\ LooksLast(s)
  BY <1>3, <1>4 DEF Paired, LooksLast
<1>7. TimerInOrder(s, p)
  BY <1>3, <1>4 DEF TimerInOrder, TimerOps
<1>8. Whole(s)
  <2>1. s # <<>> => 1 \in 1 .. Len(s)
    BY EmptySeq, LenProperties
  <2>2. QED
    BY <1>2, <1>3, <1>4, <2>1 DEF Whole
<1>9. InOrder(script', p) /\ Whole(script')
  BY <1>1, <1>2, <1>6, <1>7, <1>8 DEF InOrder
<1>10. QED
  BY <1>1, <1>2, <1>4, <1>5, <1>9, AsksNothing

LEMMA ExternalCallSettles ==
    ASSUME PinInv, ExternalCalls, UNCHANGED use
    PROVE  PinInv'
<1>1. ASSUME NEW n, NEW f, NEW op \in {"enable", "disable"}
      PROVE  LET S == {Half(n, 1, f), Half(n, 2, f), Other(op, n)} IN
             /\ <<Half(n, 1, f), Half(n, 2, f), Other(op, n)>> \in Seq(S)
             /\ <<Other(op, n), Half(n, 1, f), Half(n, 2, f)>> \in Seq(S)
             /\ \A x \in S : x.op \notin WiringOps \cup {"begin", "end"}
  <2> DEFINE a == Half(n, 1, f)
             b == Half(n, 2, f)
             c == Other(op, n)
  <2>1. a.op = "pointer" /\ b.op = "pointer" /\ c.op = op
    BY OpsOf
  <2> HIDE DEF a, b, c
  <2>2. /\ <<a, b, c>> \in Seq({a, b, c}) /\ <<c, a, b>> \in Seq({a, b, c})
        /\ \A x \in {a, b, c} : x.op \notin WiringOps \cup {"begin", "end"}
    BY <2>1 DEF WiringOps
  <2>3. QED
    BY <2>2 DEF a, b, c
<1>2. ASSUME NEW n \in Lines, NEW f \in UserFuncs, CallAttachInterrupt(n, f)
      PROVE  PinInv'
  <2>1. PICK op \in {"enable", "disable"} : op = "enable"
    OBVIOUS
  <2>2. Calls(n + 2, <<Half(n, 1, f), Half(n, 2, f), Other(op, n)>>)
        /\ UNCHANGED <<asked, toneVars, use>>
    BY <1>2, <2>1 DEF CallAttachInterrupt, ExternalCalls
  <2> DEFINE S == {Half(n, 1, f), Half(n, 2, f), Other(op, n)}
             s == <<Half(n, 1, f), Half(n, 2, f), Other(op, n)>>
  <2>3. s \in Seq(S) /\ \A x \in S : x.op \notin WiringOps \cup {"begin", "end"}
    BY <1>1
  <2> HIDE DEF S, s
  <2>4. QED
    BY <2>2, <2>3, OtherCallSettles DEF s
<1>3. ASSUME NEW n \in Lines, CallDetachInterrupt(n)
      PROVE  PinInv'
  <2>1. PICK op \in {"enable", "disable"} : op = "disable"
    OBVIOUS
  <2>2. Calls(n + 2, <<Other(op, n), Half(n, 1, nothing), Half(n, 2, nothing)>>)
        /\ UNCHANGED <<asked, toneVars, use>>
    BY <1>3, <2>1 DEF CallDetachInterrupt, ExternalCalls
  <2> DEFINE S == {Half(n, 1, nothing), Half(n, 2, nothing), Other(op, n)}
             s == <<Other(op, n), Half(n, 1, nothing), Half(n, 2, nothing)>>
  <2>3. s \in Seq(S) /\ \A x \in S : x.op \notin WiringOps \cup {"begin", "end"}
    BY <1>1
  <2> HIDE DEF S, s
  <2>4. QED
    BY <2>2, <2>3, OtherCallSettles DEF s
<1>4. QED
  BY <1>2, <1>3 DEF ExternalCalls

LEMMA SpiCallSettles ==
    ASSUME PinInv, Inv, SpiCalls, UNCHANGED <<toneVars, use>>
    PROVE  PinInv'
<1> DEFINE cli == Other("cli", 0)
           sei == Other("sei", 0)
           Spare(s) == \E S : /\ s \in Seq(S)
                              /\ \A x \in S : x.op \notin WiringOps \cup {"begin", "end"}
<1>1. cli.op = "cli" /\ sei.op = "sei"
  BY OpsOf
<1>2. ASSUME NEW x, x.op \notin WiringOps \cup {"begin", "end"}
      PROVE  Spare(Protected(<<x>>)) /\ Spare(<<cli, x>>)
  <2> DEFINE S == {cli, x, sei}
  <2> HIDE DEF cli, sei
  <2>1. \A y \in S : y.op \notin WiringOps \cup {"begin", "end"}
    BY <1>1, <1>2 DEF WiringOps
  <2>2. <<cli>> \in Seq(S) /\ <<x>> \in Seq(S) /\ <<sei>> \in Seq(S) /\ <<cli, x>> \in Seq(S)
    OBVIOUS
  <2> HIDE DEF S
  <2>3. (<<cli>> \o <<x>>) \o <<sei>> \in Seq(S)
    BY <2>2, ConcatProperties
  <2>4. Protected(<<x>>) = (<<cli>> \o <<x>>) \o <<sei>>
    BY DEF Protected, cli, sei
  <2>5. QED
    BY <2>1, <2>2, <2>3, <2>4
<1>3. Spare(<<>>)
  <2>1. PICK S : S = {}
    OBVIOUS
  <2>2. <<>> \in Seq(S) /\ \A x \in S : x.op \notin WiringOps \cup {"begin", "end"}
    BY <2>1, EmptySeq
  <2>3. QED
    BY <2>2
<1>4. \A op \in {"spi_begin", "spi_end", "using", "not_using", "save_mask", "save_sreg",
                 "restore_mask", "restore_sreg"} : \A arg :
          Other(op, arg).op \notin WiringOps \cup {"begin", "end"}
  BY OpsOf DEF WiringOps
<1>5. Spare(beginTransaction) /\ Spare(endTransaction)
  <2>1. interruptMode \in {"none", "mask", "global"}
    BY DEF Inv, TypeOK
  <2>2. CASE interruptMode = "none"
    BY <1>3, <2>2 DEF beginTransaction, endTransaction
  <2>3. CASE interruptMode = "mask"
    BY <1>2, <1>4, <2>3 DEF beginTransaction, endTransaction
  <2>4. CASE interruptMode = "global"
    BY <1>2, <1>4, <2>4 DEF beginTransaction, endTransaction
  <2>5. QED
    BY <2>1, <2>2, <2>3, <2>4
<1>6. \E s : SpiCall(s) /\ Spare(s)
  <2>1. ASSUME NEW op \in {"spi_begin", "spi_end", "using", "not_using"}, NEW arg
        PROVE  Spare(Protected(<<Other(op, arg)>>))
    BY <1>2, <1>4
  <2> HIDE DEF Spare
  <2>2. CallSpiBegin \/ CallSpiEnd => \E s : SpiCall(s) /\ Spare(s)
    BY <2>1 DEF CallSpiBegin, CallSpiEnd
  <2>3. \A n : CallUsingInterrupt(n) \/ CallNotUsingInterrupt(n) => \E s : SpiCall(s) /\ Spare(s)
    BY <2>1 DEF CallUsingInterrupt, CallNotUsingInterrupt
  <2>4. CallBeginTransaction \/ CallEndTransaction => \E s : SpiCall(s) /\ Spare(s)
    BY <1>5 DEF CallBeginTransaction, CallEndTransaction
  <2>5. QED
    BY <2>2, <2>3, <2>4 DEF SpiCalls
<1>7. PICK s, S : /\ SpiCall(s) /\ s \in Seq(S)
                  /\ \A x \in S : x.op \notin WiringOps \cup {"begin", "end"}
  BY <1>6
<1>8. QED
  BY <1>7, OtherCallSettles DEF SpiCall

\* A pin on which analogWrite and a tone use the same register of timer 2 is not
\* used for both.
TopIsFree == \A u \in Programs : {"tone", "pwm"} \subseteq u => OCR2A \notin ProgramPins

LEMMA WiringCallsSettle ==
    ASSUME PinInv, TopIsFree, WiringCalls, UNCHANGED use
    PROVE  PinInv'
<1>1. UNCHANGED <<toneVars, use>> /\ use \in Programs
  BY DEF WiringCalls, PinInv, PinTypes
<1>2. ASSUME NEW p \in ProgramPins \cup HandlerPins,
             NEW mode \in {"INPUT", "INPUT_PULLUP", "OUTPUT"}, CallPinMode(p, mode)
      PROVE  PinInv'
  BY <1>1, <1>2, PinNumbers, PinModeSettles
<1>3. ASSUME NEW p \in ProgramPins, NEW high \in BOOLEAN, CallDigitalWrite(p, high)
      PROVE  PinInv'
  BY <1>1, <1>3, PinNumbers, DigitalWriteSettles
<1>4. ASSUME NEW p \in ProgramPins, CallDigitalRead(p) PROVE PinInv'
  BY <1>1, <1>4, PinNumbers, DigitalReadSettles
<1>5. ASSUME NEW p \in ProgramPins, NEW val \in Duties, "pwm" \in use, CallAnalogWrite(p, val)
      PROVE  PinInv'
  <2>1. val \in 0 .. 255 /\ p \in Pins \ HandlerPins
    BY PinsAssumption, PinNumbers
  <2>2. p = OCR2A => "tone" \notin use
    BY <1>1, <1>5 DEF TopIsFree
  <2>3. QED
    BY <1>1, <1>5, <2>1, <2>2, AnalogWriteSettles
<1>6. ASSUME NEW p, CallAnalogRead(p) PROVE PinInv'
  BY <1>1, <1>6, AnalogReadSettles
<1>7. ASSUME NEW mode, analogReference(mode) PROVE PinInv'
  BY <1>1, <1>7, ReferenceSettles
<1>8. QED
  BY <1>2, <1>3, <1>4, <1>5, <1>6, <1>7 DEF WiringCalls

LEMMA LedSettles == ASSUME PinInv, Led, UNCHANGED use PROVE PinInv'
<1>1. UNCHANGED <<toneVars, use>>
  BY DEF Led
<1>2. UNCHANGED pinVars => PinInv'
  BY <1>1, PinInvStays DEF pinVars, program, hardware
<1>3. ASSUME NEW high \in BOOLEAN, CallDigitalWrite(LedPin, high) PROVE PinInv'
  BY <1>1, <1>3, PinNumbers, DigitalWriteSettles
<1>4. UNCHANGED pinVars \/ \E high \in BOOLEAN : CallDigitalWrite(LedPin, high)
  <2>1. ASSUME NEW onNew, NEW offNew, t(onNew, offNew) PROVE UNCHANGED pinVars
    BY <2>1 DEF t
  <2>2. keepFlashing => UNCHANGED pinVars
    BY DEF keepFlashing
  <2>3. ASSUME NEW n, stopAfter(n) PROVE UNCHANGED pinVars
    BY <2>3 DEF stopAfter
  <2>4. ASSUME NEW high, onOff(high) PROVE CallDigitalWrite(LedPin, high)
    BY <2>4 DEF onOff
  <2>5. update => UNCHANGED pinVars \/ CallDigitalWrite(LedPin, TRUE)
                      \/ CallDigitalWrite(LedPin, FALSE)
    BY DEF update, TurnOff, TurnOn, StayAsIs
  <2>6. QED
    BY <2>1, <2>2, <2>3, <2>4, <2>5 DEF Led, LedCalls
<1>5. QED
  BY <1>2, <1>3, <1>4

LEMMA StepSettles == ASSUME Inv, PinInv, Step, UNCHANGED use PROVE PinInv'
<1>1. CASE PinsStep /\ UNCHANGED toneVars
  <2>1. CASE DisableInterrupts \/ RestoreInterrupts
    <3>1. /\ Later /\ SameCall /\ SameTimer /\ UNCHANGED <<reg, ocr, answer>>
          /\ Head(script).op \in {"cli", "sei"}
      BY <1>1, <2>1 DEF DisableInterrupts, RestoreInterrupts, Does, Later, SameCall, SameTimer,
                        toneVars
    <3>2. QED
      BY <3>1, OthersSettle DEF WiringOps
  <2>2. QED
    BY <1>1, <2>1, LoadSettles, StoreSettles, DutySettles, ReadSettles, SelectSettles,
       ConvertSettles DEF PinsStep
<1>2. CASE ToneStep
  BY <1>2, BeginSettles, EndSettles, WriteSettles, SettingSettles DEF ToneStep
<1>3. CASE ExternalStep /\ UNCHANGED toneVars
  <2>1. /\ Later /\ SameCall /\ SameTimer /\ UNCHANGED <<reg, ocr, answer>>
        /\ Head(script).op \in {"pointer", "enable", "disable"}
    BY <1>3 DEF ExternalStep, StorePointer, SetMask, Does, Later, SameCall, SameTimer,
                toneVars, hardware
  <2>2. QED
    BY <2>1, OthersSettle DEF WiringOps
<1>4. CASE SpiStep /\ UNCHANGED toneVars
  <2>1. /\ SameCall /\ SameTimer /\ UNCHANGED <<reg, ocr, answer>> /\ pin' = pin
    BY <1>4 DEF SpiStep, SameCall, SameTimer, toneVars
  <2>2. /\ Later
        /\ Head(script).op \in {"spi_begin", "spi_end", "using", "not_using", "save_mask",
                                "save_sreg", "restore_mask", "restore_sreg"}
    BY <1>4, <2>1 DEF SpiStep, CountBegins, CountEnds, usingInterrupt, notUsingInterrupt,
          MaskInterrupts, UnmaskInterrupts, KeepInterruptsOff, LetInterruptsOn, Does, Later
  <2>3. QED
    BY <2>1, <2>2, OthersSettle DEF WiringOps
<1>5. QED
  BY <1>1, <1>2, <1>3, <1>4 DEF Step

LEMMA ProgramSettles ==
    ASSUME Inv, PinInv, TopIsFree, Program
    PROVE  PinInv'
<1>1. UNCHANGED use
  BY DEF Program
<1>2. CASE ToneCalls
  <2>1. "tone" \in use /\ \E p \in TonePins :
            CallNoTone(p) \/ \E asTone \in Tones : CallTone(p, asTone)
    BY <1>2 DEF ToneCalls
  <2>2. QED
    BY <1>1, <2>1, ToneCallSettles
<1>3. QED
  BY <1>1, <1>2, WiringCallsSettle, LedSettles, ExternalCallSettles, SpiCallSettles, StepSettles
     DEF Program, Spi

-----------------------------------------------------------------------------
(* The handlers *)

\* Outside of protected sections only the registers of the timers are stored to.
LEMMA StoreIsHeld ==
    ASSUME Inv, ~Idle, IsStore(Head(script)), interrupts
    PROVE  Head(script).reg \in TimerRegisters
<1>1. Head(script).op \in {"set", "clear"}
  BY DEF IsStore
<1>2. Wiring
  BY <1>1, NextAccess DEF Inv, Phase
<1>3. PICK a, b \in Sides : Leads(Head(script), a, b) /\ InterruptsAre(a)
  BY <1>2, WiringRunsOn
<1>4. a = "free"
  BY <1>3 DEF InterruptsAre, Sides
<1>5. QED
  BY <1>1, <1>3, <1>4 DEF Leads, Anywhere, IsStore

\* Only the level of p changes.
LEMMA LevelSettles ==
    ASSUME Inv, PinInv, interrupts, NEW p \in Pins,
           reg' \in [Registers -> SUBSET Int],
           \A r \in Registers : \A q :
               r # Output(p) \/ q # p => (q \in reg'[r] <=> q \in reg[r]),
           UNCHANGED <<ocr, adc, program, tone_pins, timer2_pin, OCIE2A, prescaler2>>,
           UNCHANGED <<sounding, use>>,
           asked' \in [Pins -> [out : BOOLEAN, high : BOOLEAN, duty : Int]],
           \A q \in Pins : /\ asked'[q].out = asked[q].out /\ asked'[q].duty = asked[q].duty
                           /\ (q = p /\ q \in HandlerPins) \/ asked'[q].high = asked[q].high,
           HighIs(p)' \/ Stores(script, Output(p), p) \/ p = tone_pins
    PROVE  PinInv'
<1>1. /\ script' = script /\ copy' = copy /\ pin' = pin /\ answer' = answer
      /\ analog_reference' = analog_reference /\ adc' = adc /\ ocr' = ocr /\ use' = use
      /\ tone_pins' = tone_pins /\ timer2_pin' = timer2_pin /\ OCIE2A' = OCIE2A
      /\ prescaler2' = prescaler2 /\ sounding' = sounding
  BY DEF program
<1>2. \A r \in TimerRegisters : r \in Registers /\ reg'[r] = reg[r]
  <2>1. ASSUME NEW r \in TimerRegisters PROVE r \in Registers /\ reg'[r] = reg[r]
    <3>1. r \in Registers /\ r # Output(p)
      BY RegistersOf
    <3>2. \A q : q \in reg'[r] <=> q \in reg[r]
      BY <3>1
    <3>3. reg'[r] \in SUBSET Int /\ reg[r] \in SUBSET Int
      BY <3>1 DEF PinInv, PinTypes
    <3>4. QED
      BY <3>1, <3>2, <3>3
  <2>2. QED
    BY <2>1
<1>3. PinTypes' /\ InOrder(script', pin')
  BY <1>1 DEF PinInv, PinTypes
<1>4. Loaded'
  BY <1>1, <1>2, StoreIsHeld DEF PinInv, Loaded, Idle
<1>5. TopAsked' = TopAsked /\ Divisor' = Divisor
  BY <1>1 DEF TopAsked, Divisor
<1>6. ASSUME NEW x, Fits(x) PROVE Fits(x)'
  <2>1. PinStore(x) => PinStore(x)'
    BY <1>1 DEF PinStore
  <2>2. QED
    BY <1>1, <1>5, <1>6, <2>1 DEF Fits
<1>7. AllFit'
  BY <1>1, <1>6 DEF PinInv, AllFit
<1>8. ASSUME NEW q \in Pins
      PROVE  /\ OutIs(q)' \/ Stores(script, Mode(q), q)
             /\ HighIs(q)' \/ Stores(script, Output(q), q) \/ q = tone_pins
             /\ ConnectedIs(q)' \/ (OnTimer(q) /\ Stores(script, Timer(q), q))
             /\ DutyIs(q)' \/ (q = pin /\ Has(script, "duty"))
  <2>1. /\ Mode(q) \in Registers /\ Output(q) \in Registers /\ Mode(q) # Output(p)
        /\ OnTimer(q) => Timer(q) \in TimerRegisters
    BY RegistersOf, TimerIs
  <2>2. /\ OutIs(q) => OutIs(q)'
        /\ q # p /\ HighIs(q) => HighIs(q)'
        /\ ConnectedIs(q) => ConnectedIs(q)'
        /\ DutyIs(q) => DutyIs(q)'
    BY <1>1, <1>2, <2>1 DEF OutIs, HighIs, ConnectedIs, DutyIs
  <2>3. QED
    BY <2>2 DEF PinInv, PinsSettle
<1>9. PinsSettle'
  BY <1>1, <1>8 DEF PinsSettle
<1>10. Wgm' = Wgm
  BY <1>2 DEF Wgm, TimerRegisters
<1>11. TimerSettles'
  BY <1>1, <1>5, <1>10 DEF PinInv, TimerSettles, IsSilent, Sounds, TogglesItsPin
<1>12. Answers'
  BY <1>1 DEF PinInv, Answers, Idle
<1>13. QED
  BY <1>3, <1>4, <1>7, <1>9, <1>11, <1>12 DEF PinInv

LEMMA HandlerWritesSettles ==
    ASSUME Inv, PinInv, HandlerWrites, UNCHANGED <<toneVars, use>>
    PROVE  PinInv'
<1>1. PICK p \in HandlerPins, high \in BOOLEAN :
           /\ reg' = Written(reg, p, high) /\ asked' = [asked EXCEPT ![p].high = high]
  BY DEF HandlerWrites
<1>2. /\ p \in Pins /\ ~OnTimer(p) /\ Output(p) \in Registers
      /\ reg \in [Registers -> SUBSET Int]
      /\ asked \in [Pins -> [out : BOOLEAN, high : BOOLEAN, duty : Int]]
  BY PinNumbers, RegistersOf DEF PinInv, PinTypes
<1>3. \A r \in Registers :
          reg'[r] = IF r # Output(p) THEN reg[r]
                    ELSE IF high THEN reg[r] \cup {p} ELSE reg[r] \ {p}
  BY <1>1, <1>2 DEF Written
<1>4. DOMAIN reg' = Registers /\ reg' = [r \in Registers |-> reg'[r]]
  BY <1>1 DEF Written
<1>5. p \in Int
  BY <1>2, PinNumbers
<1>6. reg' \in [Registers -> SUBSET Int]
  BY <1>2, <1>3, <1>4, <1>5
<1>7. \A r \in Registers : \A q : r # Output(p) \/ q # p => (q \in reg'[r] <=> q \in reg[r])
  BY <1>2, <1>3
<1>8. /\ asked' \in [Pins -> [out : BOOLEAN, high : BOOLEAN, duty : Int]]
      /\ asked'[p].high = high
      /\ \A q \in Pins : /\ asked'[q].out = asked[q].out /\ asked'[q].duty = asked[q].duty
                         /\ (q = p /\ q \in HandlerPins) \/ asked'[q].high = asked[q].high
  BY <1>1, <1>2
<1>9. HighIs(p)'
  BY <1>2, <1>3, <1>8 DEF HighIs
<1>10. interrupts /\ UNCHANGED <<ocr, adc, program, tone_pins, timer2_pin, OCIE2A, prescaler2,
                                 sounding, use>>
  BY DEF HandlerWrites, toneVars
<1>11. QED
  BY <1>2, <1>6, <1>7, <1>8, <1>9, <1>10, LevelSettles

LEMMA ToggleSettles ==
    ASSUME Inv, PinInv, Toggle, UNCHANGED use
    PROVE  PinInv'
<1>1. /\ interrupts /\ OCIE2A /\ asked' = asked
      /\ reg' = [reg EXCEPT ![Output(timer2_pin)] =
                    IF timer2_pin \in @ THEN @ \ {timer2_pin} ELSE @ \cup {timer2_pin}]
      /\ UNCHANGED <<ocr, adc, program, tone_pins, timer2_pin, OCIE2A, prescaler2, sounding, use>>
  BY DEF Toggle, Compare
<1>2. IF tone_pins = NoPin
      THEN timer2_pin = pin /\ Stores(script, Output(pin), pin)
      ELSE timer2_pin = tone_pins /\ tone_pins \in TonePins
  BY <1>1 DEF PinInv, TimerSettles, TogglesItsPin
<1>3. PICK p : p = timer2_pin
  OBVIOUS
<1>4. p \in Pins /\ (Stores(script, Output(p), p) \/ p = tone_pins)
  <2>1. CASE tone_pins = NoPin
    <3>1. PICK x \in Items(script) : IsStore(x) /\ x.reg = Output(pin) /\ x.bits = {pin}
      BY <1>2, <2>1 DEF Stores
    <3>2. PinStore(x) \/ (ModeStore(x) /\ pin \in TonePins)
      BY <3>1 DEF PinInv, AllFit, Fits
    <3>3. pin \in Pins
      BY <3>2, PinNumbers DEF PinStore
    <3>4. QED
      BY <1>2, <1>3, <2>1, <3>3
  <2>2. CASE tone_pins # NoPin
    BY <1>2, <1>3, <2>2, PinNumbers
  <2>3. QED
    BY <2>1, <2>2
<1>5. reg \in [Registers -> SUBSET Int] /\ Output(p) \in Registers /\ p \in Int
  BY <1>4, RegistersOf, PinNumbers DEF PinInv, PinTypes
<1>6. \A r \in Registers :
          reg'[r] = IF r # Output(p) THEN reg[r]
                    ELSE IF p \in reg[r] THEN reg[r] \ {p} ELSE reg[r] \cup {p}
  BY <1>1, <1>3, <1>5
<1>7. DOMAIN reg' = Registers /\ reg' = [r \in Registers |-> reg'[r]]
  BY <1>1, <1>5
<1>8. reg' \in [Registers -> SUBSET Int]
  BY <1>5, <1>6, <1>7
<1>9. ASSUME NEW r \in Registers, NEW q, r # Output(p) \/ q # p
      PROVE  q \in reg'[r] <=> q \in reg[r]
  <2>1. CASE r # Output(p)
    BY <1>6, <2>1
  <2>2. CASE r = Output(p) /\ q # p
    <3>1. reg'[r] = reg[r] \ {p} \/ reg'[r] = reg[r] \cup {p}
      BY <1>6, <2>2
    <3>2. QED
      BY <2>2, <3>1
  <2>3. QED
    BY <1>9, <2>1, <2>2
<1>10. /\ asked' \in [Pins -> [out : BOOLEAN, high : BOOLEAN, duty : Int]]
       /\ \A q \in Pins : /\ asked'[q].out = asked[q].out /\ asked'[q].duty = asked[q].duty
                          /\ asked'[q].high = asked[q].high
  BY <1>1 DEF PinInv, PinTypes
<1>11. QED
  BY <1>1, <1>4, <1>8, <1>9, <1>10, LevelSettles

LEMMA EndOfToneSettles ==
    ASSUME Inv, PinInv, EndOfTone, ~overtaken', UNCHANGED use
    PROVE  PinInv'
<1> PICK p : p = tone_pins
  OBVIOUS
<1>1. /\ interrupts /\ OCIE2A /\ OCIE2A' = FALSE /\ prescaler2' = 64 /\ tone_pins' = NoPin
      /\ ocr' = [ocr EXCEPT ![OCR2A] = 0]
      /\ script' = script /\ copy' = copy /\ pin' = pin /\ answer' = answer
      /\ analog_reference' = analog_reference /\ adc' = adc
      /\ timer2_pin' = timer2_pin /\ sounding' = sounding /\ use' = use
  BY DEF EndOfTone, Compare, program
<1>2. /\ p # NoPin /\ ~TimerInUse
      /\ reg' = Written(TimerAfterEnd, p, FALSE)
      /\ asked' = [LosePWM EXCEPT ![p] = [out |-> @.out, high |-> FALSE, duty |-> 0]]
  BY DEF EndOfTone
<1>3. p \in TonePins /\ p \in Pins /\ p \in Int /\ "tone" \in use
  BY <1>2, PinNumbers DEF PinInv, TimerSettles
<1>4. /\ reg \in [Registers -> SUBSET Int]
      /\ asked \in [Pins -> [out : BOOLEAN, high : BOOLEAN, duty : Int]]
  BY DEF PinInv, PinTypes
\* What the interrupt leaves of the pins and their registers.
<1>5. /\ asked' \in [Pins -> [out : BOOLEAN, high : BOOLEAN, duty : Int]]
      /\ \A q \in Pins :
             /\ asked'[q].out = asked[q].out
             /\ asked'[q].high = IF q = p THEN FALSE ELSE asked[q].high
             /\ asked'[q].duty = IF q = p \/ q \in Timer2Pins THEN 0 ELSE asked[q].duty
  <2>1. /\ LosePWM \in [Pins -> [out : BOOLEAN, high : BOOLEAN, duty : Int]]
        /\ \A q \in Pins :
               /\ LosePWM[q].out = asked[q].out /\ LosePWM[q].high = asked[q].high
               /\ LosePWM[q].duty = IF q \in Timer2Pins THEN 0 ELSE asked[q].duty
    BY <1>4 DEF LosePWM
  <2> DEFINE record == [out |-> LosePWM[p].out, high |-> FALSE, duty |-> 0]
  <2>2. asked' = [LosePWM EXCEPT ![p] = record]
    BY <1>2, <1>3, <2>1
  <2>3. /\ record \in [out : BOOLEAN, high : BOOLEAN, duty : Int]
        /\ record.out = asked[p].out /\ record.high = FALSE /\ record.duty = 0
    BY <1>3, <2>1
  <2> HIDE DEF record
  <2>4. QED
    BY <1>3, <2>1, <2>2, <2>3
<1>6. "TCCR2A" \in Registers /\ WGM20 \in Int /\ WGM20 \notin Pins
  BY RegistersOf, PinNumbers DEF TimerRegisters
<1>7. /\ TimerAfterEnd \in [Registers -> SUBSET Int]
      /\ TimerAfterEnd["TCCR2A"] = {WGM20}
      /\ \A r \in Registers : r # "TCCR2A" => TimerAfterEnd[r] = reg[r]
  BY <1>4, <1>6 DEF TimerAfterEnd
<1>8. \A r \in Registers :
          reg'[r] = IF r = Output(p) \/ (OnTimer(p) /\ r = Timer(p))
                    THEN TimerAfterEnd[r] \ {p} ELSE TimerAfterEnd[r]
  BY <1>2 DEF Written
<1>9. reg' \in [Registers -> SUBSET Int]
  <2>1. reg' = [r \in Registers |-> reg'[r]]
    BY <1>2 DEF Written
  <2>2. \A r \in Registers : reg'[r] \in SUBSET Int
    BY <1>7, <1>8
  <2>3. QED
    BY <2>1, <2>2
<1>10. /\ \A r \in Registers : r # "TCCR2A" =>
              \A q : q # p => (q \in reg'[r] <=> q \in reg[r])
       /\ \A r \in Registers \ {"TCCR2A", Output(p)} :
              ~(OnTimer(p) /\ r = Timer(p)) => reg'[r] = reg[r]
       /\ reg'["TCCR2A"] = {WGM20}
       /\ p \notin reg'[Output(p)] /\ (OnTimer(p) => p \notin reg'[Timer(p)])
  <2>1. Output(p) \in Registers /\ (OnTimer(p) => Timer(p) \in Registers)
    BY RegistersOf
  <2>2. reg'["TCCR2A"] = {WGM20}
    BY <1>3, <1>6, <1>7, <1>8
  <2>3. p \notin reg'[Output(p)] /\ (OnTimer(p) => p \notin reg'[Timer(p)])
    BY <1>8, <2>1
  <2>4. ASSUME NEW r \in Registers, r # "TCCR2A", NEW q, q # p
        PROVE  q \in reg'[r] <=> q \in reg[r]
    <3>1. TimerAfterEnd[r] = reg[r]
      BY <1>7, <2>4
    <3>2. reg'[r] = reg[r] \ {p} \/ reg'[r] = reg[r]
      BY <1>8, <3>1
    <3>3. QED
      BY <2>4, <3>2
  <2>5. ASSUME NEW r \in Registers, r # "TCCR2A", r # Output(p), ~(OnTimer(p) /\ r = Timer(p))
        PROVE  reg'[r] = reg[r]
    BY <1>7, <1>8, <2>5
  <2>6. QED
    BY <2>2, <2>3, <2>4, <2>5
\* The program is in no call that depends on the timer.
<1>11. \/ Free /\ (Idle \/ Head(script).op \in {"begin", "end"})
       \/ /\ ~Idle /\ pin # p /\ pin \notin Timer2Pins
          /\ ~(OnTimer(pin) /\ OnTimer(p) /\ Timer(pin) = Timer(p))
  <2>1. CASE Idle
    BY <2>1, IdleIsFree
  <2>2. CASE ~Idle /\ Head(script).op \in {"begin", "end"}
    BY <2>2, LookIsFree
  <2>3. CASE ~Idle /\ Head(script).op \notin {"begin", "end"}
    BY <1>2, <2>3 DEF TimerInUse
  <2>4. QED
    BY <2>1, <2>2, <2>3
<1>12. \A x \in Items(script) : Fits(x) /\ x.op \notin TimerOps
  <2>1. \A x \in Items(script) : Fits(x)
    BY DEF PinInv, AllFit
  <2>2. \A x : Fits(x) /\ x.op \in TimerOps => pin = p
    BY <1>2 DEF Fits
  <2>3. Free => \A x \in Items(script) : x.op \notin TimerOps
    BY DEF Free, TimerOps
  <2>4. QED
    BY <1>11, <2>1, <2>2, <2>3
<1>13. ASSUME ~Free, pin \in Pins
       PROVE  /\ asked'[pin].out = asked[pin].out /\ asked'[pin].high = asked[pin].high
              /\ asked'[pin].duty = asked[pin].duty
  BY <1>5, <1>11, <1>13
<1>14. ASSUME NEW x \in Items(script) PROVE Fits(x)'
  <2>1. CASE Free
    <3>1. x.op \in {"begin", "end"}
      BY <2>1 DEF Free
    <3>2. QED
      BY <1>1, <1>12, <3>1 DEF Fits, IsStore, TimerOps
  <2>2. CASE ~Free
    <3>1. PinStore(x) => PinStore(x)'
      BY <1>1, <1>13, <2>2 DEF PinStore
    <3>2. IsStore(x) => PinStore(x)
      BY <1>11, <1>12, <2>2 DEF Fits
    <3>3. x.op = "duty" => pin \in Pins /\ OnTimer(pin) /\ x.arg = asked'[pin].duty
                           /\ (pin = OCR2A => "tone" \notin use)
      BY <1>12, <1>13, <2>2 DEF Fits
    <3>4. x.op = "read" => pin \in Pins \ HandlerPins
      BY <1>12 DEF Fits
    <3>5. x.op = "admux" => x.arg = analogChannel(pin)
      BY <1>12 DEF Fits
    <3>6. x.op \in {"begin", "end"} => "tone" \in use /\ pin \in TonePins
      BY <1>12 DEF Fits
    <3>7. x.op \notin TimerOps /\ x.op \notin {"write", "top", "compare_interrupt"}
      BY <1>12 DEF TimerOps
    <3>8. QED
      BY <1>1, <3>1, <3>2, <3>3, <3>4, <3>5, <3>6, <3>7 DEF Fits
  <2>3. QED
    BY <2>1, <2>2
<1>15. AllFit'
  BY <1>1, <1>14 DEF AllFit
<1>16. Loaded'
  <2>1. SUFFICES ASSUME ~Idle, IsStore(Head(script))
                 PROVE  copy' = reg'[Head(script).reg]
    BY <1>1 DEF PinInv, Loaded, Idle
  <2> DEFINE x == Head(script)
  <2>2. x.reg \in TimerRegisters /\ copy = reg[x.reg] /\ x \in Items(script)
    BY <1>1, <2>1, StoreIsHeld, HeadFits DEF PinInv, Loaded
  <2>3. x.op \notin {"begin", "end"}
    BY <2>1 DEF IsStore
  <2>4. /\ pin # p /\ pin \notin Timer2Pins
        /\ ~(OnTimer(pin) /\ OnTimer(p) /\ Timer(pin) = Timer(p))
    BY <1>11, <2>1, <2>3
  <2>5. PinStore(x)
    BY <1>12, <2>1, <2>2, <2>4 DEF Fits
  <2>6. /\ pin \in Pins /\ OnTimer(pin) /\ x.reg = Timer(pin)
    BY <2>2, <2>5, RegistersOf DEF PinStore
  <2>7. x.reg # "TCCR2A" /\ x.reg \in Registers /\ x.reg # Output(p)
    BY <2>2, <2>4, <2>6, RegistersOf DEF Timer2Pins
  <2>8. reg'[x.reg] = reg[x.reg]
    BY <1>10, <2>4, <2>6, <2>7
  <2>9. QED
    BY <1>1, <2>2, <2>8
<1>17. ASSUME NEW q \in Pins
       PROVE  /\ OutIs(q)' \/ Stores(script, Mode(q), q)
              /\ HighIs(q)' \/ Stores(script, Output(q), q)
              /\ ConnectedIs(q)' \/ (OnTimer(q) /\ Stores(script, Timer(q), q))
              /\ DutyIs(q)' \/ (q = pin /\ Has(script, "duty"))
  <2>1. /\ OutIs(q) \/ Stores(script, Mode(q), q)
        /\ HighIs(q) \/ Stores(script, Output(q), q) \/ q = p
        /\ ConnectedIs(q) \/ (OnTimer(q) /\ Stores(script, Timer(q), q))
        /\ DutyIs(q) \/ (q = pin /\ Has(script, "duty"))
    BY DEF PinInv, PinsSettle
  <2>2. /\ Mode(q) \in Registers \ {"TCCR2A", Output(p)}
        /\ ~(OnTimer(p) /\ Mode(q) = Timer(p))
        /\ Output(q) \in Registers /\ Output(q) # "TCCR2A"
        /\ OnTimer(q) => Timer(q) \in Registers
    BY RegistersOf, TimerIs DEF TimerRegisters
  <2>3. OutIs(q) => OutIs(q)'
    <3>1. reg'[Mode(q)] = reg[Mode(q)]
      BY <1>10, <2>2
    <3>2. QED
      BY <1>5, <3>1 DEF OutIs
  <2>4. CASE q = p
    <3>1. asked'[q].high = FALSE /\ asked'[q].duty = 0
      BY <1>5, <2>4
    <3>2. HighIs(q)' /\ ConnectedIs(q)' /\ DutyIs(q)'
      BY <1>10, <2>4, <3>1 DEF HighIs, ConnectedIs, DutyIs
    <3>3. QED
      BY <2>1, <2>3, <3>2
  <2>5. CASE q # p
    <3>1. HighIs(q) => HighIs(q)'
      BY <1>5, <1>10, <2>2, <2>5 DEF HighIs
    <3>2. CASE q \in Timer2Pins
      <4>1. asked'[q].duty = 0 /\ OnTimer(q) /\ Timer(q) = "TCCR2A"
        BY <1>5, <3>2 DEF Timer2Pins
      <4>2. q \notin reg'["TCCR2A"]
        BY <1>6, <1>10
      <4>3. ConnectedIs(q)' /\ DutyIs(q)'
        BY <4>1, <4>2 DEF ConnectedIs, DutyIs
      <4>4. QED
        BY <2>1, <2>3, <2>5, <3>1, <4>3
    <3>3. CASE q \notin Timer2Pins
      <4>1. asked'[q].duty = asked[q].duty /\ (OnTimer(q) => Timer(q) # "TCCR2A")
        BY <1>5, <2>5, <3>3 DEF Timer2Pins
      <4>2. ConnectedIs(q) => ConnectedIs(q)'
        BY <1>10, <2>2, <2>5, <4>1 DEF ConnectedIs
      <4>3. OnTimer(q) => q # OCR2A /\ ocr'[q] = ocr[q]
        <5>1. OnTimer(OCR2A) /\ Timer(OCR2A) = "TCCR2A"
          BY DEF OnTimer, Timer, OCR2A, digital_pin_to_timer
        <5>2. OnTimer(q) => q # OCR2A
          BY <4>1, <5>1
        <5>3. QED
          BY <1>1, <5>2 DEF OnTimer, PinInv, PinTypes
      <4>4. DutyIs(q) => DutyIs(q)'
        BY <4>1, <4>3 DEF DutyIs
      <4>5. QED
        BY <2>1, <2>3, <2>5, <3>1, <4>2, <4>4
    <3>4. QED
      BY <3>2, <3>3
  <2>6. QED
    BY <2>4, <2>5
<1>18. PinsSettle'
  BY <1>1, <1>17 DEF PinsSettle
<1>19. IsSilent' /\ TogglesItsPin' /\ ~Has(script, "tone_pin")
  <2>1. ~Has(script, "prescale") /\ ~Has(script, "tone_pin")
    BY <1>12 DEF Has, TimerOps
  <2>2. Wgm' = {WGM20}
    BY <1>10 DEF Wgm, Wgm2
  <2>3. QED
    BY <1>1, <2>1, <2>2 DEF IsSilent, DivisorSettles, TogglesItsPin
<1>20. OCR2A \in Pins => asked'[OCR2A].duty = 0
  BY <1>3, <1>5 DEF PinInv, TimerSettles
<1>21. TimerSettles'
  BY <1>1, <1>19, <1>20 DEF TimerSettles
<1>22. Answers'
  BY <1>1, <1>3 DEF PinInv, Answers, Idle
<1>23. PinTypes' /\ InOrder(script', pin')
  BY <1>1, <1>5, <1>9 DEF PinInv, PinTypes
<1>24. QED
  BY <1>15, <1>16, <1>18, <1>21, <1>22, <1>23 DEF PinInv

LEMMA HandlersSettle ==
    ASSUME Inv, PinInv, Handlers, ~overtaken'
    PROVE  PinInv'
<1>1. CASE HandlerWrites /\ UNCHANGED toneVars
  BY <1>1, HandlerWritesSettles DEF Handlers
<1>2. CASE ToneInterrupt
  BY <1>2, ToggleSettles, EndOfToneSettles DEF ToneInterrupt, Handlers
<1>3. CASE (Edge \/ ExternalInterrupt) /\ UNCHANGED toneVars
  <2>1. UNCHANGED <<pinVars, toneVars, use>>
    BY <1>3 DEF Edge, ExternalInterrupt, Handlers
  <2>2. QED
    BY <2>1, PinInvStays DEF pinVars, hardware, program
<1>4. QED
  BY <1>1, <1>2, <1>3 DEF Handlers

-----------------------------------------------------------------------------
(* The invariant *)

LEMMA PinInvInit == Init => PinInv
<1> SUFFICES ASSUME Init PROVE PinInv
  OBVIOUS
<1>1. /\ reg = RegistersInitial({LedPin}) /\ ocr = [p \in DOMAIN digital_pin_to_timer |-> 0]
      /\ script = <<>> /\ answer = <<>>
      /\ asked = [p \in Pins |-> [out |-> p \in {LedPin}, high |-> FALSE, duty |-> 0]]
      /\ tone_pins = NoPin /\ OCIE2A = FALSE /\ prescaler2 = 64
      /\ use \in Programs
  BY DEF Init, PinsInit, ToneInit
<1>2. Idle /\ Items(script) = {} /\ InOrder(script, pin)
  BY <1>1, NoneInOrder DEF Idle, Plain
<1>3. AllFit /\ Loaded /\ Answers
  BY <1>1, <1>2 DEF AllFit, Loaded, Answers
<1>4. /\ asked \in [Pins -> [out : BOOLEAN, high : BOOLEAN, duty : Int]]
      /\ \A p \in Pins : (asked[p].out <=> p = LedPin) /\ ~asked[p].high /\ asked[p].duty = 0
  <2>1. PICK off \in BOOLEAN : off = FALSE
    OBVIOUS
  <2> DEFINE Record(out) == [out |-> out, high |-> off, duty |-> 0]
  <2>2. asked = [p \in Pins |-> Record(p \in {LedPin})]
    BY <1>1, <2>1, Zenon
  <2>3. \A b \in BOOLEAN : /\ Record(b) \in [out : BOOLEAN, high : BOOLEAN, duty : Int]
                           /\ Record(b).out = b /\ Record(b).high = off /\ Record(b).duty = 0
    OBVIOUS
  <2> HIDE DEF Record
  <2>4. ASSUME NEW p \in Pins
        PROVE  /\ asked[p] \in [out : BOOLEAN, high : BOOLEAN, duty : Int]
               /\ asked[p].out <=> p = LedPin
               /\ asked[p].high = off /\ asked[p].duty = 0
    <3>1. CASE p = LedPin
      <4>1. (p \in {LedPin}) = TRUE
        BY <3>1, Zenon
      <4>2. PICK out \in BOOLEAN : out = TRUE /\ asked[p] = Record(out)
        BY <2>2, <4>1, Zenon
      <4>3. QED
        BY <2>3, <3>1, <4>2
    <3>2. CASE p # LedPin
      <4>1. (p \in {LedPin}) = FALSE
        BY <3>2, SMT
      <4>2. PICK out \in BOOLEAN : out = FALSE /\ asked[p] = Record(out)
        BY <2>2, <4>1, Zenon
      <4>3. QED
        BY <2>3, <3>2, <4>2
    <3>3. QED
      BY <3>1, <3>2
  <2>5. asked = [p \in Pins |-> asked[p]]
    BY <1>1
  <2>6. QED
    BY <2>1, <2>4, <2>5
<1>5. /\ DOMAIN reg = Registers /\ reg = [r \in Registers |-> reg[r]]
      /\ \A r \in Registers :
             reg[r] = IF r = "TCCR2A" THEN {WGM20} ELSE {p \in {LedPin} : r = Mode(p)}
  BY <1>1 DEF RegistersInitial
<1>6. PinTypes
  <2>1. \A r \in Registers : reg[r] \in SUBSET Int
    BY <1>5, PinNumbers
  <2>2. QED
    BY <1>1, <1>4, <1>5, <2>1 DEF PinTypes
<1>7. \A p \in Pins : OutIs(p) /\ HighIs(p) /\ ConnectedIs(p) /\ DutyIs(p)
  <2> SUFFICES ASSUME NEW p \in Pins PROVE OutIs(p) /\ HighIs(p) /\ ConnectedIs(p) /\ DutyIs(p)
    OBVIOUS
  <2>1. (p \in reg[Mode(p)] <=> p = LedPin) /\ p \notin reg[Output(p)]
    BY <1>5, RegistersOf DEF TimerRegisters
  <2>2. OnTimer(p) => p \notin reg[Timer(p)]
    <3>1. p # WGM20
      BY PinNumbers
    <3>2. OnTimer(p) => Timer(p) \in Registers /\ Timer(p) \in TimerRegisters
      BY TimerIs, RegistersOf DEF TimerRegisters
    <3>3. \A q : Mode(q) \notin TimerRegisters
      BY RegistersOf
    <3>4. ASSUME NEW r \in Registers, r \in TimerRegisters PROVE p \notin reg[r]
      <4>1. CASE r = "TCCR2A"
        BY <1>5, <3>1, <3>4, <4>1
      <4>2. CASE r # "TCCR2A"
        <5>1. r # Mode(p)
          BY <3>3, <3>4
        <5>2. QED
          BY <1>5, <3>4, <4>2, <5>1
      <4>3. QED
        BY <4>1, <4>2
    <3>5. QED
      BY <3>2, <3>4
  <2>3. QED
    BY <1>4, <2>1, <2>2 DEF OutIs, HighIs, ConnectedIs, DutyIs
<1>8. IsSilent
  <2>1. reg["TCCR2A"] = {WGM20} /\ ~Has(script, "prescale")
    BY <1>2, <1>5, RegistersOf DEF TimerRegisters, Has
  <2>2. QED
    BY <1>1, <2>1 DEF IsSilent, DivisorSettles, Wgm, Wgm2
<1>9. TimerSettles
  <2>1. ~Has(script, "tone_pin")
    BY <1>2 DEF Has
  <2>2. QED
    BY <1>1, <1>4, <1>8, <2>1 DEF TimerSettles, TogglesItsPin
<1>10. QED
  BY <1>2, <1>3, <1>6, <1>7, <1>9 DEF PinInv, PinsSettle

LEMMA OvertakenStays == overtaken /\ [Next]_vars => overtaken'
<1> SUFFICES ASSUME overtaken, [Next]_vars PROVE overtaken'
  OBVIOUS
<1>1. CASE UNCHANGED toneVars
  BY <1>1 DEF toneVars
<1>2. CASE ToneCalls
  BY <1>2 DEF ToneCalls, CallTone, CallNoTone, toneVars
<1>3. CASE ToneStep
  BY <1>3 DEF ToneStep, toneBegin, noTone, WriteRegister, SetTop, SetTone, toneVars
<1>4. CASE ToneInterrupt
  BY <1>4 DEF ToneInterrupt, Toggle, EndOfTone
<1>5. CASE ExternalCalls
  BY <1>5 DEF ExternalCalls, toneVars
<1>6. CASE Program
  BY <1>1, <1>2, <1>3, <1>5, <1>6 DEF Program, WiringCalls, Led, Spi, Step
<1>7. CASE Clock
  BY <1>1, <1>7 DEF Clock
<1>8. CASE Handlers
  BY <1>1, <1>4, <1>8 DEF Handlers
<1>9. CASE UNCHANGED vars
  BY <1>1, <1>9 DEF vars
<1>10. QED
  BY <1>6, <1>7, <1>8, <1>9 DEF Next

LEMMA PinInvStep ==
    ASSUME TopIsFree, Inv, overtaken \/ PinInv, [Next]_vars
    PROVE  (overtaken \/ PinInv)'
<1>1. CASE overtaken
  BY <1>1, OvertakenStays
<1>2. CASE PinInv /\ ~overtaken'
  <2>1. CASE Program
    BY <1>2, <2>1, ProgramSettles
  <2>2. CASE Clock \/ UNCHANGED vars
    <3>1. UNCHANGED <<pinVars, toneVars, use>>
      BY <2>2 DEF Clock, Millisecond, vars
    <3>2. QED
      BY <1>2, <3>1, PinInvStays DEF pinVars, hardware, program
  <2>3. CASE Handlers
    BY <1>2, <2>3, HandlersSettle
  <2>4. QED
    BY <2>1, <2>2, <2>3 DEF Next
<1>3. QED
  BY <1>1, <1>2

\* A pin is out of reach of a call that is not about it.
LEMMA OthersDriven ==
    ASSUME PinInv, NEW p \in Pins, p \notin InCall, p # tone_pins
    PROVE  Driven(p)
<1>1. CASE Idle
  <2>1. OutIs(p) /\ ConnectedIs(p) /\ DutyIs(p) /\ HighIs(p)
    BY <1>1, IdleIsFree, Settled
  <2>2. QED
    BY <2>1 DEF Driven, OutIs, ConnectedIs, DutyIs, HighIs
<1>2. CASE ~Idle
  <2>1. p # pin
    BY <1>2 DEF InCall
  <2>2. \A r : ~Stores(script, r, p)
    <3>1. SUFFICES ASSUME NEW x \in Items(script), IsStore(x), x.bits = {p} PROVE FALSE
      BY DEF Stores
    <3>2. x.bits = {pin} \/ x.bits = {WGM21}
      BY <3>1 DEF PinInv, AllFit, Fits, PinStore, ModeStore
    <3>3. p # WGM21
      BY PinNumbers
    <3>4. QED
      BY <2>1, <3>1, <3>2, <3>3
  <2>3. OutIs(p) /\ ConnectedIs(p) /\ DutyIs(p) /\ HighIs(p)
    BY <2>1, <2>2 DEF PinInv, PinsSettle
  <2>4. QED
    BY <2>3 DEF Driven, OutIs, ConnectedIs, DutyIs, HighIs
<1>3. QED
  BY <1>1, <1>2

-----------------------------------------------------------------------------
(* The theorems *)

(* The phases are all there are: what is left of a call tells how far the     *)
(* masks, the pointers and the interrupt bit have got (WInterrupts.c, SPI.h,  *)
(* SPI.cpp and the protected sections of wiring_digital.c and Tone.cpp).      *)
THEOREM Invariance == Spec => []Inv
BY InvInit, InvStep, PTL DEF Spec

(* An interrupt calls the whole pointer of a function that is attached to its *)
(* line, whatever calls it comes between (attachInterrupt, detachInterrupt).  *)
THEOREM EventsHandled == Spec => []EventsAreHandled
<1>1. Inv => EventsAreHandled
  BY DEF Inv
<1>2. QED
  BY <1>1, Invariance, PTL

(* A transaction keeps away the handlers that use the bus, and leaves no      *)
(* other masked when it ends, whatever calls the program makes in between     *)
(* (beginTransaction, endTransaction, usingInterrupt, notUsingInterrupt).     *)
THEOREM TransactionsExclusive == Spec => []TransactionsAreExclusive
<1>1. Inv => TransactionsAreExclusive
  <2>1. SUFFICES ASSUME Inv, Idle
                 PROVE  IF open
                        THEN interrupts => /\ AnyInterrupt \notin usesBus
                                           /\ usesBus \cap EIMSK = {}
                        ELSE interrupts /\ EIMSK = Attached
    BY DEF TransactionsAreExclusive, Attached
  <2>2. Steady /\ (interrupts <=> Outer)
    BY <2>1, IdlePhase
  <2>3. CASE ~open
    BY <2>2, <2>3 DEF Steady, Outer
  <2>4. CASE open
    <3>1. SUFFICES ASSUME interrupts
                   PROVE  AnyInterrupt \notin usesBus /\ usesBus \cap EIMSK = {}
      BY <2>4
    <3>2. interruptMode \in {"none", "mask"}
      BY <2>1, <2>2, <2>4, <3>1 DEF Outer, Inv, TypeOK
    <3>3. CASE interruptMode = "none"
      BY <2>1, <3>3 DEF Inv, NamedMasked
    <3>4. CASE interruptMode = "mask"
      <4>1. usesBus \subseteq interruptMask /\ interruptMask \subseteq Lines
        BY <2>1, <3>4 DEF Inv, NamedMasked, TypeOK
      <4>2. EIMSK = Attached \ interruptMask
        BY <2>2, <2>4, <3>4 DEF Steady
      <4>3. QED
        BY <4>1, <4>2, LinesAreNot
    <3>5. QED
      BY <3>2, <3>3, <3>4
  <2>5. QED
    BY <2>3, <2>4
<1>2. QED
  BY <1>1, Invariance, PTL

(* What a call has not brought about yet is still to be stored, and from what *)
(* it has read of a register no handler has taken it away in the meantime, as *)
(* long as no tone ends amid a call that uses its timer (wiring_digital.c,    *)
(* wiring_analog.c and Tone.cpp).                                             *)
THEOREM PinInvariance == TopIsFree => (Spec => [](overtaken \/ PinInv))
<1> SUFFICES ASSUME TopIsFree PROVE Spec => [](overtaken \/ PinInv)
  OBVIOUS
<1>1. Inv /\ (overtaken \/ PinInv) /\ [Next]_vars => (overtaken \/ PinInv)'
  BY PinInvStep
<1>2. Init => overtaken \/ PinInv
  BY PinInvInit
<1>3. QED
  BY <1>1, <1>2, Invariance, PTL DEF Spec

(* Every pin that no call is about is connected and driven as it was last     *)
(* asked for, whatever the handlers write to the same registers, and a read   *)
(* answers for what it was asked about (pinMode, digitalWrite, analogWrite,   *)
(* digitalRead, analogRead).                                                  *)
THEOREM PinsDriven == TopIsFree => (Spec => []PinsAreDriven)
<1> SUFFICES ASSUME TopIsFree PROVE Spec => []PinsAreDriven
  OBVIOUS
<1>1. overtaken \/ PinInv => PinsAreDriven
  <2> SUFFICES ASSUME PinInv PROVE PinsAreDriven
    BY DEF PinsAreDriven
  <2>1. \A p \in Pins \ (InCall \cup {tone_pins}) : Driven(p)
    BY OthersDriven
  <2>2. \/ answer = <<>>
        \/ /\ answer = <<answer[1]>>
           /\ "tone" \notin use /\ asked[pin].out => answer[1] = asked[pin].high
        \/ answer = <<analogChannel(pin), analog_reference>>
    BY DEF PinInv, Answers
  <2>3. \A a, b : Len(<<>>) = 0 /\ Len(<<a>>) = 1 /\ Len(<<a, b>>) = 2
    OBVIOUS
  <2>4. QED
    BY <2>1, <2>2, <2>3 DEF PinsAreDriven
<1>2. QED
  BY <1>1, PinInvariance, PTL

(* A tone has its timer to itself while it sounds and hands it back silent,   *)
(* when it ends by itself too (tone, noTone, disableTimer and the interrupt). *)
THEOREM ToneAsAsked == TopIsFree => (Spec => []ToneIsAsAsked)
<1> SUFFICES ASSUME TopIsFree PROVE Spec => []ToneIsAsAsked
  OBVIOUS
<1>1. overtaken \/ PinInv => ToneIsAsAsked
  <2> SUFFICES ASSUME PinInv, Idle PROVE ToneIsAsAsked
    BY DEF ToneIsAsAsked
  <2>1. /\ tone_pins = NoPin => ~OCIE2A /\ Wgm = {WGM20} /\ prescaler2 = 64
        /\ tone_pins # NoPin => /\ OCIE2A /\ Wgm = {WGM21} /\ timer2_pin = tone_pins
                                /\ prescaler2 = Divisor /\ ocr[OCR2A] = TopAsked
    BY IdleIsFree, Settled
  <2>2. QED
    BY <2>1 DEF ToneIsAsAsked, Wgm, Divisor, TopAsked
<1>2. QED
  BY <1>1, PinInvariance, PTL
=============================================================================
