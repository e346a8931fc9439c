------------------------------ MODULE Regulator ------------------------------
(***************************************************************************)
(* TPS546.c and vcore.c: the driver of the core voltage regulator.  At     *)
(* boot it identifies the chip, turns the output off, reads the exponent   *)
(* of the voltage format and programs the limits of the board; afterwards  *)
(* the power task sets the output, reads the telemetry and checks the      *)
(* status.  Every transfer on the bus may fail and most writes of the      *)
(* configuration ignore that.  The chip's registers outlive a reset of the *)
(* ESP32.  Voltages and currents are in thousandths.                       *)
(***************************************************************************)
EXTENDS Integers, Sequences, FiniteSetsExt

CONSTANTS
    Families,     \* boards, of "turbo", "hex" and "gamma"
    Asked,        \* core voltages that the power task asks for, in mV
    Attempts,     \* max_attempts
    MaxGlitches,  \* bound: transfers that fail
    MaxRegResets  \* bound: resets of the ESP32

VARIABLES
    family,      \* family->id
    regStep,     \* where the driver is
    attempt,     \* attempt, or the index of the configuration write
    modeValid,   \* s_vout_mode_valid
    word,        \* the chip's registers, 16 bits each
    operation,   \* the chip's OPERATION register is ON
    request,     \* volts, the argument of TPS546_set_vout
    powerFault,  \* SYSTEM_MODULE->power_fault
    readFailures,\* read_failures
    tripped,     \* the chip's STATUS_WORD has one of the bits of TPS546_check_status
    glitches,    \* history, for the bound
    regResets,   \* history, for the bound
    lost,        \* history: registers whose last write failed
    refused      \* history: the minimum core voltage was refused as out of range

regVars == <<family, regStep, attempt, modeValid, word, operation, request, powerFault,
             readFailures, tripped, glitches, regResets, lost, refused>>

-----------------------------------------------------------------------------
(* get_tps546_config, and FamilyConfig.voltage_domains *)

Board ==
    [turbo |-> [on |-> 11000, off |-> 10500, uvWarn |-> 11000, ov |-> 14800, scale |-> 250,
                min |-> 1000, max |-> 3000, command |-> 1200, ocWarn |-> 50000,
                ocFault |-> 55000, domains |-> 1],
     hex   |-> [on |-> 11500, off |-> 11000, uvWarn |-> 11000, ov |-> 14800, scale |-> 125,
                min |-> 2500, max |-> 4500, command |-> 3600, ocWarn |-> 25000,
                ocFault |-> 30000, domains |-> 3],
     gamma |-> [on |-> 4800, off |-> 4500, uvWarn |-> 0, ov |-> 6500, scale |-> 250,
                min |-> 1000, max |-> 2000, command |-> 1200, ocWarn |-> 25000,
                ocFault |-> 30000, domains |-> 1]]

\* VCORE_get_voltage_min_mv, rounded up.
VoltageMin(b) == (b.min + b.domains - 1) \div b.domains

-----------------------------------------------------------------------------
(* The number formats of the chip *)

\* powf(2.0, i)
Power(i) == <<1, 2, 4, 8, 16, 32, 64, 128, 256, 512, 1024, 2048, 4096, 8192, 16384, 32768,
              65536>>[i + 1]

\* int_2_slinear11: the least exponent that leaves a mantissa of ten bits.
Int2Slinear11(n) ==
    LET fits == {i \in 0 .. 15 : n \div Power(i) < 1024}
    IN  IF fits = {} THEN 0 ELSE Min(fits) * 2048 + n \div Power(Min(fits))

\* Mutant: the loop goes one exponent too far.
Mut_Float2Slinear11(v) ==
    LET large == {i \in 0 .. 15 : (v * Power(i)) \div 1000 >= 1024}
    IN  IF v <= 0 \/ large = {} THEN 0
        ELSE ((32 - Min(large)) % 32) * 2048 + (v * Power(Min(large))) \div 1000

\* float_2_slinear11: the last exponent before the mantissa passes ten bits, negated.
Float2Slinear11(v) ==
    LET large == {i \in 0 .. 15 : (v * Power(i)) \div 1000 >= 1024}
        e == Min(large) - 1
    IN  IF v <= 0 \/ large = {} THEN 0
        ELSE IF e = -1 THEN 2048 + v \div 2000
        ELSE ((32 - e) % 32) * 2048 + (v * Power(e)) \div 1000

\* slinear11_2_float and slinear11_2_int, both fields in two's complement: mantissa
\* and exponent.
Exponent(w) == IF w \div 2048 >= 16 THEN w \div 2048 - 32 ELSE w \div 2048
Mantissa(w) == IF w % 2048 >= 1024 THEN (w % 2048) - 2048 ELSE w % 2048
Slinear2Float(w) ==
    IF Exponent(w) >= 0 THEN 1000 * Mantissa(w) * Power(Exponent(w))
    ELSE (1000 * Mantissa(w)) \div Power(-Exponent(w))

\* float_2_ulinear16: VOUT_MODE, fixed by the hardware, has the exponent -9.
Float2Ulinear16(v) == IF ~modeValid THEN 0 ELSE ((v * 512) \div 1000) % 65536

\* ulinear16_2_float
Ulinear2Float(w) == (w * 1000) \div 512

-----------------------------------------------------------------------------

\* TPS546_write_entire_config: the registers whose values are converted, in the
\* order in which they are written.  A warning limit of 0 is not written.
Config ==
    LET b == Board[family]
    IN  <<[reg |-> "FREQUENCY", format |-> "int", value |-> 650]>>
        \o (IF b.uvWarn > 0 THEN <<[reg |-> "VIN_UV_WARN", format |-> "float", value |-> b.uvWarn]>>
            ELSE <<>>)
        \o <<[reg |-> "VIN_ON", format |-> "float", value |-> b.on],
          [reg |-> "VIN_OFF", format |-> "float", value |-> b.off],
          [reg |-> "VIN_OV_FAULT", format |-> "float", value |-> b.ov],
          [reg |-> "SCALE_LOOP", format |-> "float", value |-> b.scale],
          [reg |-> "VOUT_COMMAND", format |-> "volts", value |-> b.command],
          [reg |-> "VOUT_MAX", format |-> "volts", value |-> b.max],
          [reg |-> "VOUT_MIN", format |-> "volts", value |-> b.min],
          [reg |-> "VOUT_OV_FAULT", format |-> "volts", value |-> 1250],
          [reg |-> "VOUT_OV_WARN", format |-> "volts", value |-> 1160],
          [reg |-> "MARGIN_HIGH", format |-> "volts", value |-> 1100],
          [reg |-> "MARGIN_LOW", format |-> "volts", value |-> 900],
          [reg |-> "VOUT_UV_WARN", format |-> "volts", value |-> 900],
          [reg |-> "VOUT_UV_FAULT", format |-> "volts", value |-> 750],
          [reg |-> "IOUT_OC_WARN", format |-> "float", value |-> b.ocWarn],
          [reg |-> "IOUT_OC_FAULT", format |-> "float", value |-> b.ocFault],
          [reg |-> "OT_WARN", format |-> "int", value |-> 105],
          [reg |-> "OT_FAULT", format |-> "int", value |-> 145],
          [reg |-> "TON_DELAY", format |-> "int", value |-> 0],
          [reg |-> "TON_RISE", format |-> "int", value |-> 3],
          [reg |-> "TON_MAX_FAULT", format |-> "int", value |-> 0],
          [reg |-> "TOFF_DELAY", format |-> "int", value |-> 0],
          [reg |-> "TOFF_FALL", format |-> "int", value |-> 0]>>

Registers == {"FREQUENCY", "VIN_UV_WARN", "VIN_ON", "VIN_OFF", "VIN_OV_FAULT", "SCALE_LOOP",
              "VOUT_COMMAND", "VOUT_MAX", "VOUT_MIN", "VOUT_OV_FAULT", "VOUT_OV_WARN",
              "VOUT_UV_WARN", "VOUT_UV_FAULT", "IOUT_OC_WARN", "IOUT_OC_FAULT", "OT_WARN",
              "OT_FAULT", "TON_DELAY", "TON_RISE", "TON_MAX_FAULT", "TOFF_DELAY", "TOFF_FALL",
              "MARGIN_HIGH", "MARGIN_LOW"}

\* What a register holds at power-on is not known to the driver.
Unknown == -1

Encoded(c) == CASE c.format = "int" -> Int2Slinear11(c.value)
                [] c.format = "float" -> Float2Slinear11(c.value)
                [] c.format = "volts" -> Float2Ulinear16(c.value)

\* Every register holds sixteen bits, or what it held at power-on.
RegTypeOK ==
    /\ regStep \in {"id", "off", "mode", "config", "compensation", "failed", "ready",
                    "command", "turnOn", "readBack"}
    /\ DOMAIN word = Registers
    /\ \A r \in Registers : word[r] = Unknown \/ word[r] \in 0 .. 65535
    /\ powerFault \in BOOLEAN /\ operation \in BOOLEAN /\ modeValid \in BOOLEAN
    /\ lost \subseteq Registers

Booting ==
    /\ regStep' = "id" /\ attempt' = 0 /\ modeValid' = FALSE /\ request' = 0
    /\ powerFault' = FALSE /\ readFailures' = 0

RegInit ==
    /\ family \in Families /\ regStep = "id" /\ attempt = 0 /\ modeValid = FALSE
    /\ word = [r \in Registers |-> Unknown] /\ operation = FALSE /\ request = 0
    /\ powerFault = FALSE /\ readFailures = 0 /\ tripped = FALSE /\ glitches = 0
    /\ regResets = 0 /\ lost = {} /\ refused = FALSE

\* A transfer on the bus succeeds or not.
Transfer(ok) ==
    /\ ok \in BOOLEAN
    /\ glitches' = IF ok THEN glitches ELSE glitches + 1
    /\ glitches' <= MaxGlitches

chip == <<word, operation, lost>>
kept == <<family, regResets, refused>>

-----------------------------------------------------------------------------
(* TPS546_init *)

\* The device ID, or later VOUT_MODE, is read again a few times before init fails.
Retried(ok, next) ==
    IF ok THEN regStep' = next /\ attempt' = 0
    ELSE IF attempt + 1 < Attempts THEN attempt' = attempt + 1 /\ UNCHANGED regStep
    ELSE regStep' = "failed" /\ attempt' = 0

ReadId ==
    /\ regStep = "id"
    /\ \E ok \in BOOLEAN : Transfer(ok) /\ Retried(ok, "off")
    /\ UNCHANGED <<modeValid, request, powerFault, readFailures, tripped, chip, kept>>

\* The output is turned off; a failure of that goes unnoticed.
InitOff ==
    /\ regStep = "off"
    /\ \E ok \in BOOLEAN : Transfer(ok) /\ operation' = (operation /\ ~ok)
    /\ regStep' = "mode"
    /\ UNCHANGED <<attempt, modeValid, word, request, powerFault, readFailures, tripped, lost,
                   kept>>

ReadVoutMode ==
    /\ regStep = "mode"
    /\ \E ok \in BOOLEAN : Transfer(ok) /\ Retried(ok, "config") /\ modeValid' = ok
    /\ UNCHANGED <<request, powerFault, readFailures, tripped, chip, kept>>

\* One write of TPS546_write_entire_config, whose result is ignored.
WriteConfig ==
    /\ regStep = "config"
    /\ LET c == Config[attempt + 1]
       IN  \E ok \in BOOLEAN :
              /\ Transfer(ok)
              /\ word' = IF ok THEN [word EXCEPT ![c.reg] = Encoded(c)] ELSE word
              /\ lost' = IF ok THEN lost \ {c.reg} ELSE lost \cup {c.reg}
    /\ IF attempt + 1 = Len(Config) THEN regStep' = "compensation" /\ attempt' = 0
       ELSE attempt' = attempt + 1 /\ UNCHANGED regStep
    /\ UNCHANGED <<modeValid, operation, request, powerFault, readFailures, tripped, kept>>

\* The settings are shown; only the compensation registers must be readable.  Then
\* the latched faults are cleared, which may fail unnoticed.
InitEnds ==
    /\ regStep = "compensation"
    /\ \E ok \in BOOLEAN :
          /\ Transfer(ok)
          /\ regStep' = IF ok THEN "ready" ELSE "failed"
          /\ tripped' \in IF ok THEN {FALSE, tripped} ELSE {tripped}
    /\ UNCHANGED <<attempt, modeValid, request, powerFault, readFailures, chip, kept>>

-----------------------------------------------------------------------------
(* VCORE_set_voltage *)

\* Zero turns the output off; a voltage out of the board's range is refused.
SetVout ==
    /\ regStep = "ready"
    /\ \E core \in Asked \cup {0, VoltageMin(Board[family])} :
          LET volts == core * Board[family].domains
              inRange == volts \in Board[family].min .. Board[family].max
          IN  \/ /\ core = 0
                 /\ \E ok \in BOOLEAN : Transfer(ok) /\ operation' = (operation /\ ~ok)
                 /\ UNCHANGED <<regStep, request, refused>>
              \/ /\ core # 0 /\ ~inRange
                 /\ refused' = (refused \/ core = VoltageMin(Board[family]))
                 /\ UNCHANGED <<regStep, operation, request, glitches>>
              \/ /\ core # 0 /\ inRange /\ regStep' = "command" /\ request' = volts
                 /\ UNCHANGED <<operation, refused, glitches>>
    /\ UNCHANGED <<family, attempt, modeValid, word, powerFault, readFailures, tripped,
                   regResets, lost>>

\* Mutant: a failed VOUT_COMMAND is not an error.
Mut_SetCommand ==
    /\ regStep = "command"
    /\ \E ok \in BOOLEAN :
          /\ Transfer(ok)
          /\ IF ok THEN word' = [word EXCEPT !.VOUT_COMMAND = Float2Ulinear16(request)]
             ELSE UNCHANGED word
    /\ regStep' = "turnOn"
    /\ UNCHANGED <<attempt, modeValid, operation, request, powerFault, readFailures, tripped,
                   lost, kept>>

\* VOUT_COMMAND comes first: if it cannot be written the output is not turned on.
SetCommand ==
    /\ regStep = "command"
    /\ \E ok \in BOOLEAN :
          /\ Transfer(ok)
          /\ IF ok THEN /\ word' = [word EXCEPT !.VOUT_COMMAND = Float2Ulinear16(request)]
                        /\ lost' = lost \ {"VOUT_COMMAND"}
             ELSE UNCHANGED <<word, lost>>
          /\ regStep' = IF ok THEN "turnOn" ELSE "ready"
    /\ UNCHANGED <<attempt, modeValid, operation, request, powerFault, readFailures, tripped,
                   kept>>

TurnOn ==
    /\ regStep = "turnOn"
    /\ \E ok \in BOOLEAN :
          /\ Transfer(ok)
          /\ operation' = (operation \/ ok)
          /\ regStep' = IF ok THEN "readBack" ELSE "ready"
    /\ UNCHANGED <<attempt, modeValid, word, request, powerFault, readFailures, tripped, lost,
                   kept>>

\* OPERATION is read back; what it holds is only logged.
ReadBack ==
    /\ regStep = "readBack" /\ regStep' = "ready"
    /\ \E ok \in BOOLEAN : Transfer(ok)
    /\ UNCHANGED <<attempt, modeValid, request, powerFault, readFailures, tripped, chip, kept>>

-----------------------------------------------------------------------------
(* Telemetry and status *)

\* A getter returns the last value when its read fails; the failures are counted
\* over all getters and a success of any starts the count again.
Read ==
    /\ regStep = "ready"
    /\ \E ok \in BOOLEAN : Transfer(ok) /\ readFailures' = IF ok THEN 0 ELSE readFailures + 1
    /\ UNCHANGED <<regStep, attempt, modeValid, request, powerFault, tripped, chip, kept>>

\* TPS546_check_status: a fault is reported once the details behind it could be
\* read, or were not because the chip is busy; a fault already reported is not read
\* again.
CheckStatus ==
    /\ regStep = "ready"
    /\ \E ok, busy, details \in BOOLEAN :
          /\ details \/ (ok /\ tripped /\ ~powerFault /\ ~busy)
          /\ Transfer(ok /\ details)
          /\ powerFault' = IF ok /\ details THEN tripped ELSE powerFault
    /\ UNCHANGED <<regStep, attempt, modeValid, request, readFailures, tripped, chip, kept>>

\* The chip latches a fault.
ChipTrips ==
    /\ regStep = "ready" /\ ~tripped /\ tripped' = TRUE
    /\ UNCHANGED <<regStep, attempt, modeValid, request, powerFault, readFailures, glitches, chip,
                   kept>>

\* A reset of the ESP32: the registers of the chip stay.
EspReset ==
    /\ regResets < MaxRegResets /\ regResets' = regResets + 1
    /\ Booting
    /\ UNCHANGED <<family, word, operation, tripped, glitches, lost, refused>>

RegNext == \/ ReadId \/ InitOff \/ ReadVoutMode \/ WriteConfig \/ InitEnds
           \/ SetVout \/ SetCommand \/ TurnOn \/ ReadBack \/ Read \/ CheckStatus
           \/ ChipTrips \/ EspReset

RegSpec == RegInit /\ [][RegNext]_regVars

-----------------------------------------------------------------------------
(* Properties *)

\* Whatever transfers fail and whenever the ESP32 resets, an output that is on has
\* been commanded to a voltage of the board's range, to within one step of the
\* format; and the minimum that the tuning limits hand out is never refused.
OutputAsAsked ==
    /\ operation => LET v == Ulinear2Float(word["VOUT_COMMAND"])
                    IN  v \in Board[family].min - 2 .. Board[family].max
    /\ ~refused

\* What a register reads back as: no more than what was asked for, and less by at
\* most one part in 512.
ReadsBack(c) ==
    LET back == IF c.format = "volts" THEN Ulinear2Float(word[c.reg])
                ELSE Slinear2Float(word[c.reg])
        asked == IF c.format = "int" THEN 1000 * c.value ELSE c.value
    IN  back <= asked /\ asked - back <= asked \div 512 + 2

\* A limit whose write did not fail reads back from the chip as the board asks, to
\* within one part in 512; so the input switches off below where it switches on, and
\* every warning comes before its fault.
LimitsProgrammed ==
    regStep \in {"ready", "command", "turnOn", "readBack"} =>
       LET config == Config
       IN  \A i \in DOMAIN config :
              config[i].reg \in lost \cup {"VOUT_COMMAND"} \/ ReadsBack(config[i])
=============================================================================
