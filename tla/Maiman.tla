------------------------------- MODULE Maiman -------------------------------
(***************************************************************************)
(* The readings of a Maiman laser driver: a 16-bit register, the divider   *)
(* of its unit, and what a getter returns when readU16() fails.  Values    *)
(* are in thousandths.  executor_task uses the level alone, through        *)
(* getCurrent(), which tells a failure apart.                              *)
(***************************************************************************)
EXTENDS Integers

Registers16 == 0 .. 65535
Failed      == -1      \* readU16() returned false

Temperatures == {"TecTemperatureMeasured", "PcbTemperatureMeasured", "TecTemperatureValue"}
Hundredths   == {"CurrentMeasured", "VoltageMeasured", "CurrentMaxLimit",
                 "CurrentProtectionThreshold", "CurrentSetCalibration", "TecCurrentMeasured",
                 "TecVoltage"}
Thousandths  == {"Frequency", "Duration", "NtcB25_100Coefficient"}
Quantities   == Temperatures \union Hundredths \union Thousandths

toSigned(raw) == IF raw < 32768 THEN raw ELSE raw - 65536

\* The value of a register: DIVIDER_TEMPERATURE is 10, those of the others 100 or 1000.
Unit(q) == IF q \in Temperatures THEN 100 ELSE IF q \in Hundredths THEN 10 ELSE 1

Scaled(q, raw) == Unit(q) * (IF q \in Temperatures THEN toSigned(raw) ELSE raw)

\* -273.15 degrees, or -1.
Refusal(q) == IF q \in Temperatures THEN -273150 ELSE -1000

\* getTecTemperatureMeasured() and the other getters.
Reading(q, answer) == IF answer = Failed THEN Refusal(q) ELSE Scaled(q, answer)

\* getSerialNumber() and getRawStatus(): a failure reads as 0.
getRawStatus(answer) == IF answer = Failed THEN 0 ELSE answer

Flag == [OperationStarted |-> 1, CurrentSetInternal |-> 2, EnableInternal |-> 4,
         ExternalNtcDenied |-> 8, InterlockDenied |-> 16]

\* isOperationStarted() and the others; the flags are single bits.
isBitSet(answer, f) == (getRawStatus(answer) \div Flag[f]) % 2 = 1
=============================================================================
