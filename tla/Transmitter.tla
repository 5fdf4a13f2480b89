----------------------------- MODULE Transmitter -----------------------------
(***************************************************************************)
(* The demo's transmitters (firmware/feather_cw/feather_cw.ino).           *)
(*                                                                         *)
(* A board takes commands over its serial line.  Its settings are kept in  *)
(* RAM and copied to the registers of the radio chip, which alone decide   *)
(* what is radiated; not every command copies at once.  Frequencies are in *)
(* bins of the sweep that looks at them, and so is the ppm offset, which   *)
(* the code turns into a shift of the nominal frequency; the rounding to   *)
(* synthesiser steps is finer than a bin and left out.                     *)
(***************************************************************************)
EXTENDS Integers

CONSTANTS
  Board,
  DefaultNominal, \* the frequency the firmware is flashed with
  LeastNominal,   \* no frequency up to this one is taken for a nominal one
  NominalArg,     \* what Serial.parseFloat may return for 'f'
  OffsetArg,      \* ... and for 'o'
  PowerArg,       \* what Serial.parseInt may return for 'p'
  MaxCommands     \* bound: commands that change something

ASSUME TransmitterAssumption ==
  /\ DefaultNominal \in Int /\ LeastNominal \in Int /\ MaxCommands \in Nat
  /\ NominalArg \subseteq Int /\ OffsetArg \subseteq Int /\ PowerArg \subseteq Int

VARIABLES
  board,   \* each board's settings and registers
  commands \* how many commands have changed something

transmitterVars == <<board, commands>>

TopLevel == 31

EffectiveFrequency(b) == b.nominal + b.offset

ApplyFrequency(b) == [b EXCEPT !.regFreq = EffectiveFrequency(b)]

ApplyPowerAsIs(b) == [b EXCEPT !.regLevel = b.power]

\* powerLevel is a uint8_t; the register takes five bits.
ApplyPower(b) ==
  [b EXCEPT !.regLevel = IF b.power > TopLevel THEN TopLevel ELSE b.power]

\* setup(): what a board is after power-up or reset.
Fresh ==
  ApplyPower(ApplyFrequency(
    [nominal |-> DefaultNominal, offset |-> 0, power |-> 0,
     transmitting |-> FALSE, regMode |-> "standby", regFreq |-> 0, regLevel |-> 0]))

StartTransmittingAsIs(b) ==
  [b EXCEPT !.regMode = "transmit", !.transmitting = TRUE]

StartTransmitting(b) ==
  [ApplyPower(ApplyFrequency(b)) EXCEPT !.regMode = "transmit", !.transmitting = TRUE]

StopTransmitting(b) == [b EXCEPT !.regMode = "standby", !.transmitting = FALSE]

Toggle(b) == IF b.transmitting THEN StopTransmitting(b) ELSE StartTransmitting(b)

\* The argument is cut to eight bits, whatever was typed.
SetPower(b, n) == ApplyPower([b EXCEPT !.power = n % 256])

ApplyIfTransmitting(b) == IF b.transmitting THEN ApplyFrequency(b) ELSE b

SetOffset(b, n) == ApplyIfTransmitting([b EXCEPT !.offset = n])

SetNominal(b, n) ==
  IF n > LeastNominal THEN ApplyIfTransmitting([b EXCEPT !.nominal = n]) ELSE b

Init ==
  /\ board = [x \in Board |-> Fresh]
  /\ commands = 0

Becomes(x, b) ==
  /\ b # board[x] => commands < MaxCommands
  /\ commands' = IF b = board[x] THEN commands ELSE commands + 1
  /\ board' = [board EXCEPT ![x] = b]

\* loop(): one command letter and its argument.  '?' changes nothing.
Command(x) ==
  \/ Becomes(x, Toggle(board[x]))
  \/ \E n \in PowerArg : Becomes(x, SetPower(board[x], n))
  \/ \E n \in OffsetArg : Becomes(x, SetOffset(board[x], n))
  \/ \E n \in NominalArg : Becomes(x, SetNominal(board[x], n))

\* The board is switched off and on, or reset: its settings are gone.
PowerCycle(x) == Becomes(x, Fresh)

----------------------------------------------------------------------------
TypeOK ==
  /\ board \in [Board -> [nominal : Int, offset : Int, power : 0..255,
                          transmitting : BOOLEAN, regMode : {"standby", "transmit"},
                          regFreq : Int, regLevel : 0..TopLevel]]
  /\ commands \in 0..MaxCommands

=============================================================================
