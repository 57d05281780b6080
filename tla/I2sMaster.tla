----------------------------- MODULE I2sMaster ------------------------------
(***************************************************************************)
(* The I2S transmitter (i2s_master.v), one operator per register or pair   *)
(* of registers.  The master clock output, which nothing reads back, is    *)
(* left out.  A sample stays a value: the 64-bit shift register is the     *)
(* sample it was loaded with and the number of bits shifted out since.     *)
(***************************************************************************)
EXTENDS Naturals

CONSTANTS
  Silence,    \* the sample of 48 zero bits
  FrameBits   \* sclk periods of a stereo frame, 64 in the code

VARIABLES
  sclk,           \* the bit clock
  sclk_counter,   \* the bit of the frame
  lrclk,          \* the channel clock
  buffer,         \* [word, shifts]: the shift register
  request_fifo,   \* a new sample is wanted
  fifo_ready,     \* read pulse to the FIFO
  fifo_reg        \* the sample of the next frame

i2sVars ==
  <<sclk, sclk_counter, lrclk, buffer, request_fifo, fifo_ready, fifo_reg>>

HalfFrame == FrameBits \div 2
LastBit == FrameBits - 1

(* A zero buffer looks the same after any number of shifts: it is counted  *)
(* as the end of a frame, where reset leaves sclk_counter.                 *)
Blank == [word |-> Silence, shifts |-> FrameBits - 2]

(* Shifting past the last bit leaves zeros. *)
ShiftLeft(b) == [b EXCEPT !.shifts = IF @ < LastBit THEN @ + 1 ELSE @]

(* The falling edge of sclk, on which all of the transmitter moves. *)
BitDone(clk_en, sclk_en) == clk_en /\ sclk_en /\ sclk

SerialClock(rst, clk_en, sclk_en) ==
  /\ sclk' = IF rst THEN FALSE
             ELSE IF clk_en /\ sclk_en THEN ~sclk ELSE sclk
  /\ sclk_counter' = IF rst THEN LastBit
                     ELSE IF BitDone(clk_en, sclk_en)
                          THEN (sclk_counter + 1) % FrameBits
                          ELSE sclk_counter

(* Mutant: the channel clock changes a bit late. *)
ChannelClockLate(rst, clk_en, sclk_en) ==
  lrclk' = IF rst THEN TRUE
           ELSE IF BitDone(clk_en, sclk_en)
                THEN sclk_counter \in HalfFrame .. LastBit - 1 ELSE lrclk

(* The channel clock changes one bit ahead of the channel. *)
ChannelClock(rst, clk_en, sclk_en) ==
  lrclk' = IF rst THEN TRUE
           ELSE IF BitDone(clk_en, sclk_en)
                THEN sclk_counter \in HalfFrame - 1 .. LastBit - 1 ELSE lrclk

(* The sample of a frame is loaded in bit 0. *)
Shifter(rst, clk_en, sclk_en) ==
  buffer' = IF rst THEN Blank
            ELSE IF ~BitDone(clk_en, sclk_en) THEN buffer
            ELSE IF sclk_counter = 0 THEN [word |-> fifo_reg, shifts |-> 0]
            ELSE ShiftLeft(buffer)

(* Mutant: only a reset asks for a sample. *)
RequestOnce(rst, clk_en, sclk_en) ==
  request_fifo' = 
    (rst \/ (request_fifo /\ ~(BitDone(clk_en, sclk_en) /\ sclk_counter = 0)))

(* The last bit asks for another sample, until the first bit has it. *)
Request(rst, clk_en, sclk_en) ==
  request_fifo' = IF rst THEN TRUE
                  ELSE IF BitDone(clk_en, sclk_en) /\ sclk_counter = 0 THEN FALSE
                  ELSE IF BitDone(clk_en, sclk_en) /\ sclk_counter = LastBit THEN TRUE
                  ELSE request_fifo

(* The FIFO process looks for a sample in this cycle. *)
Wanted(clk_en, sclk_en) == BitDone(clk_en, sclk_en) /\ request_fifo

(* Mutant: the FIFO is read without looking whether it is empty. *)
ReadPulseBlind(rst, clk_en, sclk_en, fifo_valid) ==
  fifo_ready' = (~rst /\ IF clk_en THEN Wanted(clk_en, sclk_en) ELSE fifo_ready)

(* An empty FIFO is not read.  All of this process waits for clk_en, the   *)
(* end of the pulse too.                                                   *)
ReadPulse(rst, clk_en, sclk_en, fifo_valid) ==
  fifo_ready' = (~rst /\ IF clk_en THEN Wanted(clk_en, sclk_en) /\ fifo_valid
                                   ELSE fifo_ready)

(* Mutant: an empty FIFO leaves the last sample in place of silence. *)
FifoRegisterRepeats(rst, clk_en, sclk_en, fifo_data, fifo_valid) ==
  fifo_reg' = IF rst THEN Silence
              ELSE IF Wanted(clk_en, sclk_en) THEN fifo_data ELSE fifo_reg

(* The word on the FIFO's output port is taken before the read pulse that  *)
(* replaces it; an empty FIFO gives silence.                               *)
FifoRegister(rst, clk_en, sclk_en, fifo_data, fifo_valid) ==
  fifo_reg' = IF rst THEN Silence
              ELSE IF ~Wanted(clk_en, sclk_en) THEN fifo_reg
              ELSE IF fifo_valid THEN fifo_data ELSE Silence

Clock(rst, clk_en, sclk_en, fifo_data, fifo_valid) ==
  /\ SerialClock(rst, clk_en, sclk_en)
  /\ ChannelClock(rst, clk_en, sclk_en)
  /\ Shifter(rst, clk_en, sclk_en)
  /\ Request(rst, clk_en, sclk_en)
  /\ ReadPulse(rst, clk_en, sclk_en, fifo_valid)
  /\ FifoRegister(rst, clk_en, sclk_en, fifo_data, fifo_valid)

(* After a reset. *)
Init ==
  /\ sclk = FALSE
  /\ sclk_counter = LastBit
  /\ lrclk = TRUE
  /\ buffer = Blank
  /\ request_fifo = TRUE
  /\ fifo_ready = FALSE
  /\ fifo_reg = Silence

TypeOK ==
  /\ {sclk, lrclk, request_fifo, fifo_ready} \subseteq BOOLEAN
  /\ sclk_counter \in 0 .. LastBit
  /\ buffer.shifts \in 0 .. LastBit
=============================================================================
