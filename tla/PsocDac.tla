------------------------------ MODULE PsocDac -------------------------------
(***************************************************************************)
(* The front end of the built-in DAC (psoc_dac_fpga.v): the sample rate    *)
(* divider and the registers that take samples from the FIFO.  The offset  *)
(* that makes a sample unsigned is a bijection on the samples and is left  *)
(* out, as is the delta-sigma modulator, which feeds only the pins.        *)
(***************************************************************************)
EXTENDS Naturals

CONSTANTS
  Silence,   \* the sample of zeros
  DacDiv     \* clocks per sample, 2048 in the code

VARIABLES
  dac_c,         \* divider
  clk_en_2048,   \* high in one of DacDiv clocks
  fifo_valid,    \* the FIFO was not empty when it was last read
  shifted        \* the sample being output

dacVars == <<dac_c, clk_en_2048, fifo_valid, shifted>>

fifo_ready(enable) == clk_en_2048 /\ enable

(* Mutant: the divider counts on past its width. *)
DividerUnwrapped(rst) ==
  IF rst THEN clk_en_2048' = FALSE /\ dac_c' = 0
  ELSE /\ clk_en_2048' = (dac_c = 0)
       /\ dac_c' = dac_c + 1

(* Mutant: the strobe lasts two clocks. *)
DividerWideStrobe(rst) ==
  IF rst THEN clk_en_2048' = FALSE /\ dac_c' = 0
  ELSE /\ clk_en_2048' = (dac_c \in {0, 1})
       /\ dac_c' = (dac_c + 1) % DacDiv

Divider(rst) ==
  IF rst THEN clk_en_2048' = FALSE /\ dac_c' = 0
  ELSE /\ clk_en_2048' = CASE dac_c = 0 -> TRUE
                           [] dac_c = 1 -> FALSE
                           [] OTHER -> clk_en_2048
       /\ dac_c' = (dac_c + 1) % DacDiv

(* Mutant: the port is converted whether or not its read found a word. *)
TakeSampleBlind(rst, enable, fifo_data, fifo_empty) ==
  IF rst THEN shifted' = Silence /\ fifo_valid' = FALSE
  ELSE IF fifo_ready(enable) THEN fifo_valid' = ~fifo_empty /\ shifted' = fifo_data
  ELSE UNCHANGED <<fifo_valid, shifted>>

(* The output port holds the word of the previous read, so it is used only *)
(* if that read found one.                                                 *)
TakeSample(rst, enable, fifo_data, fifo_empty) ==
  IF rst THEN shifted' = Silence /\ fifo_valid' = FALSE
  ELSE IF fifo_ready(enable) THEN
    /\ fifo_valid' = ~fifo_empty
    /\ shifted' = IF fifo_valid THEN fifo_data ELSE shifted
  ELSE UNCHANGED <<fifo_valid, shifted>>

Clock(rst, enable, fifo_data, fifo_empty) ==
  /\ Divider(rst)
  /\ TakeSample(rst, enable, fifo_data, fifo_empty)

Init ==
  /\ dac_c = 0
  /\ clk_en_2048 = FALSE
  /\ fifo_valid = FALSE
  /\ shifted = Silence

TypeOK ==
  /\ dac_c \in 0 .. DacDiv - 1
  /\ {clk_en_2048, fifo_valid} \subseteq BOOLEAN
=============================================================================
