------------------------------- MODULE WbXbar -------------------------------
(***************************************************************************)
(* The crossbar between the processor's external bus and its slaves        *)
(* (wb_xbar.v), and the register file of the pin multiplexer               *)
(* (io_wb_regfile.v), the neighbour of the audio block on it.  The         *)
(* crossbar is combinational: the address selects the slave that sees stb  *)
(* and cyc, and the answers of all slaves are simply ORed, so every slave  *)
(* has to be quiet while it is not addressed.                              *)
(***************************************************************************)
CONSTANTS
  Pads   \* the pads with a second function, 22 in the code

VARIABLES gpio_oe, gpio_fn, io_dat, io_ack

ioVars == <<gpio_oe, gpio_fn, io_dat, io_ack>>

Zero == [bits |-> {}, number |-> 0]

(* The address decoder. *)
io_sel(r) == r.adr \in {"OE", "FN", "SYSINFO"}
i2s_sel(r) == r.adr \in {"CTRL0", "STAT0", "FIFO_LOW", "FIFO_LEVEL", "AUDIO_LEFT", "AUDIO_RIGHT"}

(* What the processor sees of the answers of the slaves. *)
wb_ack_o(acks) == TRUE \in acks
wb_dat_bits(answers) == UNION {d.bits : d \in answers}

(* The registers of the multiplexer, as sets of pads. *)
IoContents(adr) == CASE adr = "OE" -> [bits |-> gpio_oe, number |-> 0]
                     [] adr = "FN" -> [bits |-> gpio_fn, number |-> 0]
                     [] adr = "SYSINFO" -> [bits |-> {"B50C"}, number |-> 0]
                     [] OTHER -> Zero

(* This slave never stalls. *)
IoClock(rst, stb, cyc, r) ==
  /\ io_dat' = IF cyc /\ io_sel(r) /\ ~r.we THEN IoContents(r.adr) ELSE Zero
  /\ io_ack' = (~rst /\ cyc /\ io_sel(r))
  /\ gpio_oe' = IF rst THEN {} ELSE IF stb /\ r.we /\ r.adr = "OE" THEN r.data.bits ELSE gpio_oe
  /\ gpio_fn' = IF rst THEN {} ELSE IF stb /\ r.we /\ r.adr = "FN" THEN r.data.bits ELSE gpio_fn

IoInit == io_dat = Zero /\ io_ack = FALSE /\ gpio_oe = {} /\ gpio_fn = {}

TypeOK ==
  /\ gpio_oe \subseteq Pads /\ gpio_fn \subseteq Pads
  /\ io_ack \in BOOLEAN
=============================================================================
