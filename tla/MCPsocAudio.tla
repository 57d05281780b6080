---------------------------- MODULE MCPsocAudio -----------------------------
(***************************************************************************)
(* The audio block for TLC.  Software resets the block, plays over I2S or  *)
(* plays over the DAC, and looks at the pin multiplexer; the larger set    *)
(* adds switching all of it off and the threshold register.                *)
(***************************************************************************)
EXTENDS PsocAudio

WriteCtrl(bits) == Access(TRUE, "CTRL0", bits, 0)

Playing == {WriteCtrl(b) : b \in {{"RST"}, {"I2S_EN"}, {"DAC_MODE", "DAC_EN"}}}
Sharing == Playing \cup {Access(FALSE, "SYSINFO", {}, 0)}
AllSettings == Sharing \cup {WriteCtrl({}), Access(TRUE, "FIFO_LOW", {}, 1),
                              Access(TRUE, "FN", {0}, 0)}
=============================================================================
