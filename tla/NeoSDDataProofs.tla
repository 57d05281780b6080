--------------------------- MODULE NeoSDDataProofs ---------------------------
(***************************************************************************)
(* The data lines, proved for every block size, card clock, timing of the  *)
(* card and lateness of the driver: a block that is written is on the line *)
(* bit by bit when the card looks, the words that are read come once and   *)
(* in order, a written block is judged by the whole answer of the card,    *)
(* and a read that returns has all its words.  The card does not start a   *)
(* block before its response is over (~EarlyData; NeoSDEarly.cfg shows     *)
(* what happens if it does).                                               *)
(*                                                                         *)
(* The invariant is DataInv (NeoSDInvariant), on top of IInv.  First the   *)
(* lines: the data state machine, the shift register and the card count    *)
(* the same bits (Wired), because the clock stops while a word is awaited. *)
(* Then the words: what the driver has taken or given is whole blocks and  *)
(* the part of one that the state machine stands at (DataFlow), and the    *)
(* blocks that the driver has counted are done.                            *)
(***************************************************************************)
EXTENDS NeoSDDriverProofs

-----------------------------------------------------------------------------
(* One step of the data state machine. *)

(* The bits of a block before its last w words. *)
LEMMA PassedBits ==
  ASSUME NEW w \in 0 .. Words
  PROVE  /\ Passed(w) \in Nat /\ Passed(Words) = 0 /\ Passed(0) = Sd!BlockBits
         /\ w > 0 => /\ w - 1 \in 0 .. Words
                     /\ Passed(w - 1) = Passed(w) + WordBits
                     /\ Passed(w) + WordBits <= Sd!BlockBits
<1>1. Words \in Nat \ {0} /\ WordBits \in Nat \ {0}
  BY Constants
<1>2. /\ \A x, y \in Nat : x * y \in Nat
      /\ \A y \in Nat : 0 * y = 0
      /\ \A x, y \in Nat : (x + 1) * y = x * y + y
  OBVIOUS
<1>3. Words - w \in Nat /\ Words - Words = 0 /\ Words - 0 = Words
  BY <1>1
<1>4. Passed(w) \in Nat /\ Passed(Words) = 0 /\ Passed(0) = Sd!BlockBits
  BY <1>1, <1>2, <1>3 DEF Passed, Sd!BlockBits
<1>5. ASSUME w > 0
      PROVE  /\ w - 1 \in 0 .. Words
             /\ Passed(w - 1) = Passed(w) + WordBits
             /\ Passed(w) + WordBits <= Sd!BlockBits
  <2>1. w - 1 \in 0 .. Words /\ Words - (w - 1) = (Words - w) + 1
    BY <1>1, <1>5
  <2>2. Passed(w - 1) = Passed(w) + WordBits
    BY <1>1, <1>2, <1>3, <2>1 DEF Passed
  <2>3. (Words - w) + 1 \in Nat /\ w - 1 \in Nat /\ Words = ((Words - w) + 1) + (w - 1)
    BY <1>1, <1>5
  <2> DEFINE x == (Words - w) + 1
             y == w - 1
  <2>4. x \in Nat /\ y \in Nat /\ Words = x + y
    BY <2>3
  <2> HIDE DEF x, y
  <2>5. Words * WordBits = x * WordBits + y * WordBits /\ y * WordBits \in Nat
          /\ x * WordBits \in Nat
    BY <1>1, <2>4
  <2>6. x * WordBits <= Words * WordBits
    BY <2>5, <1>1
  <2>7. x * WordBits = Passed(w) + WordBits
    BY <1>1, <1>2, <1>3 DEF x, Passed
  <2> QED BY <2>1, <2>2, <2>6, <2>7 DEF Sd!BlockBits
<1> QED BY <1>4, <1>5

-----------------------------------------------------------------------------
(* One strobe of the data state machine, as far as the data lines depend   *)
(* on it.                                                                  *)

(* The state that the data state machine goes to.                          *)
Becomes(e, s, bit, word) == e.state = s /\ e.bit = bit /\ e.word = word

(* Reading. *)
ReadGoes(d, e, low) ==
  \/ d.state = "WAIT_BLOCK" /\ ~(Sd!sd_clk_en /\ low) /\ e.state = "WAIT_BLOCK"
  \/ d.state = "WAIT_BLOCK" /\ Sd!sd_clk_en /\ low /\ Becomes(e, "READ_BLOCK", 0, Words)
  \/ d.state = "READ_BLOCK" /\ d.bit + 1 < WordBits /\ Becomes(e, "READ_BLOCK", d.bit + 1, d.word)
  \/ d.state = "READ_BLOCK" /\ d.bit + 1 = WordBits /\ Becomes(e, "REGOUT", 0, d.word - 1)
  \/ d.state = "REGOUT" /\ ~Sd!acked /\ Becomes(e, "REGOUT", d.bit, d.word)
  \/ d.state = "REGOUT" /\ Sd!acked /\ d.word # 0 /\ Becomes(e, "READ_BLOCK", 0, d.word)
  \/ d.state = "REGOUT" /\ Sd!acked /\ d.word = 0 /\ Becomes(e, "READ_CRC", 0, 0)
  \/ d.state = "READ_CRC" /\ d.bit + 1 < CrcBits /\ Becomes(e, "READ_CRC", d.bit + 1, 0)
  \/ d.state = "READ_CRC" /\ d.bit + 1 = CrcBits /\ e.state = "READ_FINISH"
  \/ d.state = "READ_FINISH" /\ e.state = "WAIT_BLOCK"

(* Each state of a read moves as it should and keeps its registers. *)
LEMMA ReadsGo ==
  ASSUME NEW d, Shaped(d), Lined(d), ~d.block_done, NEW low \in BOOLEAN, NEW fits \in BOOLEAN,
         d.state \in ReadStates, d.state \in {"READ_BLOCK", "READ_CRC"} => Sd!sd_clk_en
  PROVE  LET e == Sd!ReadStep(d, low, fits)
         IN  /\ Lined(e) /\ ReadGoes(d, e, low)
             /\ e.block_done <=> d.state = "READ_FINISH"
<1> DEFINE e == Sd!ReadStep(d, low, fits)
           Goal == /\ Lined(e) /\ ReadGoes(d, e, low)
                   /\ e.block_done <=> d.state = "READ_FINISH"
<1> SUFFICES Goal
  OBVIOUS
<1>0. Words \in Nat \ {0} /\ WordBits \in Nat \ {0} /\ CrcBits \in Nat \ {0}
  BY Constants
<1>1. d \in DatRecord /\ d.bit \in Nat /\ d.word \in 0 .. Words
  BY DEF Shaped, DatRecord, WordRange
<1> DEFINE shorter == d.word - 1
           longer == d.bit + 1
<1>2. CASE d.state = "WAIT_BLOCK"
  <2>1. e = IF Sd!sd_clk_en /\ low
            THEN [d EXCEPT !.state = "READ_BLOCK", !.bit = 0, !.word = Words] ELSE d
    BY <1>2 DEF Sd!ReadStep
  <2> HIDE DEF e
  <2>2. CASE e = d /\ ~(Sd!sd_clk_en /\ low)
    BY <1>2, <2>2 DEF ReadGoes
  <2>3. CASE e = [d EXCEPT !.state = "READ_BLOCK", !.bit = 0, !.word = Words]
             /\ Sd!sd_clk_en /\ low
    <3>1. /\ e.state = "READ_BLOCK" /\ e.bit = 0 /\ e.word = Words
          /\ e.clk_req = d.clk_req /\ e.clk_stall = d.clk_stall /\ e.oe = d.oe
          /\ e.shift = d.shift /\ e.rstn_reg = d.rstn_reg /\ e.block_done = d.block_done
      BY <1>1, <2>3 DEF DatRecord
    <3> HIDE DEF Goal
    <3>2. Lined(e)
      BY <1>0, <1>2, <3>1 DEF Lined, InBlock, ReadStates, WriteStates
    <3> QED BY <1>2, <2>3, <3>1, <3>2 DEF Goal, ReadGoes, Becomes
  <2> QED BY <2>1, <2>2, <2>3
<1>3. CASE d.state = "READ_BLOCK" /\ d.bit + 1 < WordBits
  <2>1. e = [d EXCEPT !.bit = longer]
    BY <1>0, <1>1, <1>3 DEF Sd!ReadStep, Sd!Counted
  <2> HIDE DEF e
  <2>2. /\ e.state = "READ_BLOCK" /\ e.bit = d.bit + 1 /\ e.word = d.word
        /\ e.clk_req = d.clk_req /\ e.clk_stall = d.clk_stall /\ e.oe = d.oe
        /\ e.shift = d.shift /\ e.rstn_reg = d.rstn_reg /\ e.block_done = d.block_done
    BY <1>1, <1>3, <2>1 DEF DatRecord
  <2> HIDE DEF Goal
  <2>3. Lined(e)
    BY <1>0, <1>1, <1>3, <2>2 DEF Lined, InBlock, ReadStates, WriteStates
  <2> QED BY <1>3, <2>2, <2>3 DEF Goal, ReadGoes, Becomes
<1>4. CASE d.state = "READ_BLOCK" /\ ~(d.bit + 1 < WordBits)
  <2>1. d.bit + 1 = WordBits /\ d.word - 1 < Words
    BY <1>0, <1>1, <1>4 DEF Lined
  <2>2. e = [d EXCEPT !.bit = 0, !.word = shorter, !.clk_stall = TRUE, !.state = "REGOUT"]
    BY <1>0, <1>1, <1>4, <2>1 DEF Sd!ReadStep, Sd!Counted
  <2> HIDE DEF e
  <2>3. /\ e.state = "REGOUT" /\ e.bit = 0 /\ e.word = d.word - 1
        /\ e.clk_req = d.clk_req /\ e.clk_stall = TRUE /\ e.oe = d.oe
        /\ e.shift = d.shift /\ e.rstn_reg = d.rstn_reg /\ e.block_done = d.block_done
    BY <1>1, <1>4, <2>2 DEF DatRecord
  <2> HIDE DEF Goal
  <2>4. Lined(e)
    BY <1>0, <1>1, <1>4, <2>1, <2>3 DEF Lined, InBlock, ReadStates, WriteStates
  <2> QED BY <1>4, <2>1, <2>3, <2>4 DEF Goal, ReadGoes, Becomes
<1>5. CASE d.state = "REGOUT" /\ ~Sd!acked
  <2>1. e = d
    BY <1>5 DEF Sd!ReadStep
  <2> QED BY <1>5, <2>1 DEF ReadGoes, Becomes
<1>6. CASE d.state = "REGOUT" /\ Sd!acked
  <2> DEFINE s == IF d.word = 0 THEN "READ_CRC" ELSE "READ_BLOCK"
  <2>1. e = [d EXCEPT !.clk_stall = FALSE, !.bit = 0, !.state = s]
    BY <1>6 DEF Sd!ReadStep
  <2>2. s \in DatStates /\ (s = "READ_CRC" <=> d.word = 0) /\ (s = "READ_BLOCK" <=> d.word # 0)
    BY DEF DatStates
  <2> HIDE DEF e, s
  <2>3. /\ e.state = s /\ e.bit = 0 /\ e.word = d.word
        /\ e.clk_req = d.clk_req /\ e.clk_stall = FALSE /\ e.oe = d.oe
        /\ e.shift = d.shift /\ e.rstn_reg = d.rstn_reg /\ e.block_done = d.block_done
    BY <1>1, <1>6, <2>1, <2>2 DEF DatRecord
  <2>4. s \in {"READ_CRC", "READ_BLOCK"}
    BY <2>2
  <2> HIDE DEF Goal
  <2>6. d.clk_req = TRUE /\ d.oe = FALSE /\ d.shift = TRUE /\ d.rstn_reg
    BY <1>6 DEF Lined, InBlock, ReadStates
  <2>5. Lined(e)
    BY <1>0, <2>2, <2>3, <2>4, <2>6 DEF Lined, InBlock, ReadStates, WriteStates
  <2> QED BY <1>6, <2>2, <2>3, <2>4, <2>5 DEF Goal, ReadGoes, Becomes
<1>7. CASE d.state = "READ_CRC" /\ d.bit + 1 < CrcBits
  <2>1. e = [d EXCEPT !.bit = longer]
    BY <1>0, <1>1, <1>7 DEF Sd!ReadStep, Sd!Counted
  <2> HIDE DEF e
  <2>2. /\ e.state = "READ_CRC" /\ e.bit = d.bit + 1 /\ e.word = d.word
        /\ e.clk_req = d.clk_req /\ e.clk_stall = d.clk_stall /\ e.oe = d.oe
        /\ e.shift = d.shift /\ e.rstn_reg = d.rstn_reg /\ e.block_done = d.block_done
    BY <1>1, <1>7, <2>1 DEF DatRecord
  <2> HIDE DEF Goal
  <2>3. Lined(e) /\ d.word = 0
    BY <1>0, <1>1, <1>7, <2>2 DEF Lined, InBlock, ReadStates, WriteStates
  <2> QED BY <1>7, <2>2, <2>3 DEF Goal, ReadGoes, Becomes
<1>8. CASE d.state = "READ_CRC" /\ ~(d.bit + 1 < CrcBits)
  <2>1. d.bit + 1 = CrcBits
    BY <1>0, <1>1, <1>8 DEF Lined
  <2>2. e = [d EXCEPT !.clk_stall = TRUE, !.rstn_reg = FALSE, !.state = "READ_FINISH"]
    BY <1>0, <1>1, <1>8, <2>1 DEF Sd!ReadStep, Sd!Counted
  <2> HIDE DEF e
  <2>3. /\ e.state = "READ_FINISH" /\ e.clk_req = d.clk_req /\ e.clk_stall = TRUE /\ e.oe = d.oe
        /\ e.shift = d.shift /\ e.block_done = d.block_done
    BY <1>1, <1>8, <2>2 DEF DatRecord
  <2> HIDE DEF Goal
  <2>4. Lined(e)
    BY <1>0, <1>1, <1>8, <2>3 DEF Lined, InBlock, ReadStates, WriteStates
  <2> QED BY <1>8, <2>1, <2>3, <2>4 DEF Goal, ReadGoes, Becomes
<1>9. CASE d.state = "READ_FINISH"
  <2>1. e = [d EXCEPT !.bit = 0, !.rstn_reg = TRUE, !.clk_stall = FALSE, !.crc_ok = fits,
                      !.block_done = TRUE, !.state = "WAIT_BLOCK"]
    BY <1>9 DEF Sd!ReadStep
  <2> HIDE DEF e
  <2>2. /\ e.state = "WAIT_BLOCK" /\ e.clk_req = d.clk_req /\ e.clk_stall = FALSE /\ e.oe = d.oe
        /\ e.shift = d.shift /\ e.rstn_reg = TRUE /\ e.block_done = TRUE
    BY <1>1, <1>9, <2>1 DEF DatRecord
  <2> HIDE DEF Goal
  <2>4. d.clk_req = TRUE /\ d.oe = FALSE /\ d.shift = TRUE
    BY <1>9 DEF Lined, InBlock, ReadStates
  <2>3. Lined(e)
    BY <2>2, <2>4 DEF Lined, InBlock, ReadStates, WriteStates
  <2> QED BY <1>9, <2>2, <2>3 DEF Goal, ReadGoes, Becomes
<1> QED BY <1>2, <1>3, <1>4, <1>5, <1>6, <1>7, <1>8, <1>9 DEF ReadStates

(* Writing. *)
WriteGoes(d, e, low) ==
  \/ d.state = "WRITE_REGIN" /\ ~Sd!acked /\ Becomes(e, "WRITE_REGIN", d.bit, d.word)
       /\ (e.write_start <=> d.write_start)
  \/ d.state = "WRITE_REGIN" /\ Sd!acked /\ d.write_start /\ Becomes(e, "WRITE_START", 0, d.word)
  \/ d.state = "WRITE_REGIN" /\ Sd!acked /\ ~d.write_start /\ Becomes(e, "WRITE_DATA", 0, d.word)
  \/ d.state = "WRITE_START" /\ Becomes(e, "WRITE_DATA", 0, Words)
  \/ d.state = "WRITE_DATA" /\ d.bit + 1 < WordBits /\ Becomes(e, "WRITE_DATA", d.bit + 1, d.word)
  \/ d.state = "WRITE_DATA" /\ d.bit + 1 = WordBits /\ d.word = 1 /\ Becomes(e, "WRITE_CRC", 0, 0)
  \/ d.state = "WRITE_DATA" /\ d.bit + 1 = WordBits /\ d.word # 1 /\ ~e.write_start
       /\ Becomes(e, "WRITE_REGIN", 0, d.word - 1)
  \/ d.state = "WRITE_CRC" /\ d.bit + 1 < CrcBits /\ Becomes(e, "WRITE_CRC", d.bit + 1, 0)
  \/ d.state = "WRITE_CRC" /\ d.bit + 1 = CrcBits /\ Becomes(e, "WRITE_STOP", 0, 0)
  \/ d.state = "WRITE_STOP" /\ Becomes(e, "WRITE_CHECK_CRC", 0, 0)
  \/ d.state = "WRITE_CHECK_CRC" /\ d.bit < Sd!TokenEnd
       /\ Becomes(e, "WRITE_CHECK_CRC", d.bit + 1, 0)
  \/ d.state = "WRITE_CHECK_CRC" /\ d.bit = Sd!TokenEnd /\ e.state = "WRITE_BUSY"
  \/ d.state = "WRITE_BUSY" /\ low /\ e.state = "WRITE_BUSY"
  \/ d.state = "WRITE_BUSY" /\ ~low /\ e.state = "WRITE_TAIL"
  \/ d.state = "WRITE_TAIL" /\ e.state = "WRITE_TAIL"
  \/ d.state = "WRITE_TAIL" /\ e.state = "WRITE_REGIN" /\ e.write_start

(* And of a write. *)
LEMMA WritesGo ==
  ASSUME NEW d, Shaped(d), Lined(d), ~d.block_done, NEW low \in BOOLEAN, NEW fits \in BOOLEAN,
         d.state \in WriteStates, d.state # "WRITE_REGIN" => Sd!sd_clk_en
  PROVE  LET e == Sd!WriteStep(d, low, fits)
         IN  /\ Lined(e) /\ WriteGoes(d, e, low)
             /\ e.block_done <=> d.state = "WRITE_BUSY" /\ ~low
<1> DEFINE e == Sd!WriteStep(d, low, fits)
           Goal == /\ Lined(e) /\ WriteGoes(d, e, low)
                   /\ e.block_done <=> d.state = "WRITE_BUSY" /\ ~low
<1> SUFFICES Goal
  OBVIOUS
<1>0. /\ Words \in Nat \ {0} /\ WordBits \in Nat \ {0} /\ CrcBits \in Nat \ {0}
      /\ TailBits \in Nat \ {0}
      /\ Lined(d) /\ ~d.block_done /\ (d.state # "WRITE_REGIN" => Sd!sd_clk_en)
      /\ d.state \in {"WRITE_BUSY", "WRITE_TAIL"} => d.write_start
  BY Constants DEF Shaped
<1>1. /\ d \in DatRecord /\ d.bit \in Nat /\ d.word \in 0 .. Words
      /\ d.state = "WRITE_DATA" => d.word > 0
  BY DEF Shaped, DatRecord, WordRange
<1> DEFINE shorter == d.word - 1
           longer == d.bit + 1
<1>2. CASE d.state = "WRITE_REGIN" /\ ~Sd!acked
  <2>1. e = d
    BY <1>0, <1>2 DEF Sd!WriteStep
  <2> QED BY <1>0, <1>2, <2>1 DEF WriteGoes, Becomes
<1>3. CASE d.state = "WRITE_REGIN" /\ Sd!acked /\ d.write_start
  <2>1. e = [d EXCEPT !.clk_stall = FALSE, !.bit = 0, !.omux = 0, !.oe = TRUE,
                     !.state = "WRITE_START"]
    BY <1>0, <1>1, <1>3 DEF Sd!WriteStep, Sd!Counted, Sd!WordSent, Sd!TokenEnd, Lined
  <2> HIDE DEF e
  <2>2. /\ e.state = "WRITE_START" /\ e.bit = 0 /\ e.word = d.word /\ (e.clk_req <=> d.clk_req)
        /\ ~e.clk_stall /\ e.oe /\ (e.shift <=> d.shift) /\ (e.rstn_reg <=> d.rstn_reg)
        /\ e.omux = 0 /\ (e.block_done <=> d.block_done) /\ (e.write_start <=> d.write_start)
    BY <1>1, <1>3, <2>1 DEF DatRecord
  <2> HIDE DEF Goal
  <2>3. Lined(e)
    BY <1>0, <1>1, <1>3, <2>2 DEF Lined, InBlock, ReadStates, WriteStates, Sd!TokenEnd
  <2> QED BY <1>0, <1>1, <1>3, <2>2, <2>3 DEF Goal, WriteGoes, Becomes, Lined, InBlock
<1>4. CASE d.state = "WRITE_REGIN" /\ Sd!acked /\ ~d.write_start
  <2>1. e = [d EXCEPT !.clk_stall = FALSE, !.bit = 0, !.state = "WRITE_DATA"]
    BY <1>0, <1>1, <1>4 DEF Sd!WriteStep, Sd!Counted, Sd!WordSent, Sd!TokenEnd, Lined
  <2> HIDE DEF e
  <2>2. /\ e.state = "WRITE_DATA" /\ e.bit = 0 /\ e.word = d.word /\ (e.clk_req <=> d.clk_req)
        /\ ~e.clk_stall /\ (e.oe <=> d.oe) /\ (e.shift <=> d.shift)
        /\ (e.rstn_reg <=> d.rstn_reg) /\ e.omux = d.omux /\ (e.block_done <=> d.block_done)
        /\ (e.write_start <=> d.write_start)
    BY <1>1, <1>4, <2>1 DEF DatRecord
  <2> HIDE DEF Goal
  <2>3. Lined(e)
    BY <1>0, <1>1, <1>4, <2>2 DEF Lined, InBlock, ReadStates, WriteStates, Sd!TokenEnd
  <2> QED BY <1>0, <1>1, <1>4, <2>2, <2>3 DEF Goal, WriteGoes, Becomes, Lined, InBlock
<1>5. CASE d.state = "WRITE_START"
  <2>1. e = [d EXCEPT !.write_start = FALSE, !.omux = 2, !.shift = TRUE, !.word = Words,
                     !.state = "WRITE_DATA"]
    BY <1>0, <1>1, <1>5 DEF Sd!WriteStep, Sd!Counted, Sd!WordSent, Sd!TokenEnd, Lined
  <2> HIDE DEF e
  <2>2. /\ e.state = "WRITE_DATA" /\ e.bit = d.bit /\ e.word = Words
        /\ (e.clk_req <=> d.clk_req) /\ (e.clk_stall <=> d.clk_stall) /\ (e.oe <=> d.oe)
        /\ e.shift /\ (e.rstn_reg <=> d.rstn_reg) /\ e.omux = 2
        /\ (e.block_done <=> d.block_done) /\ ~e.write_start
    BY <1>1, <1>5, <2>1 DEF DatRecord
  <2> HIDE DEF Goal
  <2>3. Lined(e)
    BY <1>0, <1>1, <1>5, <2>2 DEF Lined, InBlock, ReadStates, WriteStates, Sd!TokenEnd
  <2> QED BY <1>0, <1>1, <1>5, <2>2, <2>3 DEF Goal, WriteGoes, Becomes, Lined, InBlock
<1>6. CASE d.state = "WRITE_DATA" /\ d.bit + 1 < WordBits
  <2>1. e = [d EXCEPT !.bit = longer]
    BY <1>0, <1>1, <1>6 DEF Sd!WriteStep, Sd!Counted, Sd!WordSent, Sd!TokenEnd, Lined
  <2> HIDE DEF e
  <2>2. /\ e.state = d.state /\ e.bit = d.bit + 1 /\ e.word = d.word
        /\ (e.clk_req <=> d.clk_req) /\ (e.clk_stall <=> d.clk_stall) /\ (e.oe <=> d.oe)
        /\ (e.shift <=> d.shift) /\ (e.rstn_reg <=> d.rstn_reg) /\ e.omux = d.omux
        /\ (e.block_done <=> d.block_done) /\ (e.write_start <=> d.write_start)
    BY <1>1, <1>6, <2>1 DEF DatRecord
  <2> HIDE DEF Goal
  <2>3. Lined(e)
    BY <1>0, <1>1, <1>6, <2>2 DEF Lined, InBlock, ReadStates, WriteStates, Sd!TokenEnd
  <2> QED BY <1>0, <1>1, <1>6, <2>2, <2>3 DEF Goal, WriteGoes, Becomes, Lined, InBlock
<1>7. CASE d.state = "WRITE_DATA" /\ d.bit + 1 = WordBits /\ d.word = 1
  <2>1. e = [d EXCEPT !.bit = 0, !.word = 0, !.omux = 3, !.state = "WRITE_CRC"]
    BY <1>0, <1>1, <1>7 DEF Sd!WriteStep, Sd!Counted, Sd!WordSent, Sd!TokenEnd, Lined
  <2> HIDE DEF e
  <2>2. /\ e.state = "WRITE_CRC" /\ e.bit = 0 /\ e.word = 0 /\ (e.clk_req <=> d.clk_req)
        /\ (e.clk_stall <=> d.clk_stall) /\ (e.oe <=> d.oe) /\ (e.shift <=> d.shift)
        /\ (e.rstn_reg <=> d.rstn_reg) /\ e.omux = 3 /\ (e.block_done <=> d.block_done)
        /\ (e.write_start <=> d.write_start)
    BY <1>1, <1>7, <2>1 DEF DatRecord
  <2> HIDE DEF Goal
  <2>3. Lined(e)
    BY <1>0, <1>1, <1>7, <2>2 DEF Lined, InBlock, ReadStates, WriteStates, Sd!TokenEnd
  <2> QED BY <1>0, <1>1, <1>7, <2>2, <2>3 DEF Goal, WriteGoes, Becomes, Lined, InBlock
<1>8. CASE d.state = "WRITE_DATA" /\ d.bit + 1 = WordBits /\ d.word # 1
  <2>1. e = [d EXCEPT !.bit = 0, !.word = shorter, !.clk_stall = TRUE, !.state = "WRITE_REGIN"]
    BY <1>0, <1>1, <1>8 DEF Sd!WriteStep, Sd!Counted, Sd!WordSent, Sd!TokenEnd, Lined
  <2> HIDE DEF e
  <2>2. /\ e.state = "WRITE_REGIN" /\ e.bit = 0 /\ e.word = d.word - 1
        /\ (e.clk_req <=> d.clk_req) /\ e.clk_stall /\ (e.oe <=> d.oe) /\ (e.shift <=> d.shift)
        /\ (e.rstn_reg <=> d.rstn_reg) /\ e.omux = d.omux /\ (e.block_done <=> d.block_done)
        /\ (e.write_start <=> d.write_start)
    BY <1>1, <1>8, <2>1 DEF DatRecord
  <2> HIDE DEF Goal
  <2>3. Lined(e)
    BY <1>0, <1>1, <1>8, <2>2 DEF Lined, InBlock, ReadStates, WriteStates, Sd!TokenEnd
  <2> QED BY <1>0, <1>1, <1>8, <2>2, <2>3 DEF Goal, WriteGoes, Becomes, Lined, InBlock
<1>9. CASE d.state = "WRITE_CRC" /\ d.bit + 1 < CrcBits
  <2>1. e = [d EXCEPT !.bit = longer]
    BY <1>0, <1>1, <1>9 DEF Sd!WriteStep, Sd!Counted, Sd!WordSent, Sd!TokenEnd, Lined
  <2> HIDE DEF e
  <2>2. /\ e.state = d.state /\ e.bit = d.bit + 1 /\ e.word = d.word
        /\ (e.clk_req <=> d.clk_req) /\ (e.clk_stall <=> d.clk_stall) /\ (e.oe <=> d.oe)
        /\ (e.shift <=> d.shift) /\ (e.rstn_reg <=> d.rstn_reg) /\ e.omux = d.omux
        /\ (e.block_done <=> d.block_done) /\ (e.write_start <=> d.write_start)
    BY <1>1, <1>9, <2>1 DEF DatRecord
  <2> HIDE DEF Goal
  <2>3. Lined(e)
    BY <1>0, <1>1, <1>9, <2>2 DEF Lined, InBlock, ReadStates, WriteStates, Sd!TokenEnd
  <2> QED BY <1>0, <1>1, <1>9, <2>2, <2>3 DEF Goal, WriteGoes, Becomes, Lined, InBlock
<1>10. CASE d.state = "WRITE_CRC" /\ d.bit + 1 = CrcBits
  <2>1. e = [d EXCEPT !.bit = 0, !.omux = 1, !.state = "WRITE_STOP"]
    BY <1>0, <1>1, <1>10 DEF Sd!WriteStep, Sd!Counted, Sd!WordSent, Sd!TokenEnd, Lined
  <2> HIDE DEF e
  <2>2. /\ e.state = "WRITE_STOP" /\ e.bit = 0 /\ e.word = d.word /\ (e.clk_req <=> d.clk_req)
        /\ (e.clk_stall <=> d.clk_stall) /\ (e.oe <=> d.oe) /\ (e.shift <=> d.shift)
        /\ (e.rstn_reg <=> d.rstn_reg) /\ e.omux = 1 /\ (e.block_done <=> d.block_done)
        /\ (e.write_start <=> d.write_start)
    BY <1>1, <1>10, <2>1 DEF DatRecord
  <2> HIDE DEF Goal
  <2>3. Lined(e)
    BY <1>0, <1>1, <1>10, <2>2 DEF Lined, InBlock, ReadStates, WriteStates, Sd!TokenEnd
  <2> QED BY <1>0, <1>1, <1>10, <2>2, <2>3 DEF Goal, WriteGoes, Becomes, Lined, InBlock
<1>11. CASE d.state = "WRITE_STOP"
  <2>1. e = [d EXCEPT !.oe = FALSE, !.state = "WRITE_CHECK_CRC"]
    BY <1>0, <1>1, <1>11 DEF Sd!WriteStep, Sd!Counted, Sd!WordSent, Sd!TokenEnd, Lined
  <2> HIDE DEF e
  <2>2. /\ e.state = "WRITE_CHECK_CRC" /\ e.bit = d.bit /\ e.word = d.word
        /\ (e.clk_req <=> d.clk_req) /\ (e.clk_stall <=> d.clk_stall) /\ ~e.oe
        /\ (e.shift <=> d.shift) /\ (e.rstn_reg <=> d.rstn_reg) /\ e.omux = d.omux
        /\ (e.block_done <=> d.block_done) /\ (e.write_start <=> d.write_start)
    BY <1>1, <1>11, <2>1 DEF DatRecord
  <2> HIDE DEF Goal
  <2>3. Lined(e)
    BY <1>0, <1>1, <1>11, <2>2 DEF Lined, InBlock, ReadStates, WriteStates, Sd!TokenEnd
  <2> QED BY <1>0, <1>1, <1>11, <2>2, <2>3 DEF Goal, WriteGoes, Becomes, Lined, InBlock
<1>12. CASE d.state = "WRITE_CHECK_CRC" /\ d.bit < Sd!TokenEnd
  <2>1. e = [d EXCEPT !.bit = longer]
    BY <1>0, <1>1, <1>12 DEF Sd!WriteStep, Sd!Counted, Sd!WordSent, Sd!TokenEnd, Lined
  <2> HIDE DEF e
  <2>2. /\ e.state = d.state /\ e.bit = d.bit + 1 /\ e.word = d.word
        /\ (e.clk_req <=> d.clk_req) /\ (e.clk_stall <=> d.clk_stall) /\ (e.oe <=> d.oe)
        /\ (e.shift <=> d.shift) /\ (e.rstn_reg <=> d.rstn_reg) /\ e.omux = d.omux
        /\ (e.block_done <=> d.block_done) /\ (e.write_start <=> d.write_start)
    BY <1>1, <1>12, <2>1 DEF DatRecord
  <2> HIDE DEF Goal
  <2>3. Lined(e)
    BY <1>0, <1>1, <1>12, <2>2 DEF Lined, InBlock, ReadStates, WriteStates, Sd!TokenEnd
  <2> QED BY <1>0, <1>1, <1>12, <2>2, <2>3 DEF Goal, WriteGoes, Becomes, Lined, InBlock
<1>13. CASE d.state = "WRITE_CHECK_CRC" /\ d.bit = Sd!TokenEnd
  <2>1. e = [d EXCEPT !.bit = 0, !.write_start = TRUE, !.shift = FALSE, !.rstn_reg = FALSE,
                     !.crc_ok = fits, !.state = "WRITE_BUSY"]
    BY <1>0, <1>1, <1>13 DEF Sd!WriteStep, Sd!Counted, Sd!WordSent, Sd!TokenEnd, Lined
  <2> HIDE DEF e
  <2>2. /\ e.state = "WRITE_BUSY" /\ e.bit = 0 /\ e.word = d.word /\ (e.clk_req <=> d.clk_req)
        /\ (e.clk_stall <=> d.clk_stall) /\ (e.oe <=> d.oe) /\ ~e.shift /\ ~e.rstn_reg
        /\ e.omux = d.omux /\ (e.block_done <=> d.block_done) /\ e.write_start
    BY <1>1, <1>13, <2>1 DEF DatRecord
  <2> HIDE DEF Goal
  <2>3. Lined(e)
    BY <1>0, <1>1, <1>13, <2>2 DEF Lined, InBlock, ReadStates, WriteStates, Sd!TokenEnd
  <2> QED BY <1>0, <1>1, <1>13, <2>2, <2>3 DEF Goal, WriteGoes, Becomes, Lined, InBlock
<1>14. CASE d.state = "WRITE_BUSY" /\ low
  <2>1. e = d
    BY <1>0, <1>14 DEF Sd!WriteStep
  <2> QED BY <1>0, <1>14, <2>1 DEF WriteGoes, Becomes
<1>15. CASE d.state = "WRITE_BUSY" /\ ~low
  <2>1. e = [d EXCEPT !.block_done = TRUE, !.state = "WRITE_TAIL"]
    BY <1>0, <1>1, <1>15 DEF Sd!WriteStep, Sd!Counted, Sd!WordSent, Sd!TokenEnd, Lined
  <2> HIDE DEF e
  <2>2. /\ e.state = "WRITE_TAIL" /\ e.bit = d.bit /\ e.word = d.word
        /\ (e.clk_req <=> d.clk_req) /\ (e.clk_stall <=> d.clk_stall) /\ (e.oe <=> d.oe)
        /\ (e.shift <=> d.shift) /\ (e.rstn_reg <=> d.rstn_reg) /\ e.omux = d.omux
        /\ e.block_done /\ (e.write_start <=> d.write_start)
    BY <1>1, <1>15, <2>1 DEF DatRecord
  <2> HIDE DEF Goal
  <2>3. Lined(e)
    BY <1>0, <1>1, <1>15, <2>2 DEF Lined, InBlock, ReadStates, WriteStates, Sd!TokenEnd
  <2> QED BY <1>0, <1>1, <1>15, <2>2, <2>3 DEF Goal, WriteGoes, Becomes, Lined, InBlock
<1>16. CASE d.state = "WRITE_TAIL" /\ d.bit + 1 < TailBits
  <2>1. e = [d EXCEPT !.bit = longer]
    BY <1>0, <1>1, <1>16 DEF Sd!WriteStep, Sd!Counted, Sd!WordSent, Sd!TokenEnd, Lined
  <2> HIDE DEF e
  <2>2. /\ e.state = d.state /\ e.bit = d.bit + 1 /\ e.word = d.word
        /\ (e.clk_req <=> d.clk_req) /\ (e.clk_stall <=> d.clk_stall) /\ (e.oe <=> d.oe)
        /\ (e.shift <=> d.shift) /\ (e.rstn_reg <=> d.rstn_reg) /\ e.omux = d.omux
        /\ (e.block_done <=> d.block_done) /\ (e.write_start <=> d.write_start)
    BY <1>1, <1>16, <2>1 DEF DatRecord
  <2> HIDE DEF Goal
  <2>3. Lined(e)
    BY <1>0, <1>1, <1>16, <2>2 DEF Lined, InBlock, ReadStates, WriteStates, Sd!TokenEnd
  <2> QED BY <1>0, <1>1, <1>16, <2>2, <2>3 DEF Goal, WriteGoes, Becomes, Lined, InBlock
<1>17. CASE d.state = "WRITE_TAIL" /\ d.bit + 1 = TailBits
  <2>1. e = [d EXCEPT !.bit = 0, !.clk_stall = TRUE, !.rstn_reg = TRUE, !.state = "WRITE_REGIN"]
    BY <1>0, <1>1, <1>17 DEF Sd!WriteStep, Sd!Counted, Sd!WordSent, Sd!TokenEnd, Lined
  <2> HIDE DEF e
  <2>2. /\ e.state = "WRITE_REGIN" /\ e.bit = 0 /\ e.word = d.word /\ (e.clk_req <=> d.clk_req)
        /\ e.clk_stall /\ (e.oe <=> d.oe) /\ (e.shift <=> d.shift) /\ e.rstn_reg
        /\ e.omux = d.omux /\ (e.block_done <=> d.block_done)
        /\ (e.write_start <=> d.write_start)
    BY <1>1, <1>17, <2>1 DEF DatRecord
  <2> HIDE DEF Goal
  <2>3. Lined(e)
    BY <1>0, <1>1, <1>17, <2>2 DEF Lined, InBlock, ReadStates, WriteStates, Sd!TokenEnd
  <2> QED BY <1>0, <1>1, <1>17, <2>2, <2>3 DEF Goal, WriteGoes, Becomes, Lined, InBlock
<1>18. /\ d.state = "WRITE_DATA" => d.bit + 1 < WordBits \/ d.bit + 1 = WordBits
       /\ d.state = "WRITE_CRC" => d.bit + 1 < CrcBits \/ d.bit + 1 = CrcBits
       /\ d.state = "WRITE_CHECK_CRC" => d.bit < Sd!TokenEnd \/ d.bit = Sd!TokenEnd
       /\ d.state = "WRITE_TAIL" => d.bit + 1 < TailBits \/ d.bit + 1 = TailBits
  BY <1>0, <1>1 DEF Lined, Sd!TokenEnd
<1> QED
  BY <1>2, <1>3, <1>4, <1>5, <1>6, <1>7, <1>8, <1>9, <1>10, <1>11, <1>12, <1>13, <1>14, <1>15,
     <1>16, <1>17, <1>18 DEF WriteStates

(* A write is broken off only between two blocks. *)
BreaksWell ==
  clkstrb /\ command.abrt /\ dat.state \in WriteStates =>
    \/ dat.state = "WRITE_TAIL"
    \/ dat.state = "WRITE_REGIN" /\ dat.write_start /\ ~Sd!acked

(* What the data state machine does at a strobe. *)
DataGoes ==
  \/ /\ dat'.state \notin ReadStates \cup WriteStates
     /\ dat.state \in ReadStates \cup WriteStates => command.abrt /\ dat'.state = "TAIL"
  \/ /\ dat.state = "IDLE" /\ cmd.start_dat /\ ~dat'.block_done
     /\ \/ command.dmode = "R" /\ dat'.state = "WAIT_BLOCK"
        \/ command.dmode = "W" /\ dat'.state = "WRITE_REGIN" /\ dat'.write_start
  \/ /\ dat.state \in ReadStates /\ ReadGoes(dat, dat', Card!low)
     /\ dat'.block_done <=> dat.state = "READ_FINISH"
  \/ /\ dat.state \in WriteStates /\ WriteGoes(dat, dat', Card!low)
     /\ dat'.block_done <=> dat.state = "WRITE_BUSY" /\ ~Card!low

(* At a strobe the data state machine keeps its registers in order and     *)
(* makes one of these moves.                                               *)
LEMMA DataMoves ==
  ASSUME NEW acc, NEW fits, Stepping(acc, fits), clkstrb, Lined(dat), BreaksWell,
         /\ dat.state \in ReadStates \cup WriteStates
         /\ dat.state \notin {"WAIT_BLOCK", "REGOUT", "READ_FINISH", "WRITE_REGIN"}
         => Sd!sd_clk_en
  PROVE  Lined(dat)' /\ DataGoes
<1> DEFINE d == [dat EXCEPT !.block_done = FALSE]
           low == Card!low
           e == Sd!DatStep(d, low, fits)
<1>0. TailBits \in Nat \ {0} /\ TailBits > 0
  BY Constants
<1>1. /\ Shaped(dat) /\ dat \in DatRecord /\ command.dmode \in DataModes /\ low \in BOOLEAN
      /\ command.abrt \in BOOLEAN /\ fits \in BOOLEAN /\ dat.state \in DatStates
  BY DEF Stepping, ControllerInv, Types, Formed, CommandSet, DatShape, Shaped, Card!low, DatRecord
<1>2. /\ d \in DatRecord /\ ~d.block_done
      /\ d.state = dat.state /\ d.bit = dat.bit /\ d.word = dat.word
      /\ d.clk_stall = dat.clk_stall /\ d.write_start = dat.write_start
      /\ d.clk_req = dat.clk_req /\ d.oe = dat.oe /\ d.shift = dat.shift
      /\ d.rstn_reg = dat.rstn_reg /\ d.omux = dat.omux
  BY <1>1 DEF DatRecord
<1>3. Shaped(d) /\ Lined(d)
  BY <1>1, <1>2 DEF Shaped, Lined, InBlock
<1>4. dat' = IF "RST" \in ctrl THEN Sd!DatReset ELSE Sd!Aborted(e)
  BY DEF Stepping, Edge, Sd!Clock, Sd!DatFsm
<1> HIDE DEF d, low
<1>5. CASE dat.state = "IDLE" /\ "RST" \notin ctrl
  <2>1. dat' = e
    BY <1>4, <1>5 DEF Sd!Aborted
  <2>2. e = IF cmd.start_dat THEN Sd!DatStart(d) ELSE d
    BY <1>2, <1>5 DEF Sd!DatStep
  <2> HIDE DEF e
  <2>3. CASE ~cmd.start_dat \/ command.dmode = "NONE"
    <3>1. e = d
      BY <2>2, <2>3 DEF Sd!DatStart
    <3> QED BY <1>2, <1>3, <1>5, <2>1, <3>1 DEF DataGoes, ReadStates, WriteStates
  <2>4. CASE cmd.start_dat /\ command.dmode = "R"
    <3>1. e = [d EXCEPT !.clk_req = TRUE, !.shift = TRUE, !.rstn_reg = TRUE,
                        !.state = "WAIT_BLOCK"]
      BY <2>2, <2>4 DEF Sd!DatStart
    <3>2. /\ e.state = "WAIT_BLOCK" /\ e.clk_req /\ e.shift /\ e.rstn_reg /\ ~e.block_done
          /\ (e.oe <=> d.oe) /\ (e.clk_stall <=> d.clk_stall)
      BY <1>2, <3>1 DEF DatRecord
    <3>3. Lined(e)
      BY <1>2, <1>3, <1>5, <3>2 DEF Lined, InBlock, ReadStates, WriteStates
    <3> QED BY <1>5, <2>1, <2>4, <3>2, <3>3 DEF DataGoes
  <2>5. CASE cmd.start_dat /\ command.dmode = "BUSY"
    <3>1. e = [d EXCEPT !.clk_req = TRUE, !.state = "WAIT_BUSY"]
      BY <2>2, <2>5 DEF Sd!DatStart
    <3>2. /\ e.state = "WAIT_BUSY" /\ e.clk_req /\ (e.shift <=> d.shift)
          /\ (e.oe <=> d.oe) /\ (e.clk_stall <=> d.clk_stall)
      BY <1>2, <3>1 DEF DatRecord
    <3>3. Lined(e)
      BY <1>2, <1>3, <1>5, <3>2 DEF Lined, InBlock, ReadStates, WriteStates
    <3> QED BY <1>5, <2>1, <3>2, <3>3 DEF DataGoes, ReadStates, WriteStates
  <2>6. CASE cmd.start_dat /\ command.dmode = "W"
    <3>1. e = [d EXCEPT !.write_start = TRUE, !.clk_req = TRUE, !.clk_stall = TRUE,
                        !.rstn_reg = TRUE, !.state = "WRITE_REGIN"]
      BY <2>2, <2>6 DEF Sd!DatStart
    <3>2. /\ e.state = "WRITE_REGIN" /\ e.clk_req /\ (e.shift <=> d.shift) /\ e.rstn_reg
          /\ (e.oe <=> d.oe) /\ e.clk_stall /\ e.write_start /\ ~e.block_done
      BY <1>2, <3>1 DEF DatRecord
    <3>3. Lined(e)
      BY <1>2, <1>3, <1>5, <3>2 DEF Lined, InBlock, ReadStates, WriteStates
    <3> QED BY <1>5, <2>1, <2>6, <3>2, <3>3 DEF DataGoes
  <2> QED BY <1>1, <2>3, <2>4, <2>5, <2>6 DEF DataModes
<1>6. CASE dat.state = "TAIL" /\ "RST" \notin ctrl
  <2>1. dat' = e
    BY <1>4, <1>6 DEF Sd!Aborted
  <2> DEFINE longer == d.bit + 1
  <2>2. \/ e = d \/ e = [d EXCEPT !.bit = longer]
        \/ e = [d EXCEPT !.clk_req = FALSE, !.state = "IDLE"]
    BY <1>2, <1>6 DEF Sd!DatStep, Sd!Counted
  <2> HIDE DEF e, longer
  <2>3. CASE e = d
    BY <1>2, <1>3, <1>6, <2>1, <2>3 DEF DataGoes, ReadStates, WriteStates
  <2>4. CASE e = [d EXCEPT !.bit = longer]
    <3>1. /\ e.state = "TAIL" /\ (e.clk_req <=> d.clk_req) /\ (e.shift <=> d.shift)
          /\ (e.oe <=> d.oe) /\ (e.clk_stall <=> d.clk_stall)
      BY <1>2, <1>6, <2>4 DEF DatRecord
    <3>2. Lined(e)
      BY <1>2, <1>3, <1>6, <3>1 DEF Lined, InBlock, ReadStates, WriteStates
    <3> QED BY <1>6, <2>1, <3>1, <3>2 DEF DataGoes, ReadStates, WriteStates
  <2>5. CASE e = [d EXCEPT !.clk_req = FALSE, !.state = "IDLE"]
    <3>1. /\ e.state = "IDLE" /\ ~e.clk_req /\ (e.shift <=> d.shift)
          /\ (e.oe <=> d.oe) /\ (e.clk_stall <=> d.clk_stall)
      BY <1>2, <1>6, <2>5 DEF DatRecord
    <3>2. Lined(e)
      BY <1>2, <1>3, <1>6, <3>1 DEF Lined, InBlock, ReadStates, WriteStates
    <3> QED BY <1>6, <2>1, <3>1, <3>2 DEF DataGoes, ReadStates, WriteStates
  <2> QED BY <2>2, <2>3, <2>4, <2>5
<1>7. CASE dat.state = "WAIT_BUSY" /\ "RST" \notin ctrl
  <2>1. e = d \/ e = [d EXCEPT !.state = "TAIL", !.bit = 0]
    BY <1>2, <1>7 DEF Sd!DatStep
  <2>2. dat' = e \/ dat' = [e EXCEPT !.rstn_reg = FALSE, !.shift = FALSE, !.clk_stall = FALSE,
                                     !.bit = 0, !.state = "TAIL"]
    BY <1>4, <1>7 DEF Sd!Aborted
  <2> HIDE DEF e
  <2>3. /\ e \in DatRecord /\ e.state \in {"WAIT_BUSY", "TAIL"} /\ (e.clk_req <=> d.clk_req)
        /\ (e.shift <=> d.shift) /\ (e.oe <=> d.oe) /\ (e.clk_stall <=> d.clk_stall)
    <3>1. CASE e = d
      BY <1>2, <1>7, <3>1
    <3>2. CASE e = [d EXCEPT !.state = "TAIL", !.bit = 0]
      BY <1>2, <1>7, <3>2 DEF DatRecord, DatStates
    <3> QED BY <2>1, <3>1, <3>2
  <2>4. d.clk_req /\ ~d.shift /\ ~d.oe /\ ~d.clk_stall
    BY <1>2, <1>3, <1>7 DEF Lined, InBlock, ReadStates
  <2> SUFFICES ASSUME NEW x, x = dat' PROVE Lined(x) /\ DataGoes
    BY Zenon
  <2>5. /\ x.state \in {"WAIT_BUSY", "TAIL"} /\ x.clk_req /\ ~x.shift /\ ~x.oe /\ ~x.clk_stall
    <3>1. CASE x = e
      BY <2>3, <2>4, <3>1
    <3>2. CASE x = [e EXCEPT !.rstn_reg = FALSE, !.shift = FALSE, !.clk_stall = FALSE,
                             !.bit = 0, !.state = "TAIL"]
      BY <2>3, <2>4, <3>2 DEF DatRecord
    <3> QED BY <2>2, <3>1, <3>2
  <2>6. Lined(x)
    BY <2>5 DEF Lined, InBlock, ReadStates, WriteStates
  <2> QED BY <1>7, <2>5, <2>6 DEF DataGoes, ReadStates, WriteStates
<1>8. CASE "RST" \in ctrl
  <2>1. dat' = Sd!DatReset /\ dat.state = "IDLE"
    BY <1>4, <1>8 DEF Stepping, ControllerInv, FlagsInv, ResetReady
  <2> SUFFICES ASSUME NEW x, x = dat' PROVE Lined(x) /\ DataGoes
    BY Zenon
  <2>2. x.state = "IDLE" /\ ~x.clk_req /\ ~x.shift /\ ~x.oe /\ ~x.clk_stall
    BY <2>1 DEF Sd!DatReset
  <2>3. Lined(x)
    BY <2>2 DEF Lined, InBlock, ReadStates, WriteStates
  <2> QED BY <2>1, <2>2, <2>3 DEF DataGoes, ReadStates, WriteStates
<1>9. CASE dat.state \in ReadStates /\ "RST" \notin ctrl
  <2>1. e = Sd!ReadStep(d, low, fits)
    BY <1>2, <1>9 DEF Sd!DatStep, ReadStates
  <2> HIDE DEF e
  <2>2. /\ Lined(e) /\ ReadGoes(d, e, low) /\ (e.block_done <=> d.state = "READ_FINISH")
        /\ Shaped(e)
    <3>1. dat.state \in {"READ_BLOCK", "READ_CRC"} => Sd!sd_clk_en
      BY DEF ReadStates
    <3>2. Shaped(e)
      BY <1>1, <1>2, <1>3, <1>9, <2>1, ReadSteps DEF ReadStates
    <3> QED BY <1>1, <1>2, <1>3, <1>9, <2>1, <3>1, <3>2, ReadsGo
  <2>3. ReadGoes(dat, e, low)
    BY <1>2, <2>2 DEF ReadGoes
  <2>4. CASE command.abrt
    <3>1. dat' = [e EXCEPT !.rstn_reg = FALSE, !.shift = FALSE, !.clk_stall = FALSE,
                           !.bit = 0, !.state = "TAIL"]
      BY <1>4, <1>9, <2>4 DEF Sd!Aborted, ReadStates
    <3>2. e.state \in ReadStates /\ e.clk_req /\ ~e.oe
      BY <2>2 DEF ReadGoes, Becomes, ReadStates, Lined, InBlock
    <3> SUFFICES ASSUME NEW x, x = dat' PROVE Lined(x) /\ DataGoes
      BY Zenon
    <3>3. x.state = "TAIL" /\ x.clk_req /\ ~x.oe /\ ~x.shift /\ ~x.clk_stall
      BY <2>2, <3>1, <3>2 DEF DatRecord, Shaped
    <3>4. Lined(x)
      BY <3>3 DEF Lined, InBlock, ReadStates, WriteStates
    <3> QED BY <2>4, <3>3, <3>4 DEF DataGoes, ReadStates, WriteStates
  <2>5. CASE ~command.abrt
    <3>1. dat' = e
      BY <1>4, <1>9, <2>5 DEF Sd!Aborted
    <3> QED BY <1>2, <1>9, <2>2, <2>3, <3>1 DEF DataGoes, low
  <2> QED BY <2>4, <2>5
<1>10. CASE dat.state \in WriteStates /\ "RST" \notin ctrl
  <2>1. e = Sd!WriteStep(d, low, fits)
    BY <1>2, <1>10 DEF Sd!DatStep, WriteStates
  <2> HIDE DEF e
  <2>2. /\ Lined(e) /\ WriteGoes(d, e, low)
        /\ (e.block_done <=> d.state = "WRITE_BUSY" /\ ~low)
        /\ Shaped(e)
    <3>1. dat.state # "WRITE_REGIN" => Sd!sd_clk_en
      BY <1>10 DEF WriteStates
    <3>2. Shaped(e)
      BY <1>1, <1>2, <1>3, <1>10, <2>1, WriteSteps DEF WriteStates
    <3> QED BY <1>1, <1>2, <1>3, <1>10, <2>1, <3>1, <3>2, WritesGo
  <2>3. WriteGoes(dat, e, low)
    BY <1>2, <2>2 DEF WriteGoes
  <2>4. CASE command.abrt
    <3>1. dat' = [e EXCEPT !.rstn_reg = FALSE, !.shift = FALSE, !.clk_stall = FALSE,
                           !.bit = 0, !.state = "TAIL"]
      BY <1>4, <1>10, <2>4 DEF Sd!Aborted, WriteStates
    <3>2. e.clk_req /\ ~e.oe
      BY <1>10, <2>2, <2>3, <2>4
      DEF WriteGoes, Becomes, WriteStates, Lined, InBlock, BreaksWell
    <3> SUFFICES ASSUME NEW x, x = dat' PROVE Lined(x) /\ DataGoes
      BY Zenon
    <3>3. x.state = "TAIL" /\ x.clk_req /\ ~x.oe /\ ~x.shift /\ ~x.clk_stall
      BY <2>2, <3>1, <3>2 DEF DatRecord, Shaped
    <3>4. Lined(x)
      BY <3>3 DEF Lined, InBlock, ReadStates, WriteStates
    <3> QED BY <2>4, <3>3, <3>4 DEF DataGoes, ReadStates, WriteStates
  <2>5. CASE ~command.abrt
    <3>1. dat' = e
      BY <1>4, <1>10, <2>5 DEF Sd!Aborted
    <3> QED BY <1>2, <1>10, <2>2, <2>3, <3>1 DEF DataGoes, low
  <2> QED BY <2>4, <2>5
<1> QED BY <1>1, <1>5, <1>6, <1>7, <1>8, <1>9, <1>10 DEF DatStates, ReadStates, WriteStates

-----------------------------------------------------------------------------
(* One step of the card clock, while blocks are transferred.               *)

(* The card leaves its data lines alone. *)
CardStill == task' = task /\ n' = n /\ multi' = multi

(* In the phases of the card clock. *)
Stays == ~Fallen /\ ~Fallen' /\ (Risen' <=> Risen) /\ CardStill
Rises == /\ ~Fallen /\ ~Fallen' /\ ~Risen /\ Risen'
         /\ IF Sd!sd_clk_en THEN Card!TakeDataBit(Sd!HostDat) ELSE CardStill
Falls == /\ ~Fallen /\ Fallen' /\ Risen /\ Risen'
         /\ IF Sd!sd_clk_en THEN Card!Move /\ multi' = multi ELSE CardStill
Strobe == Fallen /\ Risen /\ ~Fallen' /\ ~Risen' /\ CardStill

(* While a block is on its way no command is sent, and the card clock runs *)
(* unless the data state machine or a response stalls it.                  *)
LEMMA ClockOn ==
  ASSUME ControllerInv, Lined(dat), Moving
  PROVE  /\ ~cmd.oe
         /\ dat.state \in {"REGOUT", "READ_FINISH", "WRITE_REGIN"} => ~Sd!sd_clk_en
         /\ dat.state \notin {"REGOUT", "READ_FINISH", "WRITE_REGIN"} =>
              Sd!sd_clk_en \/ (dat.state = "WAIT_BLOCK" /\ task = "answer")
         /\ \/ cmd.state \in {"IDLE", "TAIL"}
            \/ dat.state = "WAIT_BLOCK" /\ cmd.state \in {"WAIT_RESP", "READ_RESP", "REGOUT"}
<1>1. /\ cmd.clk_stall = (cmd.state = "REGOUT") /\ cmd.oe = (cmd.state = "WRITE")
      /\ "IDLE_SDCLK" \notin ctrl /\ cmd.state \in CmdStates
      /\ command.idx \in Indices /\ command.dmode \in PhasesOf(command.idx)
  BY DEF ControllerInv, CmdShape, Types, FlagsInv, CmdRecord, Formed, CommandSet
<1>2. dat.state \notin {"IDLE", "TAIL", "WAIT_BUSY"}
  BY DEF Moving, Busy
<1>3. /\ dat.clk_req
      /\ dat.clk_stall <=> dat.state \in {"REGOUT", "READ_FINISH", "WRITE_REGIN"}
  BY <1>2 DEF Lined
<1>4. \/ cmd.state \in {"IDLE", "TAIL"}
      \/ /\ dat.state = "WAIT_BLOCK" /\ command.dmode = "R"
         /\ cmd.state \in {"WAIT_RESP", "READ_RESP", "REGOUT"}
  <2>1. CASE ~First
    BY <2>1, <1>1, <1>2 DEF First, ControllerInv, StopInv, Moving, Busy
  <2>2. CASE First
    <3>1. Active => dat.state = "WAIT_BLOCK" /\ Sent /\ command.dmode = "R"
      BY <1>2, <2>2 DEF ControllerInv, FirstInv
    <3> QED BY <1>1, <2>2, <3>1 DEF Sent, Active, CmdStates
  <2> QED BY <2>1, <2>2
<1>5. cmd.state = "REGOUT" => task = "answer" /\ dat.state = "WAIT_BLOCK"
  BY <1>4 DEF ControllerInv, Answered, Sent
<1> QED BY <1>1, <1>2, <1>3, <1>4, <1>5 DEF Sd!sd_clk_en

(* A step of the card clock is one of four. *)
LEMMA Transferring ==
  ASSUME NEW acc, NEW fits, Stepping(acc, fits), Lined(dat), Moving, task # "busy"
  PROVE  /\ Stays \/ Rises \/ Falls \/ Strobe
         /\ Fallen => Strobe
<1> USE DEF Edge, Sd!Clock, Sd!ClockGenerator, Sd!Rising, Sd!Falling, Sd!sd_clk_next, Risen, Fallen
<1>0. /\ sd_clk_strb \in BOOLEAN /\ sd_clk_cont \in BOOLEAN /\ clkstrb \in BOOLEAN
      /\ sd_clk \in BOOLEAN
      /\ (clkstrb' <=> sd_clk_strb /\ sd_clk_cont)
      /\ (sd_clk_cont' <=> sd_clk_cont # sd_clk_strb)
      /\ Edge(acc, fits)
  <2>1. clkstrb' = (sd_clk_strb /\ sd_clk_cont) /\ sd_clk_cont' = (sd_clk_cont # sd_clk_strb)
    BY Zenon DEF Stepping
  <2>2. sd_clk_strb \in BOOLEAN /\ sd_clk_cont \in BOOLEAN /\ clkstrb \in BOOLEAN
          /\ sd_clk \in BOOLEAN
    BY DEF Types, Stepping, ControllerInv
  <2> QED BY <2>1, <2>2 DEF Stepping
<1>1. ~cmd.oe
  BY ClockOn DEF Stepping
<1>2. Strobes
  BY DEF Stepping, ControllerInv
<1>3. ~Sd!Rising /\ ~Sd!Falling => CardStill
  BY <1>0 DEF CardStill
<1>4. Sd!Rising => Card!TakeDataBit(Sd!HostDat)
  BY <1>0, <1>1 DEF Card!Rise
<1>5. Sd!Falling => Card!Move /\ multi' = multi
  BY <1>0 DEF Card!Fall
<1>6. CASE clkstrb
  BY <1>0, <1>2, <1>3, <1>6 DEF Strobes, Strobe
<1>7. CASE ~clkstrb /\ ~sd_clk_strb
  BY <1>0, <1>2, <1>3, <1>7 DEF Strobes, Stays
<1>8. CASE ~clkstrb /\ sd_clk_strb /\ ~sd_clk_cont
  BY <1>0, <1>2, <1>3, <1>4, <1>8 DEF Strobes, Rises
<1>9. CASE ~clkstrb /\ sd_clk_strb /\ sd_clk_cont
  BY <1>0, <1>2, <1>3, <1>5, <1>9 DEF Strobes, Falls
<1> QED BY <1>0, <1>6, <1>7, <1>8, <1>9

(* The card at a falling edge. *)
LEMMA LinesMove ==
  ASSUME Types, Card!Move
  PROVE  /\ task = "answer" => task' \in {"answer", "delay"} /\ n' = n
         /\ task = "delay" => \/ n > 0 /\ task' = "delay"
                              \/ n = 0 /\ task' = "send" /\ n' = 0
         /\ task = "send" => \/ n <= Sd!BlockBits + CrcBits /\ task' = "send" /\ n' = n + 1
                             \/ n > Sd!BlockBits + CrcBits /\ multi /\ task' = "delay"
                             \/ n > Sd!BlockBits + CrcBits /\ ~multi /\ task' = "idle"
         /\ task = "turn" => \/ n > 0 /\ task' = "turn" /\ n' = n - 1
                             \/ n = 0 /\ task' = "token" /\ n' = 0
         /\ task = "token" => \/ n < 4 /\ task' = "token" /\ n' = n + 1
                              \/ n >= 4 /\ task' = "programs"
         /\ task = "programs" => task' \in {"programs", "ready"}
         /\ task \in {"idle", "ready", "receive"} => task' = task /\ n' = n
         /\ task = "busy" => task' \in {"busy", "idle"}
<1>1. /\ task \in Tasks /\ n \in Nat /\ multi \in BOOLEAN
      /\ Sd!BlockBits + CrcBits \in Nat
  BY Constants DEF Types
<1>2. DOMAIN Card!AfterWait = {"delay", "turn", "programs", "busy"}
  BY DEF Card!AfterWait
<1>3. /\ Card!AfterWait["delay"] = "send" /\ Card!AfterWait["turn"] = "token"
      /\ Card!AfterWait["programs"] = "ready" /\ Card!AfterWait["busy"] = "idle"
  BY DEF Card!AfterWait
<1>4. CASE task \in {"delay", "turn", "programs", "busy"}
  <2>1. \/ n > 0 /\ n' = n - 1 /\ task' = task
        \/ n = 0 /\ task' = Card!AfterWait[task] /\ n' = 0
    BY <1>1, <1>2, <1>4 DEF Card!Move
  <2> QED BY <1>3, <1>4, <2>1
<1>5. CASE task = "send"
  BY <1>1, <1>2, <1>5 DEF Card!Move, Sd!BlockBits
<1>6. CASE task = "token"
  BY <1>1, <1>2, <1>6 DEF Card!Move
<1>7. CASE task \in {"answer", "idle", "ready", "receive"}
  BY <1>1, <1>2, <1>7 DEF Card!Move
<1> QED BY <1>1, <1>4, <1>5, <1>6, <1>7 DEF Tasks

(* The card at a rising edge. *)
LEMMA LinesTaken ==
  ASSUME Types, NEW host, Card!TakeDataBit(host)
  PROVE  /\ multi' = multi
         /\ task = "ready" /\ host = "start" => task' = "receive" /\ n' = 0
         /\ task = "receive" /\ n < Sd!BlockBits + CrcBits => task' = "receive" /\ n' = n + 1
         /\ task = "receive" /\ n = Sd!BlockBits + CrcBits => task' = "turn" /\ n' = 2
         /\ task \notin {"ready", "receive"} => task' = task /\ n' = n
         /\ task = "ready" /\ host # "start" => task' = task /\ n' = n
<1>1. task \in Tasks /\ n \in Nat /\ Sd!BlockBits + CrcBits \in Nat
  BY Constants DEF Types
<1> QED BY <1>1 DEF Card!TakeDataBit, Sd!BlockBits

(* The data register. *)
LEMMA DataShifts ==
  ASSUME NEW acc, NEW fits, Stepping(acc, fits), dat.rstn_reg, dat'.rstn_reg
  PROVE  /\ Sd!Writes(acc, "DATA") => dat_reg'.out = acc.data
         /\ ~Sd!Writes(acc, "DATA") /\ clkstrb /\ Sd!sd_clk_en /\ dat.shift =>
              /\ dat_reg'.last = Card!dat_o
              /\ dat_reg'.out = IF dat_reg.out \in 1 .. Sd!BlockBits THEN dat_reg.out + 1 ELSE 0
         /\ ~Sd!Writes(acc, "DATA") /\ ~(clkstrb /\ Sd!sd_clk_en /\ dat.shift) =>
              dat_reg' = dat_reg
<1> DEFINE shifted == [out |-> IF dat_reg.out \in 1 .. Sd!BlockBits THEN dat_reg.out + 1 ELSE 0,
                       last |-> Card!dat_o]
           loaded == [out |-> acc.data, last |-> 0]
<1>1. dat_reg' = IF Sd!Writes(acc, "DATA") THEN loaded
                 ELSE IF clkstrb /\ Sd!sd_clk_en /\ dat.shift THEN shifted ELSE dat_reg
  BY DEF Stepping, Edge, Sd!Clock, Sd!DatShiftRegister
<1>2. /\ shifted.last = Card!dat_o
      /\ shifted.out = IF dat_reg.out \in 1 .. Sd!BlockBits THEN dat_reg.out + 1 ELSE 0
      /\ loaded.out = acc.data
  OBVIOUS
<1> HIDE DEF shifted, loaded
<1> QED BY <1>1, <1>2

-----------------------------------------------------------------------------
(* The flag of the data register. *)

(* The driver uses the data register when the controller asks for it, and  *)
(* gives the words in their order.                                         *)
Exchanges(acc) ==
  /\ acc.adr = "DATA" /\ Moving => "DAT_DATA" \in ctrl
  /\ acc.adr = "DATA" /\ dat.state \in WriteStates => acc.we
  /\ Sd!Writes(acc, "DATA") =>
       /\ dat.state = "WRITE_REGIN" /\ "DAT_DATA" \in ctrl
       /\ acc.data = IF dat.write_start THEN 1 ELSE Through + 1

(* A word is asked for until the driver has used the register, or from the *)
(* step on that waits for it.                                              *)
LEMMA AskedMoves ==
  ASSUME NEW acc, NEW fits, Stepping(acc, fits)
  PROVE  /\ Sd!Rose("data_dat")' <=> Sd!status_data_dat' /\ ~Sd!status_data_dat
         /\ "DAT_DATA" \in ctrl' <=> Asked /\ acc.adr # "DATA"
         /\ Asked' <=> \/ Asked /\ acc.adr # "DATA"
                       \/ Sd!status_data_dat' /\ ~Sd!status_data_dat
         /\ Sd!Rose("data_dat") => Sd!status_data_dat
<1>1. ctrl' = Sd!CtrlNext(acc) /\ status_last' = Sd!Status
  BY Tops DEF Stepping
<1>2. /\ "data_dat" \in Sd!Status <=> Sd!status_data_dat
      /\ ("data_dat" \in Sd!Status)' <=> Sd!status_data_dat'
  BY DEF Sd!Status
<1>3. Sd!Rose("data_dat")' <=> Sd!status_data_dat' /\ ~Sd!status_data_dat
  BY <1>1, <1>2 DEF Sd!Rose
<1>4. "DAT_DATA" \in ctrl' <=> Asked /\ acc.adr # "DATA"
  <2>1. "DAT_DATA" \in Sd!CtrlBits /\ "DAT_DATA" \notin Sd!Settings
    BY DEF Sd!CtrlBits, Sd!Settings
  <2> QED BY <1>1, <2>1 DEF Sd!CtrlNext, Sd!Sets, Asked
<1>5. Sd!Rose("data_dat") => Sd!status_data_dat
  BY <1>2 DEF Sd!Rose
<1>6. Asked' <=> "DAT_DATA" \in ctrl' \/ Sd!Rose("data_dat")'
  BY DEF Asked
<1> QED BY <1>3, <1>4, <1>5, <1>6

-----------------------------------------------------------------------------
(* The lines through one step. *)

(* The lines of the controller and those of the card.                      *)
Wired == Lined(dat) /\ ReadLine /\ WriteLine /\ WriteTask /\ Prepared /\ AskedWell

(* A step with access acc that keeps the rules of the data lines.          *)
DataStep(acc, fits) ==
  Stepping(acc, fits) /\ Wired /\ Exchanges(acc) /\ BreaksWell /\ ~EarlyData

(* While blocks are transferred the card does nothing else. *)
LEMMA CardTransfers ==
  ASSUME ControllerInv, Wired
  PROVE  /\ Moving <=> dat.state \in ReadStates \cup WriteStates
         /\ Moving => task # "busy"
         /\ dat.state \in DatStates
<1>1. dat.state \in DatStates
  BY DEF ControllerInv, DatShape, Shaped, DatRecord
<1>2. Moving <=> dat.state \in ReadStates \cup WriteStates
  BY <1>1 DEF Moving, Busy, DatStates, ReadStates, WriteStates
<1>3. ASSUME dat.state \in ReadStates PROVE task # "busy"
  BY <1>3 DEF Wired, ReadLine, ReadStates
<1>4. ASSUME dat.state \in WriteStates PROVE task # "busy"
  <2>1. \A k : TokenAt(k) /\ k \in Nat => task # "busy"
    BY DEF TokenAt, Sd!TokenEnd
  <2>2. Moved(dat.bit) \in Nat
    BY DEF Moved, ControllerInv, DatShape, Shaped, DatRecord
  <2> QED BY <1>4, <2>1, <2>2 DEF Wired, WriteTask, WriteStates
<1> QED BY <1>1, <1>2, <1>3, <1>4

(* A strobe ends the period. *)
LEMMA PeriodEnds ==
  ASSUME NEW acc, NEW fits, Stepping(acc, fits), clkstrb
  PROVE  ~Fallen' /\ ~Risen' /\ ~clkstrb'
<1>1. Types /\ Strobes /\ Edge(acc, fits)
  BY DEF Stepping, ControllerInv
<1>2. clkstrb' = (sd_clk_strb /\ sd_clk_cont) /\ sd_clk_cont' = (sd_clk_cont # sd_clk_strb)
  BY <1>1, Zenon DEF Edge, Sd!Clock, Sd!ClockGenerator
<1>3. ~sd_clk_strb /\ ~sd_clk_cont /\ sd_clk_strb \in BOOLEAN /\ sd_clk_cont \in BOOLEAN
  BY <1>1 DEF Strobes, Types
<1> QED BY <1>2, <1>3 DEF Fallen, Risen

(* Between strobes the card moves, at strobes the controller. *)
LEMMA LinesStep ==
  ASSUME NEW acc, NEW fits, DataStep(acc, fits)
  PROVE  /\ Lined(dat)'
         /\ ~clkstrb => dat' = dat /\ (Moving => Stays \/ Rises \/ Falls)
         /\ clkstrb => DataGoes /\ (Moving => Strobe) /\ ~Fallen' /\ ~Risen' /\ ~clkstrb'
<1>1. Stepping(acc, fits) /\ Lined(dat) /\ ControllerInv /\ BreaksWell /\ Edge(acc, fits)
  BY DEF DataStep, Wired, Stepping
<1>2. Moving => (Stays \/ Rises \/ Falls \/ Strobe) /\ (Fallen => Strobe)
  BY <1>1, CardTransfers, Transferring DEF DataStep
<1>3. CASE ~clkstrb
  <2>1. dat' = dat
    BY <1>1, <1>3, StillBetween
  <2>2. Lined(dat)'
    <3> SUFFICES ASSUME NEW x, x = dat' PROVE Lined(x)
      BY Zenon
    <3> QED BY <1>1, <2>1
  <2> QED BY <1>2, <1>3, <2>1, <2>2 DEF Strobe, Fallen
<1>4. CASE clkstrb
  <2>1. /\ dat.state \in ReadStates \cup WriteStates
        /\ dat.state \notin {"WAIT_BLOCK", "REGOUT", "READ_FINISH", "WRITE_REGIN"}
        => Sd!sd_clk_en
    BY <1>1, ClockOn DEF Moving, Busy, ReadStates, WriteStates
  <2>2. Lined(dat)' /\ DataGoes
    BY <1>1, <1>4, <2>1, DataMoves
  <2> QED BY <1>1, <1>2, <1>4, <2>2, PeriodEnds DEF Fallen
<1> QED BY <1>3, <1>4

(* Reading, the data register holds and keeps what the card showed. *)
LEMMA ReadLineStep ==
  ASSUME NEW acc, NEW fits, DataStep(acc, fits)
  PROVE  ReadLine'
<1>1. /\ Stepping(acc, fits) /\ Lined(dat) /\ ControllerInv /\ ReadLine /\ Types
      /\ task \in Tasks /\ n \in Nat /\ dat.bit \in Nat /\ dat.word \in 0 .. Words
      /\ dat_reg.last \in Nat /\ Exchanges(acc)
      /\ dat.state = "READ_BLOCK" => dat.word > 0
  BY DEF DataStep, Wired, Stepping, ControllerInv, Types, DatShape, Shaped, DatRecord, WordRange
<1>2. /\ WordBits \in Nat \ {0} /\ CrcBits \in Nat \ {0} /\ Sd!BlockBits \in Nat \ {0}
      /\ Words \in Nat \ {0}
  BY Constants
<1>3. /\ Through \in Nat
      /\ dat.word > 0 => Through + WordBits <= Sd!BlockBits
  BY <1>1, PassedBits DEF Through
<1> DEFINE B == Sd!BlockBits + CrcBits
<1>4. B \in Nat /\ B > Sd!BlockBits
  BY <1>2
<1>5. CASE ~clkstrb
  <2>1. dat' = dat /\ (Moving => Stays \/ Rises \/ Falls)
    BY <1>5, LinesStep
  <2>2. Through' = Through
    BY <2>1 DEF Through
  <2> SUFFICES ASSUME dat.state \in ReadStates PROVE ReadLine'
    BY <2>1 DEF ReadLine, ReadStates
  <2>3. Moving /\ ~Fallen
    BY <1>5 DEF Moving, Busy, ReadStates, Fallen
  <2>4. dat.state # "READ_FINISH" => dat_reg' = dat_reg
    <3>1. dat.state # "READ_FINISH" => dat.rstn_reg
      BY <1>1 DEF Lined
    <3>2. ~Sd!Writes(acc, "DATA")
      BY <1>1 DEF Exchanges, ReadStates
    <3> QED BY <1>1, <1>5, <2>1, <3>1, <3>2, DataShifts
  <2>5. \/ Fallen' = FALSE /\ task' = task /\ n' = n
        \/ Falls /\ Sd!sd_clk_en /\ Fallen'
        \/ Falls /\ ~Sd!sd_clk_en /\ Fallen' /\ task' = task /\ n' = n
    <3>1. Rises => ~Fallen' /\ task' = task /\ n' = n
      <4>1. task \notin {"ready", "receive"}
        BY <1>1 DEF ReadLine, ReadStates
      <4> QED BY <1>1, <4>1, LinesTaken DEF Rises, CardStill
    <3> QED BY <2>1, <2>3, <3>1 DEF Stays, Falls, CardStill
  <2>6. Sd!sd_clk_en \/ (dat.state = "WAIT_BLOCK" /\ task = "answer")
          \/ dat.state \in {"REGOUT", "READ_FINISH"}
    BY <1>1, <2>3, ClockOn DEF ReadStates
  <2>7. dat.state \in {"REGOUT", "READ_FINISH"} => ~Sd!sd_clk_en
    BY <1>1, <2>3, ClockOn DEF ReadStates
  <2>8. Falls /\ Sd!sd_clk_en => Card!Move
    BY DEF Falls
  <2>9. CASE dat.state = "WAIT_BLOCK"
    <3>1. CASE task = "send"
      BY <1>1, <1>4, <2>1, <2>3, <2>5, <2>6, <2>8, <2>9, <3>1, LinesMove DEF ReadLine
    <3>2. CASE task # "send"
      <4>1. task \in {"answer", "delay", "idle"}
        BY <1>1, <2>9, <3>2 DEF ReadLine
      <4> QED BY <1>1, <1>4, <2>1, <2>3, <2>5, <2>6, <2>8, <2>9, <4>1, LinesMove DEF ReadLine
    <3> QED BY <3>1, <3>2
  <2>10. CASE dat.state = "READ_BLOCK"
    <3>1. /\ task = "send" /\ dat_reg.last = Through + dat.bit /\ n = dat_reg.last
          /\ dat.bit < WordBits
      BY <1>1, <2>3, <2>10 DEF ReadLine, ReadStates, Moved, Lined
    <3>2. n <= B
      BY <1>1, <1>2, <1>3, <1>4, <2>10, <3>1
    <3>3. task' = "send" /\ n' = IF Fallen' THEN n + 1 ELSE n
      BY <1>1, <1>4, <2>5, <2>6, <2>8, <2>10, <3>1, <3>2, LinesMove
    <3> QED BY <2>1, <2>2, <2>4, <2>10, <3>1, <3>3 DEF ReadLine, ReadStates, Moved
  <2>11. CASE dat.state = "REGOUT"
    BY <1>1, <2>1, <2>2, <2>4, <2>5, <2>7, <2>11 DEF ReadLine, ReadStates
  <2>12. CASE dat.state = "READ_CRC"
    <3>1. task = "send" /\ n = Sd!BlockBits + dat.bit /\ dat.bit < CrcBits
      BY <1>1, <2>3, <2>12 DEF ReadLine, ReadStates, Moved, Lined
    <3>2. n <= B
      BY <1>1, <1>2, <1>4, <3>1
    <3>3. task' = "send" /\ n' = IF Fallen' THEN n + 1 ELSE n
      BY <1>1, <1>4, <2>5, <2>6, <2>8, <2>12, <3>1, <3>2, LinesMove
    <3> QED BY <2>1, <2>12, <3>1, <3>3 DEF ReadLine, ReadStates, Moved
  <2>13. CASE dat.state = "READ_FINISH"
    BY <1>1, <2>1, <2>5, <2>7, <2>13 DEF ReadLine, ReadStates
  <2> QED BY <2>9, <2>10, <2>11, <2>12, <2>13 DEF ReadStates
<1>6. CASE clkstrb
  <2>1. DataGoes /\ (Moving => Strobe) /\ ~Fallen' /\ ~Risen' /\ Lined(dat)'
    BY <1>6, LinesStep
  <2>2. CASE dat'.state \notin ReadStates
    BY <2>2 DEF ReadLine, ReadStates
  <2>3. CASE dat.state = "IDLE" /\ dat'.state \in ReadStates
    <3>1. cmd.start_dat /\ command.dmode = "R" /\ dat'.state = "WAIT_BLOCK"
      BY <2>1, <2>3 DEF DataGoes, ReadStates, WriteStates
    <3>2. cmd.state = "WAIT_RESP"
      BY <1>1, <3>1 DEF ControllerInv, CmdShape
    <3>3. task = "answer"
      BY <1>1, <3>1, <3>2 DEF ControllerInv, Answered, Sent
    <3>4. task' = "answer"
      BY <1>1, <1>6, <3>3, Phases
      DEF Stepping, ControllerInv, Between, RisesNow, RisesNot, FallsNow, FallsNot, Strobed
    <3> QED BY <3>1, <3>4 DEF ReadLine, ReadStates
  <2>4. CASE dat.state \in ReadStates /\ dat'.state \in ReadStates
    <3>1. ReadGoes(dat, dat', Card!low) /\ Fallen /\ Moving
      BY <1>6, <2>1, <2>4 DEF DataGoes, ReadStates, WriteStates, Fallen, Moving, Busy
    <3>2. task' = task /\ n' = n
      BY <2>1, <3>1 DEF Strobe, CardStill
    <3>3. /\ dat.shift /\ ~Sd!Writes(acc, "DATA")
          /\ dat.state # "READ_FINISH" => dat.rstn_reg
          /\ dat'.state # "READ_FINISH" => dat'.rstn_reg
      BY <1>1, <2>1, <2>4 DEF Lined, ReadStates, Exchanges
    <3>4. /\ dat.state # "READ_FINISH" /\ dat'.state # "READ_FINISH" /\ Sd!sd_clk_en =>
               dat_reg'.last = Card!dat_o
          /\ dat.state # "READ_FINISH" /\ dat'.state # "READ_FINISH" /\ ~Sd!sd_clk_en =>
               dat_reg' = dat_reg
      BY <1>1, <1>6, <3>3, DataShifts
    <3>5. /\ dat.state \in {"READ_BLOCK", "READ_CRC"} => Sd!sd_clk_en
          /\ dat.state \in {"REGOUT", "READ_FINISH"} => ~Sd!sd_clk_en
      BY <1>1, <2>4, <3>1, ClockOn DEF ReadStates
    <3>6. task = "send" => Card!dat_o = n
      BY DEF Card!dat_o
    <3>7. CASE dat.state = "WAIT_BLOCK"
      <4>1. CASE dat'.state = "WAIT_BLOCK"
        <5>1. ~(Sd!sd_clk_en /\ Card!low)
          BY <3>1, <3>7, <4>1 DEF ReadGoes, Becomes
        <5>2. task = "send" => Sd!sd_clk_en
          BY <1>1, <3>1, <3>7, ClockOn
        <5>3. task = "send" => n = Sd!BlockBits + CrcBits + 1
          BY <1>1, <1>4, <3>1, <3>7, <5>1, <5>2 DEF ReadLine, Card!low, Sd!BlockBits
        <5> QED BY <1>1, <2>1, <3>2, <3>7, <4>1, <5>3 DEF ReadLine, ReadStates
      <4>2. CASE dat'.state = "READ_BLOCK"
        <5>1. dat'.bit = 0 /\ dat'.word = Words /\ Sd!sd_clk_en /\ Card!low
          BY <3>1, <3>7, <4>2 DEF ReadGoes, Becomes
        <5>2. task = "send" /\ n = 0
          BY <1>1, <1>4, <3>1, <3>7, <5>1 DEF ReadLine, Card!low, Sd!BlockBits
        <5>3. Through' = 0 /\ dat_reg'.last = 0
          BY <1>2, <3>4, <3>6, <3>7, <4>2, <5>1, <5>2, PassedBits DEF Through
        <5> QED BY <2>1, <3>2, <4>2, <5>1, <5>2, <5>3 DEF ReadLine, ReadStates, Moved
      <4> QED BY <3>1, <3>7, <4>1, <4>2 DEF ReadGoes, Becomes
    <3>8. CASE dat.state = "READ_BLOCK"
      <4>1. task = "send" /\ dat_reg.last = Through + dat.bit /\ n = Through + dat.bit + 1
        BY <1>1, <3>1, <3>8 DEF ReadLine, ReadStates, Moved
      <4>2. dat'.state # "READ_FINISH" /\ dat_reg'.last = n
        BY <3>1, <3>4, <3>5, <3>6, <3>8, <4>1 DEF ReadGoes, Becomes
      <4>3. CASE Becomes(dat', "READ_BLOCK", dat.bit + 1, dat.word)
        <5>1. Through' = Through
          BY <4>3 DEF Through, Becomes
        <5> QED BY <1>1, <1>3, <2>1, <3>2, <4>1, <4>2, <4>3, <5>1
                DEF ReadLine, ReadStates, Moved, Becomes
      <4>4. CASE dat.bit + 1 = WordBits /\ Becomes(dat', "REGOUT", 0, dat.word - 1)
        <5>1. Through' = Through + WordBits
          BY <1>1, <3>8, <4>4, PassedBits DEF Through, Becomes
        <5> QED BY <1>1, <1>2, <1>3, <2>1, <3>2, <4>1, <4>2, <4>4, <5>1
                DEF ReadLine, ReadStates, Moved, Becomes
      <4> QED BY <3>1, <3>8, <4>3, <4>4 DEF ReadGoes
    <3>9. CASE dat.state = "REGOUT"
      <4>1. task = "send" /\ dat_reg.last = Through /\ n = dat_reg.last
        BY <1>1, <3>9 DEF ReadLine, ReadStates
      <4>2. dat'.word = dat.word /\ dat'.state # "READ_FINISH" /\ dat_reg' = dat_reg
        BY <3>1, <3>4, <3>5, <3>9 DEF ReadGoes, Becomes
      <4>3. Through' = Through
        BY <4>2 DEF Through
      <4>4. CASE dat'.state = "REGOUT"
        BY <3>2, <4>1, <4>2, <4>3, <4>4 DEF ReadLine, ReadStates
      <4>5. CASE Becomes(dat', "READ_BLOCK", 0, dat.word)
        BY <1>3, <2>1, <3>2, <4>1, <4>2, <4>3, <4>5 DEF ReadLine, ReadStates, Becomes, Moved
      <4>6. CASE dat.word = 0 /\ Becomes(dat', "READ_CRC", 0, 0)
        <5>1. Through = Sd!BlockBits
          BY <1>1, <4>6, PassedBits DEF Through
        <5> QED BY <1>2, <2>1, <3>2, <4>1, <4>6, <5>1 DEF ReadLine, ReadStates, Becomes, Moved
      <4> QED BY <3>1, <3>9, <4>4, <4>5, <4>6 DEF ReadGoes, Becomes
    <3>10. CASE dat.state = "READ_CRC"
      <4>1. task = "send" /\ n = Sd!BlockBits + dat.bit + 1
        BY <1>1, <3>1, <3>10 DEF ReadLine, ReadStates, Moved
      <4> QED BY <1>1, <1>2, <2>1, <3>1, <3>2, <3>10, <4>1
              DEF ReadGoes, Becomes, ReadLine, ReadStates, Moved
    <3>11. CASE dat.state = "READ_FINISH"
      BY <1>1, <2>1, <3>1, <3>2, <3>11 DEF ReadGoes, Becomes, ReadLine, ReadStates, Moved
    <3> QED BY <2>4, <3>7, <3>8, <3>9, <3>10, <3>11 DEF ReadStates
  <2>5. dat'.state \in ReadStates => dat.state = "IDLE" \/ dat.state \in ReadStates
    BY <2>1 DEF DataGoes, ReadStates, WriteStates, WriteGoes, Becomes
  <2> QED BY <2>2, <2>3, <2>4, <2>5
<1> QED BY <1>5, <1>6

(* The card's lines move at the edges of its clock, or the card rests.     *)
LEMMA CardSteps ==
  ASSUME Types, Strobes, NEW acc, NEW fits, Edge(acc, fits)
  PROVE  \/ RisesNow
         \/ FallsNow /\ multi' = multi
         \/ /\ multi' = multi
            /\ (task' = task /\ n' = n) \/ (task = "busy" /\ task' = "idle")
            /\ ~Risen /\ Risen' => ~Sd!sd_clk_en
<1>1. Between \/ RisesNow \/ RisesNot \/ FallsNow \/ FallsNot \/ Strobed
  BY Phases
<1>2. \/ Sd!Rising /\ Card!Rise(cmd.oe, cmd_reg.idx, Sd!HostDat)
      \/ Sd!Falling /\ Card!Fall
      \/ multi' = multi /\ ((task' = task /\ n' = n) \/ (task = "busy" /\ task' = "idle"))
  BY DEF Edge
<1>3. Sd!Rising => ~clkstrb /\ sd_clk_strb /\ ~sd_clk_cont /\ Sd!sd_clk_en
  <2>1. sd_clk_strb \in BOOLEAN /\ sd_clk_cont \in BOOLEAN
    BY DEF Types
  <2> QED BY <2>1 DEF Sd!Rising, Sd!sd_clk_next, Strobes
<1>4. Sd!Falling => ~clkstrb /\ sd_clk_strb /\ sd_clk_cont /\ Sd!sd_clk_en
  <2>1. sd_clk_strb \in BOOLEAN /\ sd_clk_cont \in BOOLEAN
    BY DEF Types
  <2>2. sd_clk => sd_clk_cont
    BY DEF Strobes, Types
  <2>3. sd_clk => Sd!sd_clk_en
    BY <2>2 DEF Strobes
  <2> QED BY <2>1, <2>2, <2>3 DEF Sd!Falling, Sd!sd_clk_next, Strobes
<1>5. (clkstrb' <=> sd_clk_strb /\ sd_clk_cont) /\ (sd_clk_cont' <=> sd_clk_cont # sd_clk_strb)
  <2>1. clkstrb' = (sd_clk_strb /\ sd_clk_cont) /\ sd_clk_cont' = (sd_clk_cont # sd_clk_strb)
    BY Zenon DEF Edge, Sd!Clock, Sd!ClockGenerator
  <2> QED BY <2>1
<1>6. Sd!Rising /\ Card!Rise(cmd.oe, cmd_reg.idx, Sd!HostDat) => RisesNow
  <2>1. sd_clk_strb \in BOOLEAN /\ sd_clk_cont \in BOOLEAN
    BY DEF Types
  <2> QED BY <1>3, <1>5, <2>1 DEF RisesNow, Risen, Fallen
<1>7. Sd!Falling /\ Card!Fall => FallsNow /\ multi' = multi
  <2>1. sd_clk_strb \in BOOLEAN /\ sd_clk_cont \in BOOLEAN
    BY DEF Types
  <2> QED BY <1>4, <1>5, <2>1 DEF FallsNow, Risen, Fallen, Card!Fall
<1>8. ~Risen /\ Risen' => RisesNow \/ ~Sd!sd_clk_en
  BY <1>1 DEF Between, RisesNot, FallsNow, FallsNot, Strobed
<1> QED BY <1>2, <1>6, <1>7, <1>8

(* The data lines of a card that is not written to. *)
LEMMA OtherTasks ==
  ASSUME NEW acc, NEW fits, Stepping(acc, fits), Lined(dat), dat.state \notin WriteStates,
         task \notin {"receive", "turn", "token", "programs"}, ~EarlyData
  PROVE  /\ task' \notin {"receive", "turn", "token", "programs"}
         /\ ~cmd.oe /\ task = "ready" => task' = "ready"
         /\ ~cmd.oe => multi' = multi
<1>1. Types /\ Strobes /\ Edge(acc, fits) /\ task \in Tasks
  BY DEF Stepping, ControllerInv, Types
<1>2. Sd!HostDat = "none"
  <2>1. ~dat.oe
    BY DEF Lined, InBlock, WriteStates
  <2> QED BY <2>1 DEF Sd!HostDat
<1>3. CASE RisesNow /\ ~cmd.oe
  <2>1. Card!TakeDataBit(Sd!HostDat)
    BY <1>3 DEF RisesNow, Card!Rise
  <2> QED BY <1>1, <1>2, <2>1, LinesTaken
<1>4. CASE RisesNow /\ cmd.oe
  <2>1. Card!TakeCommandBit(cmd_reg.idx)
    BY <1>4 DEF RisesNow, Card!Rise
  <2>2. task' = task \/ Card!Takes(cmd_reg.idx)
    BY <2>1 DEF Card!TakeCommandBit
  <2>3. task' \in {task, "answer", "ready", "idle", "busy"}
    BY <2>2 DEF Card!Takes
  <2> QED BY <1>4, <2>3
<1>5. CASE FallsNow /\ multi' = multi
  <2>1. Card!Move
    BY <1>5 DEF FallsNow, Card!Fall
  <2> QED BY <1>1, <1>5, <2>1, LinesMove DEF Tasks
<1>6. CASE multi' = multi /\ (task' = task \/ (task = "busy" /\ task' = "idle"))
  BY <1>6
<1> QED BY <1>1, <1>3, <1>4, <1>5, <1>6, CardSteps

(* The card is ready for the blocks of a write. *)
LEMMA PreparedStep ==
  ASSUME NEW acc, NEW fits, DataStep(acc, fits)
  PROVE  Prepared'
<1>1. /\ Stepping(acc, fits) /\ Lined(dat) /\ ControllerInv /\ Types /\ Strobes /\ ~EarlyData
      /\ Edge(acc, fits) /\ Permitted(acc) /\ Prepared /\ WriteTask
      /\ cmd.oe = (cmd.state = "WRITE")
  BY DEF DataStep, Wired, Stepping, ControllerInv, CmdShape
<1>2. CmdBits \in Nat \ {0}
  BY Constants
<1>3. ASSUME command'.idx \in {"READ", "WRITE_MULTI"}, Received',
             command'.idx = "WRITE_MULTI" => dat'.state = "IDLE"
      PROVE  /\ command'.idx = "WRITE_MULTI" => task' = "ready"
             /\ command'.idx = "READ" => ~multi'
  <2>1. ~Sd!Writes(acc, "CMD")
    <3>1. ASSUME Sd!Writes(acc, "CMD") PROVE FALSE
      <4>1. command' = acc.data
        BY <1>1, <3>1, CommandMoves
      <4>2. Settled
        BY <1>1, <1>3, <3>1, <4>1 DEF Permitted
      <4>3. cmd'.state = "IDLE"
        BY <1>1, <4>2, CmdRests DEF Settled, Rests, Stepping
      <4> QED BY <1>3, <4>3 DEF Received
    <3> QED BY <3>1
  <2>2. command'.idx = command.idx
    BY <1>1, <2>1, CommandMoves
  <2>3. command.idx = "WRITE_MULTI" => dat.state = "IDLE"
    <3>1. ASSUME command.idx = "WRITE_MULTI", dat.state # "IDLE" PROVE FALSE
      <4>1. ~command.abrt
        BY <1>1, <3>1 DEF Types, Formed
      <4>2. Moving
        <5>1. CASE Active
          BY <1>1, <3>1, <5>1 DEF ControllerInv, FirstInv, First, Moving, Busy
        <5>2. CASE ~Active
          BY <1>1, <3>1, <5>2 DEF ControllerInv, FlowInv, Flow
        <5> QED BY <5>1, <5>2
      <4>3. dat'.state = "IDLE"
        BY <1>3, <2>2, <3>1
      <4>4. dat.state \in ReadStates \cup WriteStates
        BY <1>1, <4>2, CardTransfers DEF DataStep
      <4>5. CASE clkstrb
        BY <4>1, <4>3, <4>4, <4>5, LinesStep
        DEF DataGoes, ReadGoes, WriteGoes, Becomes, ReadStates, WriteStates
      <4>6. CASE ~clkstrb
        BY <3>1, <4>3, <4>6, LinesStep
      <4> QED BY <4>5, <4>6
    <3> QED BY <3>1
  <2>4. CASE Received /\ ~RisesNow
    <3>1. multi' = multi
      BY <1>1, <2>4, CardSteps
    <3>2. task = "ready" => task' = "ready"
      <4>1. CASE FallsNow
        <5>1. Card!Move
          BY <4>1 DEF FallsNow, Card!Fall
        <5> QED BY <1>1, <5>1, LinesMove
      <4>2. CASE ~FallsNow
        BY <1>1, <2>4, <4>2, CardSteps
      <4> QED BY <4>1, <4>2
    <3> QED BY <1>1, <2>2, <2>3, <2>4, <3>1, <3>2 DEF Prepared
  <2>5. CASE Received /\ RisesNow
    <3>1. ~cmd.oe
      BY <1>1, <2>5 DEF Received, RisesNow
    <3>2. CASE dat.state \notin WriteStates
      <4>1. /\ multi' = multi
            /\ task = "ready" => task' = "ready"
        BY <1>1, <3>1, <3>2, OtherTasks DEF WriteTask
      <4> QED BY <1>1, <2>2, <2>3, <2>5, <4>1 DEF Prepared
    <3>3. CASE dat.state \in WriteStates
      <4>1. multi' = multi
        BY <1>1, <2>5, <3>1, LinesTaken DEF RisesNow, Card!Rise
      <4> QED BY <1>1, <1>3, <2>2, <2>3, <2>5, <3>3, <4>1 DEF Prepared, WriteStates
    <3> QED BY <3>2, <3>3
  <2>6. CASE ~Received
    <3>1. ~clkstrb
      <4>1. ASSUME clkstrb PROVE FALSE
        <5>1. ~Risen'
          BY <1>1, <4>1, PeriodEnds
        <5>2. cmd'.state \notin {"IDLE", "WRITE"}
          BY <1>3, <5>1 DEF Received
        <5>3. cmd.state = "WRITE" /\ cmd.bit + 1 = CmdBits
          BY <1>1, <2>6, <4>1, <5>2, CmdMoves
          DEF Received, CmdResets, CmdMove, CmdStarts, CmdHolds, CmdCounts, CmdWaits, CmdResponds,
              CmdOffers, CmdReadsOn, CmdTrails, CmdEnds, CmdGoes
        <5> QED BY <2>6, <4>1, <5>3 DEF Received, Risen
      <4> QED BY <4>1
    <3>2. cmd' = cmd
      BY <1>1, <3>1, StillBetween
    <3>3. cmd.state = "WRITE" /\ cmd.bit + 1 = CmdBits /\ ~Risen /\ Risen'
      BY <1>3, <2>6, <3>2 DEF Received
    <3>4. RisesNow
      BY <1>1, <3>3, CardSteps, ClockRuns DEF FallsNow
    <3>5. /\ cmd_reg.idx = command.idx /\ rx = cmd.bit
      BY <1>1, <3>3 DEF ControllerInv, Commanded, Active
    <3>6. Card!TakeCommandBit(command.idx)
      BY <1>1, <3>3, <3>4, <3>5 DEF RisesNow, Card!Rise
    <3>7. Card!Takes(command.idx)
      BY <1>2, <1>3, <2>2, <3>3, <3>5, <3>6 DEF Card!TakeCommandBit
    <3> QED BY <1>3, <2>2, <3>7 DEF Card!Takes
  <2> QED BY <2>4, <2>5, <2>6
<1>4. (command.idx = "READ" /\ Received)' => ~multi'
  BY <1>3
<1>5. (command.idx = "WRITE_MULTI" /\ dat.state = "IDLE" /\ Received)' => task' = "ready"
  BY <1>3
<1> QED BY <1>4, <1>5 DEF Prepared

(* The answer of the card goes on by one clock. *)
LEMMA TokenMoves ==
  ASSUME Types, NEW k \in 0 .. 6, TokenAt(k), Card!Move
  PROVE  TokenAt(k + 1)'
<1>1. n \in Nat
  BY DEF Types
<1>2. CASE k < 2
  <2>1. task = "turn" /\ n = 1 - k
    BY <1>2 DEF TokenAt
  <2>2. CASE k = 0
    BY <1>1, <2>1, <2>2, LinesMove DEF TokenAt
  <2>3. CASE k = 1
    BY <1>1, <2>1, <2>3, LinesMove DEF TokenAt, Sd!TokenEnd
  <2> QED BY <1>2, <2>2, <2>3
<1>3. CASE k \in 2 .. 5
  <2>1. task = "token" /\ n = k - 2
    BY <1>3 DEF TokenAt, Sd!TokenEnd
  <2>2. task' = "token" /\ n' = n + 1
    BY <1>1, <1>3, <2>1, LinesMove
  <2> QED BY <1>3, <2>1, <2>2 DEF TokenAt, Sd!TokenEnd
<1>4. CASE k = 6
  <2>1. task = "token" /\ n = 4
    BY <1>4 DEF TokenAt, Sd!TokenEnd
  <2>2. task' = "programs"
    BY <2>1, LinesMove
  <2> QED BY <1>4, <2>2 DEF TokenAt, Sd!TokenEnd
<1> QED BY <1>2, <1>3, <1>4

(* Writing, the card is where the controller thinks it is. *)
LEMMA WriteTaskStep ==
  ASSUME NEW acc, NEW fits, DataStep(acc, fits)
  PROVE  WriteTask'
<1>1. /\ Stepping(acc, fits) /\ Lined(dat) /\ ControllerInv /\ WriteTask /\ Types
      /\ task \in Tasks /\ n \in Nat /\ dat.bit \in Nat /\ dat.word \in 0 .. Words
      /\ ~EarlyData /\ BreaksWell /\ Prepared
      /\ dat.state = "WRITE_DATA" => dat.word > 0
  BY DEF DataStep, Wired, Stepping, ControllerInv, Types, DatShape, Shaped, DatRecord, WordRange
<1>2. /\ WordBits \in Nat \ {0} /\ CrcBits \in Nat \ {0} /\ Sd!BlockBits \in Nat \ {0}
      /\ Words \in Nat \ {0}
  BY Constants
<1>3. /\ Through \in Nat
      /\ dat.word > 0 => Through + WordBits <= Sd!BlockBits
  BY <1>1, PassedBits DEF Through
<1>4. CASE ~clkstrb
  <2>1. dat' = dat /\ (Moving => Stays \/ Rises \/ Falls)
    BY <1>4, LinesStep
  <2>2. Through' = Through
    BY <2>1 DEF Through
  <2>3. CASE dat.state \notin WriteStates
    <3>1. task' \notin {"receive", "turn", "token", "programs"}
      BY <1>1, <2>3, OtherTasks DEF WriteTask
    <3> QED BY <2>1, <2>3, <3>1 DEF WriteTask, WriteStates
  <2>4. CASE dat.state \in WriteStates
    <3>1. Moving
      BY <2>4 DEF Moving, Busy, WriteStates
    <3>2. /\ dat.state = "WRITE_REGIN" => ~Sd!sd_clk_en
          /\ dat.state # "WRITE_REGIN" => Sd!sd_clk_en
      BY <1>1, <2>4, <3>1, ClockOn DEF WriteStates
    <3>3. /\ dat.state = "WRITE_START" => Sd!HostDat = "start"
          /\ dat.state \in {"WRITE_CHECK_CRC", "WRITE_BUSY", "WRITE_TAIL"} => Sd!HostDat = "none"
      BY <1>1 DEF Sd!HostDat, Lined, InBlock
    <3>4. CASE Stays
      BY <2>1, <2>2, <1>1, <3>4 DEF WriteTask, Stays, CardStill, TokenAt, Moved, Seen
    <3>5. CASE Rises
      <4>1. CASE dat.state = "WRITE_REGIN"
        BY <1>1, <2>1, <2>2, <3>2, <3>5, <4>1 DEF WriteTask, Rises, CardStill, WriteStates
      <4>2. CASE dat.state = "WRITE_START"
        <5>1. task = "ready"
          BY <1>1, <3>5, <4>2 DEF WriteTask, Rises
        <5>2. task' = "receive" /\ n' = 0
          BY <1>1, <3>2, <3>3, <3>5, <4>2, <5>1, LinesTaken DEF Rises
        <5> QED BY <2>1, <3>5, <4>2, <5>2 DEF WriteTask, Rises, WriteStates
      <4>3. CASE dat.state = "WRITE_DATA"
        <5>1. task = "receive" /\ n = Through + dat.bit /\ dat.bit < WordBits
          BY <1>1, <3>5, <4>3 DEF WriteTask, Rises, Seen, Lined
        <5>2. n < Sd!BlockBits + CrcBits
          BY <1>1, <1>2, <1>3, <4>3, <5>1
        <5>3. task' = "receive" /\ n' = n + 1
          BY <1>1, <3>2, <3>5, <4>3, <5>1, <5>2, LinesTaken DEF Rises
        <5> QED BY <2>1, <2>2, <3>5, <4>3, <5>1, <5>3 DEF WriteTask, Rises, WriteStates, Seen
      <4>4. CASE dat.state = "WRITE_CRC"
        <5>1. task = "receive" /\ n = Sd!BlockBits + dat.bit /\ dat.bit < CrcBits
          BY <1>1, <3>5, <4>4 DEF WriteTask, Rises, Seen, Lined
        <5>2. n < Sd!BlockBits + CrcBits
          BY <1>1, <1>2, <5>1
        <5>3. task' = "receive" /\ n' = n + 1
          BY <1>1, <3>2, <3>5, <4>4, <5>1, <5>2, LinesTaken DEF Rises
        <5> QED BY <2>1, <3>5, <4>4, <5>1, <5>3 DEF WriteTask, Rises, WriteStates, Seen
      <4>5. CASE dat.state = "WRITE_STOP"
        <5>1. task = "receive" /\ n = Sd!BlockBits + CrcBits
          BY <1>1, <3>5, <4>5 DEF WriteTask, Rises
        <5>2. task' = "turn" /\ n' = 2
          BY <1>1, <3>2, <3>5, <4>5, <5>1, LinesTaken DEF Rises
        <5> QED BY <2>1, <3>5, <4>5, <5>2 DEF WriteTask, Rises, WriteStates
      <4>6. CASE dat.state = "WRITE_CHECK_CRC"
        <5>1. TokenAt(dat.bit)
          BY <1>1, <3>5, <4>6 DEF WriteTask, Rises, Moved
        <5>2. task \notin {"ready", "receive"}
          BY <1>1, <5>1 DEF TokenAt, Sd!TokenEnd
        <5>3. task' = task /\ n' = n
          BY <1>1, <3>2, <3>5, <4>6, <5>2, LinesTaken DEF Rises
        <5> QED BY <2>1, <3>5, <4>6, <5>1, <5>3 DEF WriteTask, Rises, WriteStates, Moved, TokenAt
      <4>7. CASE dat.state \in {"WRITE_BUSY", "WRITE_TAIL"}
        <5>1. task \in {"programs", "ready"} /\ (dat.state = "WRITE_TAIL" => task = "ready")
          BY <1>1, <4>7 DEF WriteTask
        <5>2. Sd!HostDat = "none" /\ Card!TakeDataBit(Sd!HostDat)
          BY <3>2, <3>3, <3>5, <4>7 DEF Rises
        <5>3. task' = task
          BY <1>1, <5>1, <5>2, LinesTaken
        <5> QED BY <2>1, <4>7, <5>1, <5>3 DEF WriteTask, WriteStates
      <4> QED BY <2>4, <4>1, <4>2, <4>3, <4>4, <4>5, <4>6, <4>7 DEF WriteStates
    <3>6. CASE Falls
      <4>1. CASE dat.state = "WRITE_REGIN"
        BY <1>1, <2>1, <2>2, <3>2, <3>6, <4>1 DEF WriteTask, Falls, CardStill, WriteStates
      <4>2. CASE dat.state \in {"WRITE_START", "WRITE_DATA", "WRITE_CRC"}
        <5>1. task = "receive"
          BY <1>1, <3>6, <4>2 DEF WriteTask, Falls
        <5>2. task' = task /\ n' = n
          BY <1>1, <3>2, <3>6, <4>2, <5>1, LinesMove DEF Falls
        <5> QED BY <1>1, <2>1, <2>2, <3>6, <4>2, <5>1, <5>2 DEF WriteTask, Falls, WriteStates, Seen
      <4>3. CASE dat.state = "WRITE_STOP"
        <5>1. task = "turn" /\ n = 2
          BY <1>1, <3>6, <4>3 DEF WriteTask, Falls
        <5>2. task' = "turn" /\ n' = 1
          BY <1>1, <3>2, <3>6, <4>3, <5>1, LinesMove DEF Falls
        <5> QED BY <2>1, <3>6, <4>3, <5>2 DEF WriteTask, Falls, WriteStates
      <4>4. CASE dat.state = "WRITE_CHECK_CRC"
        <5>1. TokenAt(dat.bit) /\ dat.bit \in 0 .. 6
          BY <1>1, <3>6, <4>4 DEF WriteTask, Falls, Moved, Lined, Sd!TokenEnd
        <5> DEFINE k == dat.bit
        <5>2. Card!Move
          BY <3>2, <3>6, <4>4 DEF Falls
        <5>3. \A i \in 0 .. 6 : TokenAt(i) => TokenAt(i + 1)'
          BY <1>1, <5>2, TokenMoves
        <5>4. TokenAt(dat.bit + 1)'
          BY <2>1, <5>1, <5>3 DEF TokenAt
        <5> QED BY <2>1, <3>6, <4>4, <5>4 DEF WriteTask, Falls, WriteStates, Moved, TokenAt
      <4>5. CASE dat.state \in {"WRITE_BUSY", "WRITE_TAIL"}
        <5>1. task \in {"programs", "ready"} /\ (dat.state = "WRITE_TAIL" => task = "ready")
          BY <1>1, <4>5 DEF WriteTask
        <5>2. /\ task = "ready" => task' = "ready"
              /\ task = "programs" => task' \in {"programs", "ready"}
          BY <1>1, <3>2, <3>6, <4>5, LinesMove DEF Falls
        <5> QED BY <2>1, <4>5, <5>1, <5>2 DEF WriteTask, WriteStates
      <4> QED BY <2>4, <4>1, <4>2, <4>3, <4>4, <4>5 DEF WriteStates
    <3> QED BY <2>1, <3>1, <3>4, <3>5, <3>6
  <2> QED BY <2>3, <2>4
<1>5. CASE clkstrb
  <2>1. DataGoes /\ (Moving => Strobe) /\ ~Fallen' /\ ~Risen'
    BY <1>5, LinesStep
  <2>2. CASE dat.state \in WriteStates
    <3>1. Fallen /\ Risen /\ task' = task /\ n' = n
      BY <2>1, <2>2 DEF Strobe, CardStill, Moving, Busy, WriteStates
    <3>2. CASE command.abrt /\ dat'.state = "TAIL"
      <4>1. task = "ready"
        BY <1>1, <1>5, <2>2, <3>2 DEF BreaksWell, WriteTask
      <4> QED BY <3>1, <3>2, <4>1 DEF WriteTask, WriteStates
    <3>3. CASE WriteGoes(dat, dat', Card!low)
      <4>1. CASE dat.state = "WRITE_REGIN" /\ dat.write_start
        <5>1. task = "ready"
          BY <1>1, <4>1 DEF WriteTask
        <5> QED BY <2>1, <3>1, <3>3, <4>1, <5>1 DEF WriteGoes, Becomes, WriteTask, WriteStates
      <4>2. CASE dat.state = "WRITE_REGIN" /\ ~dat.write_start
        <5>1. task = "receive" /\ n = Through
          BY <1>1, <4>2 DEF WriteTask
        <5>2. \/ dat'.state = "WRITE_REGIN" /\ ~dat'.write_start
              \/ dat'.state = "WRITE_DATA" /\ dat'.bit = 0
          BY <3>3, <4>2 DEF WriteGoes, Becomes
        <5>3. Through' = Through
          BY <3>3, <4>2 DEF WriteGoes, Becomes, Through
        <5>4. Seen(Through + dat.bit)' = IF dat'.bit = 0 THEN Through ELSE Seen(Through + dat.bit)'
          BY <1>3, <2>1, <5>3 DEF Seen
        <5> QED BY <2>1, <3>1, <5>1, <5>2, <5>3, <5>4 DEF WriteTask, WriteStates
      <4>3. CASE dat.state = "WRITE_START"
        <5>1. task = "receive" /\ n = 0
          BY <1>1, <3>1, <4>3 DEF WriteTask
        <5>2. Becomes(dat', "WRITE_DATA", 0, Words)
          BY <3>3, <4>3 DEF WriteGoes
        <5>3. Through' = 0
          BY <1>2, <5>2, PassedBits DEF Through, Becomes
        <5> QED BY <2>1, <3>1, <5>1, <5>2, <5>3 DEF WriteTask, WriteStates, Seen, Becomes
      <4>4. CASE dat.state = "WRITE_DATA"
        <5>1. task = "receive" /\ n = Through + dat.bit + 1
          BY <1>1, <3>1, <4>4 DEF WriteTask, Seen
        <5>2. CASE Becomes(dat', "WRITE_DATA", dat.bit + 1, dat.word)
          <6>1. Through' = Through
            BY <5>2 DEF Becomes, Through
          <6> QED BY <1>1, <1>3, <2>1, <3>1, <5>1, <5>2, <6>1
                  DEF WriteTask, WriteStates, Seen, Becomes
        <5>3. CASE dat.bit + 1 = WordBits /\ dat.word = 1 /\ Becomes(dat', "WRITE_CRC", 0, 0)
          <6>1. Through + WordBits = Sd!BlockBits
            <7>1. dat.word - 1 = 0 /\ dat.word > 0
              BY <5>3
            <7> QED BY <1>1, <7>1, PassedBits DEF Through
          <6>2. n = Sd!BlockBits
            BY <1>1, <1>3, <5>1, <5>3, <6>1
          <6> QED BY <1>2, <2>1, <3>1, <5>1, <5>3, <6>2 DEF WriteTask, WriteStates, Seen, Becomes
        <5>4. CASE /\ dat.bit + 1 = WordBits /\ ~dat'.write_start
                   /\ Becomes(dat', "WRITE_REGIN", 0, dat.word - 1)
          <6>1. Through' = Through + WordBits
            BY <1>1, <4>4, <5>4, PassedBits DEF Through, Becomes
          <6> QED BY <1>1, <1>3, <2>1, <3>1, <5>1, <5>4, <6>1 DEF WriteTask, WriteStates, Becomes
        <5> QED BY <3>3, <4>4, <5>2, <5>3, <5>4 DEF WriteGoes
      <4>5. CASE dat.state = "WRITE_CRC"
        <5>1. task = "receive" /\ n = Sd!BlockBits + dat.bit + 1
          BY <1>1, <3>1, <4>5 DEF WriteTask, Seen
        <5> QED BY <1>1, <1>2, <2>1, <3>1, <3>3, <4>5, <5>1
                DEF WriteGoes, Becomes, WriteTask, WriteStates, Seen
      <4>6. CASE dat.state = "WRITE_STOP"
        <5>1. task = "turn" /\ n = 1
          BY <1>1, <3>1, <4>6 DEF WriteTask
        <5>2. Becomes(dat', "WRITE_CHECK_CRC", 0, 0)
          BY <3>3, <4>6 DEF WriteGoes
        <5> QED BY <2>1, <3>1, <5>1, <5>2 DEF WriteTask, WriteStates, Becomes, TokenAt, Moved
      <4>7. CASE dat.state = "WRITE_CHECK_CRC"
        <5>1. TokenAt(dat.bit + 1)
          BY <1>1, <3>1, <4>7 DEF WriteTask, Moved
        <5>2. CASE Becomes(dat', "WRITE_CHECK_CRC", dat.bit + 1, 0)
          BY <2>1, <3>1, <5>1, <5>2 DEF WriteTask, WriteStates, Becomes, Moved, TokenAt
        <5>3. CASE dat.bit = Sd!TokenEnd /\ dat'.state = "WRITE_BUSY"
          <6>1. task = "programs"
            BY <5>1, <5>3 DEF TokenAt, Sd!TokenEnd
          <6> QED BY <3>1, <5>3, <6>1 DEF WriteTask, WriteStates
        <5> QED BY <3>3, <4>7, <5>2, <5>3 DEF WriteGoes
      <4>8. CASE dat.state = "WRITE_BUSY"
        <5>1. task \in {"programs", "ready"}
          BY <1>1, <4>8 DEF WriteTask
        <5>2. task = "programs" => Card!low
          BY DEF Card!low
        <5> QED BY <3>1, <3>3, <4>8, <5>1, <5>2 DEF WriteGoes, WriteTask, WriteStates, Becomes
      <4>9. CASE dat.state = "WRITE_TAIL"
        <5>1. task = "ready"
          BY <1>1, <4>9 DEF WriteTask
        <5> QED BY <3>1, <3>3, <4>9, <5>1 DEF WriteGoes, WriteTask, WriteStates, Becomes
      <4> QED BY <2>2, <4>1, <4>2, <4>3, <4>4, <4>5, <4>6, <4>7, <4>8, <4>9 DEF WriteStates
    <3> QED BY <2>1, <2>2, <3>2, <3>3 DEF DataGoes, ReadStates, WriteStates
  <2>3. CASE dat.state \notin WriteStates
    <3>1. /\ task' \notin {"receive", "turn", "token", "programs"}
          /\ ~cmd.oe /\ task = "ready" => task' = "ready"
      BY <1>1, <2>3, OtherTasks DEF WriteTask
    <3>2. CASE dat'.state \notin WriteStates
      BY <3>1, <3>2 DEF WriteTask, WriteStates
    <3>3. CASE dat'.state \in WriteStates
      <4>1. /\ dat.state = "IDLE" /\ cmd.start_dat /\ command.dmode = "W"
            /\ dat'.state = "WRITE_REGIN" /\ dat'.write_start
        BY <2>1, <2>3, <3>3 DEF DataGoes, ReadStates, WriteStates, ReadGoes, Becomes
      <4>2. cmd.state = "TAIL" /\ ~cmd.oe /\ command.idx = "WRITE_MULTI"
        BY <1>1, <4>1
        DEF ControllerInv, CmdShape, Types, Formed, PhasesOf, CommandSet, Indices
      <4>3. task' = "ready"
        BY <1>1, <3>1, <4>1, <4>2 DEF Prepared, Received
      <4> QED BY <4>1, <4>3 DEF WriteTask, WriteStates
    <3> QED BY <3>2, <3>3
  <2> QED BY <2>2, <2>3
<1> QED BY <1>4, <1>5

(* A data phase that is asked for ends by an abort only. *)
LEMMA FlowStays ==
  ASSUME NEW acc, NEW fits, DataStep(acc, fits), command.idx \in Flow, dat'.state = "IDLE"
  PROVE  dat.state = "IDLE"
<1>1. /\ ControllerInv /\ Types
      /\ dat.state \in ReadStates \cup WriteStates <=> Moving
  BY CardTransfers DEF DataStep, Stepping, ControllerInv
<1>2. SUFFICES ASSUME dat.state # "IDLE" PROVE FALSE
  OBVIOUS
<1>3. ~command.abrt
  BY <1>1 DEF Types, Formed, Flow
<1>4. Moving
  <2>1. CASE Active
    BY <1>1, <1>2, <2>1 DEF ControllerInv, FirstInv, First, Moving, Busy, Flow
  <2>2. CASE ~Active
    BY <1>1, <1>2, <2>2 DEF ControllerInv, FlowInv, Flow
  <2> QED BY <2>1, <2>2
<1>5. CASE clkstrb
  BY <1>1, <1>3, <1>4, <1>5, LinesStep
  DEF DataGoes, ReadGoes, WriteGoes, Becomes, ReadStates, WriteStates
<1>6. CASE ~clkstrb
  BY <1>2, <1>6, LinesStep
<1> QED BY <1>5, <1>6

(* Nothing is asked for but in the states that wait for the driver. *)
LEMMA AskedWhere ==
  ASSUME NEW acc, NEW fits, DataStep(acc, fits)
  PROVE  /\ Asked /\ Moving => Sd!status_data_dat
         /\ command.idx \in Flow /\ dat.state = "IDLE" => ~Asked
         /\ clkstrb /\ Asked => ~Sd!acked
         /\ dat.state = "IDLE" /\ cmd.start_dat /\ command.dmode \in {"R", "W"} => ~Asked
<1>1. Stepping(acc, fits) /\ AskedWell /\ ControllerInv /\ Types
  BY DEF DataStep, Wired, Stepping, ControllerInv
<1>2. Sd!Rose("data_dat") => Sd!status_data_dat
  BY <1>1, AskedMoves
<1>3. command.dmode \in {"R", "W"} => command.idx \in Flow
  BY <1>1 DEF Types, Formed, CommandSet, Indices, PhasesOf, Flow
<1> QED BY <1>1, <1>2, <1>3 DEF Asked, AskedWell, Sd!acked, Sd!status_data_dat

(* The flag of the data register. *)
LEMMA AskedWellStep ==
  ASSUME NEW acc, NEW fits, DataStep(acc, fits)
  PROVE  AskedWell'
<1>1. /\ Stepping(acc, fits) /\ AskedWell /\ ControllerInv /\ Types /\ Permitted(acc)
      /\ Edge(acc, fits) /\ fits \in BOOLEAN
  BY DEF DataStep, Wired, Stepping, ControllerInv
<1>2. /\ Sd!Rose("data_dat")' <=> Sd!status_data_dat' /\ ~Sd!status_data_dat
      /\ "DAT_DATA" \in ctrl' => Asked
      /\ Sd!Rose("data_dat") => Sd!status_data_dat
  BY <1>1, AskedMoves
<1>3. dat'.state \in DatStates
  <2>1. CASE clkstrb
    <3>1. DatShape'
      BY <1>1, <2>1, DatSteps
    <3> QED BY <3>1 DEF DatShape, Shaped, DatRecord
  <2>2. CASE ~clkstrb
    BY <2>2, LinesStep, CardTransfers DEF DataStep, Stepping
  <2> QED BY <2>1, <2>2
<1>4. /\ Asked /\ Moving => Sd!status_data_dat
      /\ command.idx \in Flow /\ dat.state = "IDLE" => ~Asked
      /\ clkstrb /\ Asked => ~Sd!acked
      /\ dat.state = "IDLE" /\ cmd.start_dat /\ command.dmode \in {"R", "W"} => ~Asked
  BY AskedWhere
<1>5. Moving' <=> dat'.state \in ReadStates \cup WriteStates
  BY <1>3 DEF Moving, Busy, DatStates, ReadStates, WriteStates
<1>6. Moving <=> dat.state \in ReadStates \cup WriteStates
  BY CardTransfers DEF DataStep, Stepping
<1>7. clkstrb => DataGoes
  BY LinesStep
<1>8. Sd!Rose("data_dat")' => ~clkstrb' /\ "DAT_DATA" \notin ctrl'
  <2>1. SUFFICES ASSUME Sd!Rose("data_dat")' PROVE ~clkstrb' /\ "DAT_DATA" \notin ctrl'
    OBVIOUS
  <2>2. clkstrb
    <3>1. ASSUME ~clkstrb PROVE FALSE
      <4>1. dat' = dat
        BY <3>1, LinesStep
      <4> QED BY <1>2, <2>1, <4>1 DEF Sd!status_data_dat
    <3> QED BY <3>1
  <2>3. ~Asked
    <3>1. dat'.state \in {"REGOUT", "WRITE_REGIN"} /\ ~Sd!status_data_dat
      BY <1>2, <2>1 DEF Sd!status_data_dat
    <3>2. \/ dat.state \in ReadStates \cup WriteStates
          \/ dat.state = "IDLE" /\ cmd.start_dat /\ command.dmode \in {"R", "W"}
      BY <1>7, <2>2, <3>1 DEF DataGoes, ReadStates, WriteStates
    <3> QED BY <1>4, <1>6, <3>1, <3>2
  <2>4. ~clkstrb'
    BY <1>1, <2>2, PeriodEnds
  <2> QED BY <1>2, <2>3, <2>4
<1>9. Moving' /\ "DAT_DATA" \in ctrl' => Sd!status_data_dat'
  <2>1. SUFFICES ASSUME Moving', Asked PROVE Sd!status_data_dat'
    BY <1>2
  <2>2. CASE ~clkstrb
    <3>1. dat' = dat /\ Moving
      BY <2>1, <2>2, LinesStep DEF Moving
    <3> QED BY <1>4, <2>1, <3>1 DEF Sd!status_data_dat
  <2>3. CASE clkstrb
    <3>1. ~Sd!acked
      BY <1>4, <2>1, <2>3
    <3>2. dat.state # "IDLE"
      BY <1>4, <1>5, <1>7, <2>1, <2>3 DEF DataGoes, ReadStates, WriteStates
    <3>3. dat.state \in ReadStates \cup WriteStates
      BY <1>5, <1>7, <2>1, <2>3, <3>2 DEF DataGoes
    <3>4. dat.state \in {"REGOUT", "WRITE_REGIN"}
      BY <1>4, <1>6, <2>1, <3>3 DEF Sd!status_data_dat
    <3> QED BY <1>5, <1>7, <2>1, <2>3, <3>1, <3>4
            DEF DataGoes, ReadGoes, WriteGoes, Becomes, Sd!status_data_dat, ReadStates,
                WriteStates
  <2> QED BY <2>2, <2>3
<1>10. command'.idx \in Flow /\ dat'.state = "IDLE" => "DAT_DATA" \notin ctrl'
  <2>1. SUFFICES ASSUME command'.idx \in Flow, dat'.state = "IDLE" PROVE ~Asked
    BY <1>2
  <2>2. CASE Sd!Writes(acc, "CMD")
    <3>1. command' = acc.data
      BY <1>1, <2>2, CommandMoves
    <3>2. Settled /\ Clean
      BY <1>1, <2>1, <2>2, <3>1 DEF Permitted, Flow
    <3> QED BY <1>2, <3>2 DEF Asked, Settled, Clean, Sd!status_data_dat
  <2>3. CASE ~Sd!Writes(acc, "CMD")
    <3>1. command.idx \in Flow
      BY <1>1, <2>1, <2>3, CommandMoves
    <3> QED BY <1>4, <2>1, <3>1, FlowStays
  <2> QED BY <2>2, <2>3
<1> QED BY <1>8, <1>9, <1>10 DEF AskedWell

(* Writing, the data register shows the bit that is due. *)
LEMMA WriteLineStep ==
  ASSUME NEW acc, NEW fits, DataStep(acc, fits)
  PROVE  WriteLine'
<1>1. /\ Stepping(acc, fits) /\ Lined(dat) /\ ControllerInv /\ WriteLine /\ WriteTask /\ Types
      /\ dat.bit \in Nat /\ dat.word \in 0 .. Words /\ Exchanges(acc)
      /\ dat_reg.last \in Nat /\ dat_reg.out \in Nat /\ Permitted(acc)
      /\ dat.state = "WRITE_DATA" => dat.word > 0
  BY DEF DataStep, Wired, Stepping, ControllerInv, Types, DatShape, Shaped, DatRecord, WordRange
<1>2. /\ WordBits \in Nat \ {0} /\ CrcBits \in Nat \ {0} /\ Sd!BlockBits \in Nat \ {0}
      /\ Words \in Nat \ {0}
  BY Constants
<1>3. /\ Through \in Nat
      /\ dat.word > 0 => Through + WordBits <= Sd!BlockBits
  BY <1>1, PassedBits DEF Through
<1>4. /\ Asked' <=> \/ Asked /\ acc.adr # "DATA"
                    \/ Sd!status_data_dat' /\ ~Sd!status_data_dat
      /\ clkstrb /\ Asked => ~Sd!acked
  BY <1>1, AskedMoves, AskedWhere
<1>5. acc.adr = "DATA" /\ dat.state \in WriteStates =>
        Sd!Writes(acc, "DATA") /\ dat.state = "WRITE_REGIN" /\ ~Sd!acked
  BY <1>1 DEF Exchanges, Sd!Writes, Sd!acked
<1>6. dat.state \in WriteStates =>
        /\ dat.state = "WRITE_REGIN" => ~Sd!sd_clk_en
        /\ dat.state # "WRITE_REGIN" => Sd!sd_clk_en
  BY <1>1, ClockOn DEF Moving, Busy, WriteStates
<1>7. CASE ~clkstrb
  <2>1. dat' = dat
    BY <1>7, LinesStep
  <2>2. Through' = Through
    BY <2>1 DEF Through
  <2>3. SUFFICES ASSUME dat.state \in WriteStates \ {"WRITE_BUSY", "WRITE_TAIL"} PROVE WriteLine'
    BY <2>1 DEF WriteLine, WriteStates
  <2>4. dat.rstn_reg /\ dat'.rstn_reg
    BY <1>1, <2>1, <2>3 DEF Lined
  <2>5. /\ ~Sd!Writes(acc, "DATA") => dat_reg' = dat_reg
        /\ Sd!Writes(acc, "DATA") => dat_reg'.out = acc.data
    BY <1>1, <1>7, <2>4, DataShifts
  <2>6. CASE dat.state = "WRITE_REGIN"
    <3>1. ~Asked' => ~Asked \/ Sd!Writes(acc, "DATA")
      BY <1>4, <1>5, <2>3
    <3>2. CASE Sd!Writes(acc, "DATA")
      <4>1. dat_reg'.out = IF dat.write_start THEN 1 ELSE Through + 1
        BY <1>1, <2>5, <3>2 DEF Exchanges
      <4> QED BY <2>1, <2>2, <2>6, <4>1 DEF WriteLine
    <3>3. CASE ~Sd!Writes(acc, "DATA")
      <4>1. ~Asked' => dat_reg'.out = IF dat.write_start THEN 1 ELSE Through + 1
        BY <1>1, <2>5, <2>6, <3>1, <3>3 DEF WriteLine
      <4> QED BY <2>1, <2>2, <2>6, <4>1 DEF WriteLine
    <3> QED BY <3>2, <3>3
  <2>7. CASE dat.state # "WRITE_REGIN"
    <3>1. dat_reg' = dat_reg
      BY <1>5, <2>3, <2>5, <2>7 DEF Sd!Writes
    <3> QED BY <1>1, <2>1, <2>2, <2>7, <3>1 DEF WriteLine
  <2> QED BY <2>6, <2>7
<1>8. CASE clkstrb
  <2>1. DataGoes /\ (Moving => Strobe) /\ ~Fallen' /\ ~Risen' /\ Lined(dat)'
    BY <1>8, LinesStep
  <2>2. CASE dat'.state \notin WriteStates
    BY <2>2 DEF WriteLine, WriteStates
  <2>3. CASE dat.state = "IDLE" /\ dat'.state \in WriteStates
    <3>1. dat'.state = "WRITE_REGIN"
      BY <2>1, <2>3 DEF DataGoes, ReadStates, WriteStates
    <3>2. Asked'
      BY <1>4, <2>3, <3>1 DEF Sd!status_data_dat
    <3> QED BY <3>1, <3>2 DEF WriteLine
  <2>4. CASE dat.state \in WriteStates /\ dat'.state \in WriteStates
    <3>1. WriteGoes(dat, dat', Card!low) /\ Fallen
      BY <1>8, <2>1, <2>4 DEF DataGoes, ReadStates, WriteStates, Fallen
    <3>2. dat.state \notin {"WRITE_BUSY", "WRITE_TAIL"} => dat.rstn_reg
      BY <1>1, <2>4 DEF Lined
    <3>3. dat'.state \notin {"WRITE_BUSY", "WRITE_TAIL"} => dat'.rstn_reg
      BY <2>1, <2>4 DEF Lined
    <3> DEFINE both == /\ dat.state \notin {"WRITE_BUSY", "WRITE_TAIL"}
                       /\ dat'.state \notin {"WRITE_BUSY", "WRITE_TAIL"}
    <3>4. both => /\ ~Sd!Writes(acc, "DATA") /\ Sd!sd_clk_en /\ dat.shift =>
                       /\ dat_reg'.last = Card!dat_o
                       /\ dat_reg.out \in 1 .. Sd!BlockBits => dat_reg'.out = dat_reg.out + 1
                  /\ ~Sd!Writes(acc, "DATA") /\ ~(Sd!sd_clk_en /\ dat.shift) => dat_reg' = dat_reg
                  /\ Sd!Writes(acc, "DATA") => dat_reg'.out = acc.data
      BY <1>1, <1>8, <3>2, <3>3, DataShifts
    <3>5. CASE dat.state = "WRITE_REGIN" /\ ~Sd!acked
      <4>1. /\ dat'.state = "WRITE_REGIN" /\ dat'.word = dat.word
            /\ dat'.write_start <=> dat.write_start
        BY <3>1, <3>5 DEF WriteGoes, Becomes
      <4>2. Asked
        BY <3>5 DEF Asked, Sd!acked
      <4>3. CASE Sd!Writes(acc, "DATA")
        <5>1. Through' = Through
          BY <4>1 DEF Through
        <5>2. dat_reg'.out = IF dat.write_start THEN 1 ELSE Through + 1
          BY <1>1, <3>4, <3>5, <4>1, <4>3 DEF Exchanges
        <5> QED BY <4>1, <5>1, <5>2 DEF WriteLine
      <4>4. CASE ~Sd!Writes(acc, "DATA")
        <5>1. Asked'
          BY <1>4, <1>5, <2>4, <4>2, <4>4
        <5> QED BY <4>1, <5>1 DEF WriteLine
      <4> QED BY <4>3, <4>4
    <3>6. CASE dat.state = "WRITE_REGIN" /\ Sd!acked
      <4>1. ~Asked /\ ~Sd!Writes(acc, "DATA") /\ ~Sd!sd_clk_en
        BY <1>4, <1>5, <1>6, <1>8, <2>4, <3>6 DEF Sd!Writes
      <4>2. \/ dat.write_start /\ dat'.state = "WRITE_START"
            \/ ~dat.write_start /\ Becomes(dat', "WRITE_DATA", 0, dat.word)
        BY <3>1, <3>6 DEF WriteGoes, Becomes
      <4>3. dat_reg' = dat_reg
        BY <3>4, <3>6, <4>1, <4>2 DEF Becomes
      <4>4. Becomes(dat', "WRITE_DATA", 0, dat.word) => Through' = Through /\ dat'.bit = 0
        BY DEF Becomes, Through
      <4> QED BY <1>1, <1>3, <3>6, <4>1, <4>2, <4>3, <4>4 DEF WriteLine, Becomes
    <3>7. CASE dat.state = "WRITE_START"
      <4>1. Becomes(dat', "WRITE_DATA", 0, Words) /\ ~dat.shift
        BY <1>1, <3>1, <3>7 DEF WriteGoes, Lined, InBlock, ReadStates
      <4>2. dat_reg' = dat_reg /\ dat_reg.out = 1
        BY <1>1, <1>5, <2>4, <3>4, <3>7, <4>1 DEF Becomes, WriteLine, Sd!Writes
      <4>3. Through' = 0
        BY <1>2, <4>1, PassedBits DEF Through, Becomes
      <4> QED BY <4>1, <4>2, <4>3 DEF WriteLine, Becomes
    <3>8. CASE dat.state = "WRITE_DATA"
      <4>1. /\ \/ Becomes(dat', "WRITE_DATA", dat.bit + 1, dat.word)
               \/ dat'.state = "WRITE_CRC"
               \/ dat'.state = "WRITE_REGIN"
            /\ dat.shift /\ ~Sd!Writes(acc, "DATA") /\ Sd!sd_clk_en
        BY <1>1, <1>5, <1>6, <2>4, <3>1, <3>8
        DEF WriteGoes, Becomes, Lined, InBlock, ReadStates, Sd!Writes
      <4>2. CASE Becomes(dat', "WRITE_DATA", dat.bit + 1, dat.word)
        <5>1. dat_reg.out = Through + dat.bit + 1 /\ dat.bit < WordBits
          BY <1>1, <3>8 DEF WriteLine, Lined
        <5>2. dat_reg.out \in 1 .. Sd!BlockBits
          BY <1>1, <1>2, <1>3, <3>8, <5>1
        <5>3. dat_reg'.out = dat_reg.out + 1 /\ Through' = Through
          BY <3>4, <3>8, <4>1, <4>2, <5>2 DEF Becomes, Through
        <5> QED BY <1>1, <1>3, <4>2, <5>1, <5>3 DEF WriteLine, Becomes
      <4>3. CASE dat'.state = "WRITE_CRC"
        BY <4>3 DEF WriteLine
      <4>4. CASE dat'.state = "WRITE_REGIN"
        <5>1. Asked'
          BY <1>4, <3>8, <4>4 DEF Sd!status_data_dat
        <5> QED BY <4>4, <5>1 DEF WriteLine
      <4> QED BY <4>1, <4>2, <4>3, <4>4
    <3>9. CASE dat.state = "WRITE_CHECK_CRC"
      <4>1. \/ Becomes(dat', "WRITE_CHECK_CRC", dat.bit + 1, 0) /\ dat.bit < Sd!TokenEnd
            \/ dat'.state = "WRITE_BUSY"
        BY <3>1, <3>9 DEF WriteGoes, Becomes
      <4>2. CASE Becomes(dat', "WRITE_CHECK_CRC", dat.bit + 1, 0) /\ dat.bit < Sd!TokenEnd
        <5>1. TokenAt(dat.bit + 1)
          BY <1>1, <3>1, <3>9 DEF WriteTask, Moved
        <5>2. dat.bit + 1 >= 2 => Card!dat_o = dat.bit
          BY <1>1, <4>2, <5>1 DEF TokenAt, Sd!TokenEnd, Card!dat_o
        <5>3. dat_reg'.last = Card!dat_o
          BY <1>1, <1>5, <1>6, <2>4, <3>4, <3>9, <4>2
          DEF Becomes, Lined, Sd!Writes
        <5> QED BY <1>1, <4>2, <5>2, <5>3 DEF WriteLine, Becomes
      <4>3. CASE dat'.state = "WRITE_BUSY"
        BY <4>3 DEF WriteLine
      <4> QED BY <4>1, <4>2, <4>3
    <3>10. CASE dat.state \in {"WRITE_CRC", "WRITE_STOP", "WRITE_BUSY"}
      <4>1. dat'.state \in {"WRITE_CRC", "WRITE_STOP", "WRITE_CHECK_CRC", "WRITE_BUSY",
            "WRITE_TAIL"}
              /\ (dat'.state = "WRITE_CHECK_CRC" => dat'.bit = 0)
        BY <3>1, <3>10 DEF WriteGoes, Becomes
      <4> QED BY <4>1 DEF WriteLine
    <3>11. CASE dat.state = "WRITE_TAIL"
      <4>1. dat'.state \in {"WRITE_TAIL", "WRITE_REGIN"}
        BY <3>1, <3>11 DEF WriteGoes, Becomes
      <4>2. dat'.state = "WRITE_REGIN" => Asked'
        BY <1>4, <3>11 DEF Sd!status_data_dat
      <4> QED BY <4>1, <4>2 DEF WriteLine
    <3> QED BY <2>4, <3>5, <3>6, <3>7, <3>8, <3>9, <3>10, <3>11 DEF WriteStates
  <2>5. dat'.state \in WriteStates => dat.state = "IDLE" \/ dat.state \in WriteStates
    BY <2>1 DEF DataGoes, ReadStates, WriteStates, ReadGoes, Becomes
  <2> QED BY <2>2, <2>3, <2>4, <2>5
<1> QED BY <1>7, <1>8

(* The hardware half of the invariant. *)
LEMMA WiredStep ==
  ASSUME NEW acc, NEW fits, DataStep(acc, fits)
  PROVE  Wired'
<1>1. Lined(dat)'
  BY LinesStep
<1> QED
  BY <1>1, ReadLineStep, WriteLineStep, WriteTaskStep, PreparedStep, AskedWellStep DEF Wired

(* At every edge at which the card samples a block, the controller shows   *)
(* the bit that is due.                                                    *)
LEMMA BlocksShown ==
  ASSUME ControllerInv, Wired
  PROVE  BlockAligned
<1>1. SUFFICES ASSUME Sd!Rising, task = "receive"
               PROVE  Sd!HostDat = IF n < Sd!BlockBits THEN n + 1
                                   ELSE IF n < Sd!BlockBits + CrcBits THEN "crc" ELSE "end"
  BY DEF BlockAligned, Sd!BlockBits
<1>2. /\ Lined(dat) /\ WriteTask /\ WriteLine /\ Types /\ Strobes
      /\ dat.bit \in Nat /\ dat.word \in 0 .. Words
      /\ dat.state = "WRITE_DATA" => dat.word > 0
  BY DEF Wired, ControllerInv, Types, DatShape, Shaped, DatRecord, WordRange
<1>3. /\ WordBits \in Nat \ {0} /\ CrcBits \in Nat \ {0} /\ Sd!BlockBits \in Nat \ {0}
      /\ Words \in Nat \ {0}
  BY Constants
<1>4. /\ Through \in Nat
      /\ dat.word > 0 => Through + WordBits <= Sd!BlockBits
  BY <1>2, PassedBits DEF Through
<1>5. ~Risen /\ ~Fallen /\ Sd!sd_clk_en
  <2>1. sd_clk_strb \in BOOLEAN /\ sd_clk_cont \in BOOLEAN
    BY <1>2 DEF Types
  <2> QED BY <1>1, <1>2, <2>1 DEF Sd!Rising, Sd!sd_clk_next, Strobes, Risen, Fallen
<1>6. dat.state \in WriteStates
  BY <1>1, <1>2 DEF WriteTask
<1>7. dat.state \notin {"WRITE_REGIN", "WRITE_CHECK_CRC", "WRITE_BUSY", "WRITE_TAIL"}
  <2>1. dat.state # "WRITE_REGIN"
    BY <1>5, <1>6, ClockOn DEF Wired, Moving, Busy
  <2>2. dat.state # "WRITE_CHECK_CRC"
    BY <1>1, <1>2, <1>5 DEF WriteTask, Moved, TokenAt
  <2> QED BY <1>1, <1>2, <2>1, <2>2 DEF WriteTask
<1>8. CASE dat.state = "WRITE_START"
  BY <1>1, <1>2, <1>5, <1>8 DEF WriteTask
<1>9. CASE dat.state = "WRITE_DATA"
  <2>1. n = Through + dat.bit /\ dat_reg.out = Through + dat.bit + 1 /\ dat.bit < WordBits
    BY <1>1, <1>2, <1>5, <1>9 DEF WriteTask, WriteLine, Seen, Lined
  <2>2. Sd!HostDat = dat_reg.out
    BY <1>2, <1>9 DEF Lined, InBlock, Sd!HostDat
  <2> QED BY <1>2, <1>3, <1>4, <1>9, <2>1, <2>2
<1>10. CASE dat.state = "WRITE_CRC"
  <2>1. n = Sd!BlockBits + dat.bit /\ dat.bit < CrcBits
    BY <1>1, <1>2, <1>5, <1>10 DEF WriteTask, Seen, Lined
  <2>2. Sd!HostDat = "crc"
    BY <1>2, <1>10 DEF Lined, InBlock, Sd!HostDat
  <2> QED BY <1>2, <1>3, <2>1, <2>2
<1>11. CASE dat.state = "WRITE_STOP"
  <2>1. n = Sd!BlockBits + CrcBits
    BY <1>1, <1>2, <1>5, <1>11 DEF WriteTask
  <2>2. Sd!HostDat = "end"
    BY <1>2, <1>11 DEF Lined, InBlock, Sd!HostDat
  <2> QED BY <1>2, <1>3, <2>1, <2>2
<1> QED BY <1>6, <1>7, <1>8, <1>9, <1>10, <1>11 DEF WriteStates

(* The card's answer is judged when it is in the register. *)
LEMMA TokensJudged ==
  ASSUME NEW acc, NEW fits, DataStep(acc, fits),
         dat.state = "WRITE_CHECK_CRC", dat'.state = "WRITE_BUSY"
  PROVE  dat_reg.last = 5
<1>1. clkstrb
  BY LinesStep
<1>2. DataGoes
  BY <1>1, LinesStep
<1>3. WriteGoes(dat, dat', Card!low)
  BY <1>2 DEF DataGoes, ReadStates, WriteStates
<1>4. dat.bit = 6
  BY <1>3 DEF WriteGoes, Becomes, Sd!TokenEnd
<1> QED BY <1>4 DEF DataStep, Wired, WriteLine

-----------------------------------------------------------------------------
(* Words and blocks. *)

(* A larger factor gives a larger product. *)
LEMMA Multiples ==
  ASSUME NEW b \in Nat, NEW p \in Nat, NEW q \in Nat
  PROVE  /\ p <= q => b * p <= b * q
         /\ p < q => b * p + b <= b * q
         /\ b * p \in Nat
OBVIOUS

(* There is only one quotient and one remainder. *)
LEMMA Remainder ==
  ASSUME NEW b \in Nat \ {0}, NEW q \in Nat, NEW r \in 0 .. b - 1
  PROVE  (b * q + r) % b = r
<1> DEFINE x == b * q + r
           p == x \div b
           s == x % b
<1>1. x \in Nat
  BY Multiples
<1>2. p \in Nat /\ s \in 0 .. b - 1 /\ x = b * p + s
  <2> HIDE DEF x
  <2>1. x \div b \in Nat /\ x % b \in 0 .. b - 1
    BY <1>1
  <2>2. x = b * (x \div b) + (x % b)
    BY <1>1
  <2> QED BY <2>1, <2>2
<1>3. b * p \in Nat /\ b * q \in Nat
  BY <1>2, Multiples
<1>4. /\ p < q => b * p + b <= b * q
      /\ q < p => b * q + b <= b * p
  BY <1>2, Multiples
<1>5. x = b * q + r
  OBVIOUS
<1> HIDE DEF p, s, x
<1>6. ~(p < q) /\ ~(q < p)
  BY <1>2, <1>3, <1>4, <1>5
<1>7. p = q
  BY <1>2, <1>6
<1>8. b * p = b * q
  BY <1>7
<1>9. r = s
  <2> DEFINE u == b * p
             v == b * q
  <2>1. u = v /\ x = u + s /\ x = v + r /\ u \in Nat
    BY <1>2, <1>3, <1>5, <1>8
  <2> HIDE DEF u, v
  <2> QED BY <1>2, <2>1
<1> QED BY <1>9 DEF s, x

(* The words of q blocks. *)
LEMMA Rounds ==
  ASSUME NEW q \in Nat
  PROVE  /\ Words * q \in Nat /\ Words * Blocks \in Nat /\ Words <= Words * Blocks
         /\ Blocks <= q => Words * Blocks <= Words * q
         /\ q > 0 => Words <= Words * q
         /\ Words * 0 = 0
         /\ Words * (q + 1) = Words * q + Words
         /\ \A g \in 0 .. Words - 1 : (Words * q + g) % Words = g
<1>1. Words \in Nat \ {0} /\ Blocks \in Nat \ {0}
  BY Constants
<1>2. Words * q \in Nat /\ Words * Blocks \in Nat /\ (Blocks <= q => Words * Blocks <= Words * q)
  BY <1>1, Multiples
<1>3. Words * 1 = Words /\ Words * 0 = 0 /\ Words * (q + 1) = Words * q + Words
  BY <1>1
<1>4. Words * 1 <= Words * Blocks /\ (q > 0 => Words * 1 <= Words * q)
  BY <1>1, Multiples
<1>5. \A g \in 0 .. Words - 1 : (Words * q + g) % Words = g
  BY <1>1, Remainder
<1> QED BY <1>2, <1>3, <1>4, <1>5

(* The word counts of a block. *)
LEMMA PartsAre ==
  ASSUME ControllerInv, Wired
  PROVE  /\ dat.state \in ReadStates => Due \in 0 .. Words
         /\ dat.state \in WriteStates => Given \in 0 .. Words
         /\ dat.state \in WriteStates /\ Given = 0 =>
              dat.state = "WRITE_TAIL" \/ (dat.state = "WRITE_REGIN" /\ dat.write_start /\ Asked)
         /\ dat.state = "REGOUT" => dat.word \in 0 .. Words - 1
         /\ dat.state = "WRITE_REGIN" /\ ~dat.write_start => dat.word \in 1 .. Words - 1
         /\ Uncounted \in Nat
<1>1. /\ dat.word \in 0 .. Words /\ Words \in Nat \ {0}
      /\ dat.state \in {"READ_BLOCK", "WRITE_DATA"} => dat.word > 0
      /\ dat.state = "WRITE_REGIN" /\ ~dat.write_start => dat.word > 0 /\ dat.word < Words
      /\ dat.state = "REGOUT" => dat.word < Words
  BY Constants DEF Wired, ControllerInv, DatShape, Shaped, Lined, DatRecord, WordRange
<1>2. dat.state \in ReadStates => Due \in 0 .. Words
  BY <1>1 DEF Due, ReadStates
<1>3. /\ dat.state \in WriteStates => Given \in 0 .. Words
      /\ dat.state \in WriteStates /\ Given = 0 =>
           dat.state = "WRITE_TAIL" \/ (dat.state = "WRITE_REGIN" /\ dat.write_start /\ Asked)
  BY <1>1 DEF Given, WriteStates
<1>4. Uncounted \in Nat
  BY DEF Uncounted
<1> QED BY <1>1, <1>2, <1>3, <1>4

-----------------------------------------------------------------------------
(* The driver's half. *)

(* A function that has begun to talk to the card. *)
LEMMA Talking ==
  ASSUME IInv
  PROVE  /\ call # "none" /\ ~Starting => During(call, loop, todo, irq, blocks)
         /\ call = "none" \/ Starting => Settled /\ Clean /\ ~Active /\ ~cmd.start_dat
         /\ call = "none" \/ Starting => command.idx \notin Flow
         /\ call = "reset" => dat.state = "IDLE" /\ ~cmd.start_dat
              /\ command.idx \notin Flow \cup {"STOP"}
         /\ call \in Calls \cup {"none", "reset"} /\ loop \in 1 .. 2
         /\ sent \in 0 .. Words * Blocks /\ buf \in Seq(Nat) /\ Len(buf) \in Nat
         /\ blocks \in Nat /\ Plan(todo)
<1>1. ControllerInv /\ DriverInv /\ DriverTypes
  BY DEF IInv, DriverInv
<1>2. call # "none" /\ ~Starting => During(call, loop, todo, irq, blocks)
  BY <1>1 DEF DriverInv
<1>3. ASSUME call = "none" \/ Starting
      PROVE  Settled /\ Clean /\ ~Active /\ ~cmd.start_dat /\ command.idx \notin Flow
  <2>1. Settled /\ Clean
    BY <1>1, <1>3 DEF DriverInv
  <2>2. ~Active /\ ~cmd.start_dat
    BY <1>1, <2>1 DEF Settled, Rests, Active, ControllerInv, CmdShape
  <2>3. ~Moving
    BY <2>1 DEF Settled, Moving, Busy
  <2> QED BY <1>1, <2>1, <2>2, <2>3 DEF ControllerInv, FlowInv
<1>4. ASSUME call = "reset"
      PROVE  dat.state = "IDLE" /\ ~cmd.start_dat /\ command.idx \notin Flow \cup {"STOP"}
  <2>1. ~Starting /\ call # "none"
    BY <1>4, NeoSDAssumption DEF Starting
  <2>2. ResetReady
    BY <1>2, <1>4, <2>1 DEF During, ResetInv
  <2> QED BY <2>2 DEF ResetReady, Flow
<1> QED BY <1>1, <1>2, <1>3, <1>4 DEF DriverTypes

(* While a function waits for its first word, or for the next, the         *)
(* controller is in the middle of a block.                                 *)
LEMMA AskedInFlow ==
  ASSUME IInv, DataInv, command.idx \in Flow, "DAT_DATA" \in ctrl
  PROVE  dat.state \in {"REGOUT", "WRITE_REGIN"} /\ Moving /\ ~Active
<1>1. ControllerInv /\ AskedWell
  BY DEF IInv, DataInv
<1>2. dat.state # "IDLE"
  BY <1>1 DEF AskedWell
<1>3. ~Active
  BY <1>1 DEF ControllerInv, FirstInv, First, Flow, DataFlags
<1>4. Moving
  BY <1>1, <1>2, <1>3 DEF ControllerInv, FlowInv
<1> QED BY <1>1, <1>3, <1>4 DEF AskedWell, Sd!status_data_dat

(* An access of the driver to the data register is a read, or the write of *)
(* its next word.                                                          *)
LEMMA DataAccess ==
  ASSUME NEW o \in Operations
  PROVE  /\ BusAccess(o).adr = "DATA" <=> o = Read("DATA") \/ o = Write("DATA", Sd!NoCommand)
         /\ Sd!Writes(BusAccess(o), "DATA") <=> o = Write("DATA", Sd!NoCommand)
         /\ Sd!Reads(BusAccess(o), "DATA") <=> o = Read("DATA")
         /\ o = Write("DATA", Sd!NoCommand) =>
              BusAccess(o).data = (sent % Words) * WordBits + 1
<1> DEFINE acc == BusAccess(o)
<1> HIDE DEF acc
<1>1. /\ Read("DATA") # Write("DATA", Sd!NoCommand)
      /\ \A b : Clear(b) # Read("DATA") /\ Clear(b) # Write("DATA", Sd!NoCommand)
      /\ \A b : Set(b) # Read("DATA") /\ Set(b) # Write("DATA", Sd!NoCommand)
      /\ \A a : Read(a) # Write("DATA", Sd!NoCommand)
      /\ \A a : Read(a) = Read("DATA") => a = "DATA"
  BY DEF Read, Clear, Set, Write
<1>2. ASSUME NEW a \in {"IRQ", "CTRL", "RESP"}, o = Read(a)
      PROVE  acc.adr # "DATA" /\ o # Read("DATA") /\ o # Write("DATA", Sd!NoCommand)
  <2>1. acc = Sd!Access(IF a = "IRQ" THEN "CTRL" ELSE a, FALSE, 0)
    BY <1>2, AccessOf DEF acc
  <2> QED BY <1>1, <1>2, <2>1 DEF Sd!Access
<1>3. ASSUME o = Read("DATA")
      PROVE  acc.adr = "DATA" /\ ~acc.we /\ o # Write("DATA", Sd!NoCommand)
  <2>1. acc = Sd!Access("DATA", FALSE, 0)
    BY <1>3, AccessOf DEF acc
  <2> QED BY <1>1, <1>3, <2>1 DEF Sd!Access
<1>4. ASSUME o = Write("DATA", Sd!NoCommand)
      PROVE  /\ acc.adr = "DATA" /\ acc.we /\ o # Read("DATA")
             /\ acc.data = (sent % Words) * WordBits + 1
  <2>1. acc = Sd!Access("DATA", TRUE, (sent % Words) * WordBits + 1)
    BY <1>4, AccessOf DEF acc
  <2> QED BY <1>1, <1>4, <2>1 DEF Sd!Access
<1>5. ASSUME \/ \E b : o = Clear(b)
             \/ o = Set({"RST"})
      PROVE  acc.adr # "DATA" /\ o # Read("DATA") /\ o # Write("DATA", Sd!NoCommand)
  <2>1. \E x : acc = Sd!Access("CTRL", TRUE, x)
    <3>1. \A b : o = Clear(b) => acc = Sd!Access("CTRL", TRUE, old \ b)
      BY AccessOf DEF acc
    <3>2. \A b : o = Set(b) => acc = Sd!Access("CTRL", TRUE, old \cup b)
      BY AccessOf DEF acc
    <3> QED BY <1>5, <3>1, <3>2
  <2> QED BY <1>1, <1>5, <2>1 DEF Sd!Access
<1>6. ASSUME NEW a \in {"CMD", "CMDARG"}, NEW k, o = Write(a, k)
      PROVE  acc.adr # "DATA" /\ o # Read("DATA") /\ o # Write("DATA", Sd!NoCommand)
  <2>1. acc = Sd!Access(a, TRUE, k)
    BY <1>6, AccessOf DEF acc
  <2>2. o # Read("DATA") /\ o # Write("DATA", Sd!NoCommand)
    BY <1>6, Apart
  <2> QED BY <1>6, <2>1, <2>2 DEF Sd!Access
<1>7. \/ \E a \in {"IRQ", "CTRL", "RESP"} : o = Read(a)
      \/ o = Read("DATA") \/ o = Write("DATA", Sd!NoCommand)
      \/ (\E b : o = Clear(b)) \/ o = Set({"RST"})
      \/ \E a \in {"CMD", "CMDARG"} : \E k : o = Write(a, k)
  BY Kinds DEF Poll
<1>8. CASE \E a \in {"IRQ", "CTRL", "RESP"} : o = Read(a)
  BY <1>2, <1>8 DEF acc, Sd!Writes, Sd!Reads
<1>9. CASE o = Read("DATA")
  BY <1>3, <1>9 DEF acc, Sd!Writes, Sd!Reads
<1>10. CASE o = Write("DATA", Sd!NoCommand)
  BY <1>4, <1>10 DEF acc, Sd!Writes, Sd!Reads
<1>11. CASE (\E b : o = Clear(b)) \/ o = Set({"RST"})
  BY <1>5, <1>11 DEF acc, Sd!Writes, Sd!Reads
<1>12. CASE \E a \in {"CMD", "CMDARG"} : \E k : o = Write(a, k)
  BY <1>6, <1>12 DEF acc, Sd!Writes, Sd!Reads
<1> QED BY <1>7, <1>8, <1>9, <1>10, <1>11, <1>12

(* The driver gives a word only when the controller waits for it.          *)
LEMMA WordAwaited ==
  ASSUME IInv, DataInv, Write("DATA", Sd!NoCommand) \in Ops(todo)
  PROVE  /\ dat.state = "WRITE_REGIN" /\ "DAT_DATA" \in ctrl /\ call = "write_blocks_stop"
         /\ loop = 1 /\ command.idx \in Flow /\ sent < Words * Blocks
<1>1. "DAT_DATA" \in ctrl /\ call = "write_blocks_stop" /\ loop = 1
  BY DEF DataInv, DataOps
<1>2. ~Starting /\ call # "none"
  BY <1>1, Talking DEF Clean
<1>3. During(call, loop, todo, irq, blocks)
  BY <1>2, Talking
<1>4. sent < Words * Blocks /\ command.idx \in {"WRITE_MULTI", "STOP"}
  BY <1>1, <1>3 DEF During, Legal, Which, CommandsOf
<1>5. command.idx \in Flow
  <2>1. sent \in Nat /\ Words * Blocks \in Nat
    <3>1. 1 \in Nat /\ Words * Blocks \in Nat
      BY Rounds
    <3> QED BY <3>1, Talking
  <2>2. command.idx = "STOP" => sent = Words * Blocks
    BY <1>1, <1>2 DEF DataInv, Over
  <2> QED BY <1>4, <2>1, <2>2 DEF Flow
<1>6. dat.state \in {"REGOUT", "WRITE_REGIN"}
  BY <1>1, <1>5, AskedInFlow
<1>7. dat.state # "REGOUT"
  BY <1>1 DEF DataInv, DataFlow, ReadStates, Reading
<1> QED BY <1>1, <1>4, <1>5, <1>6, <1>7

(* The driver uses the data register as the controller needs it.           *)
LEMMA Exchanging ==
  ASSUME IInv, DataInv, todo # <<>>
  PROVE  Exchanges(BusAccess(Head(todo)))
<1> DEFINE o == Head(todo)
           acc == BusAccess(o)
<1>1. o \in Operations /\ o \in Ops(todo)
  BY Talking, RestOfPlan
<1> SUFFICES Exchanges(acc)
  OBVIOUS
<1> HIDE DEF o
<1>2. CASE o = Read("DATA")
  <2>1. acc.adr = "DATA" /\ ~Sd!Writes(acc, "DATA")
    BY <1>1, <1>2, DataAccess, Apart
  <2>2. CASE call = "reset"
    <3>1. dat.state = "IDLE"
      BY <2>2, Talking
    <3> QED BY <2>1, <3>1 DEF Exchanges, Moving, Busy, WriteStates
  <2>3. CASE call # "reset"
    <3>1. "DAT_DATA" \in ctrl /\ (call = "write_blocks_stop" => loop = 2)
      BY <1>1, <1>2, <2>3 DEF DataInv, DataOps
    <3>2. ASSUME dat.state \in WriteStates PROVE FALSE
      <4>1. call = "write_blocks_stop"
        BY <3>2 DEF DataInv, DataFlow
      <4>2. call # "none" /\ ~Starting /\ loop = 2
        BY <3>1, <4>1, Talking DEF Clean
      <4>3. During(call, loop, todo, irq, blocks)
        BY <4>2, Talking
      <4>4. ~Moving
        BY <4>1, <4>2, <4>3 DEF During, StopDone
      <4> QED BY <3>2, <4>4 DEF Moving, Busy, WriteStates
    <3> QED BY <2>1, <3>1, <3>2 DEF Exchanges
  <2> QED BY <2>2, <2>3
<1>3. CASE o = Write("DATA", Sd!NoCommand)
  <2>1. /\ acc.adr = "DATA" /\ acc.we
        /\ acc.data = (sent % Words) * WordBits + 1
    BY <1>1, <1>3, DataAccess DEF Sd!Writes
  <2>2. dat.state = "WRITE_REGIN" /\ "DAT_DATA" \in ctrl
    BY <1>1, <1>3, WordAwaited
  <2>3. Exchanged(sent, Given) /\ Asked
    BY <2>2 DEF DataInv, DataFlow, WriteStates, Asked
  <2>4. PICK q \in 0 .. sent : sent = Words * q + Given
    BY <2>3 DEF Exchanged
  <2>5. Given = IF dat.write_start THEN 0 ELSE Words - dat.word
    <3>1. dat.word \in 0 .. Words /\ Words \in Nat
      BY Constants DEF IInv, ControllerInv, DatShape, Shaped, DatRecord, WordRange
    <3> QED BY <2>2, <2>3, <3>1 DEF Given
  <2>6. Given \in 0 .. Words - 1 /\ q \in Nat
    <3>1. ~dat.write_start => dat.word \in 1 .. Words - 1
      BY <2>2, PartsAre DEF IInv, DataInv, Wired
    <3>2. sent \in Nat /\ Words \in Nat \ {0}
      BY Talking, Rounds, Constants
    <3> QED BY <2>5, <3>1, <3>2
  <2>7. sent % Words = Given
    BY <2>4, <2>6, Rounds
  <2>8. acc.data = IF dat.write_start THEN 1 ELSE Through + 1
    <3>1. 0 * WordBits + 1 = 1
      BY Constants
    <3> QED BY <2>1, <2>5, <2>7, <3>1 DEF Through, Passed
  <2> QED BY <2>1, <2>2, <2>8 DEF Exchanges
<1>4. CASE o # Read("DATA") /\ o # Write("DATA", Sd!NoCommand)
  BY <1>1, <1>4, DataAccess DEF Exchanges
<1> QED BY <1>2, <1>3, <1>4

(* The abort of a write comes after its last block.                        *)
LEMMA BreaksRight ==
  ASSUME IInv, DataInv
  PROVE  BreaksWell
<1> SUFFICES ASSUME clkstrb, command.abrt, dat.state \in WriteStates
             PROVE  \/ dat.state = "WRITE_TAIL"
                    \/ dat.state = "WRITE_REGIN" /\ dat.write_start /\ ~Sd!acked
  BY DEF BreaksWell
<1>1. call = "write_blocks_stop" /\ Exchanged(sent, Given) /\ Moving
  BY DEF DataInv, DataFlow, Moving, Busy, WriteStates
<1>2. call # "none" /\ ~Starting
  BY <1>1, Talking DEF Settled, Moving, Busy
<1>3. During(call, loop, todo, irq, blocks) /\ Types /\ sent \in Nat /\ blocks \in Nat
      /\ sent <= Words * Blocks
  BY <1>2, Talking, Rounds DEF IInv, ControllerInv
<1>4. command.idx = "STOP" /\ blocks >= Blocks
  <2>1. command.idx \in {"WRITE_MULTI", "STOP"}
    BY <1>1, <1>3 DEF During, Which, CommandsOf
  <2>2. command.idx = "STOP"
    BY <1>3, <2>1 DEF Types, Formed
  <2> QED BY <1>1, <1>3, <2>2 DEF During, Which, First
<1>5. PICK q \in 0 .. sent : sent = Words * q + Given /\ blocks + Uncounted <= q
  BY <1>1 DEF Exchanged
<1>6. Given = 0
  <2>1. Given \in 0 .. Words /\ Uncounted \in Nat
    BY PartsAre DEF IInv, DataInv, Wired
  <2>2. q \in Nat /\ Blocks <= q /\ Blocks \in Nat
    BY <1>3, <1>4, <1>5, <2>1, Constants
  <2>3. Words * Blocks <= Words * q /\ Words * q \in Nat /\ Words * Blocks \in Nat
    BY <2>2, Rounds
  <2> DEFINE u == Words * q
             v == Words * Blocks
  <2>4. u \in Nat /\ v \in Nat /\ v <= u /\ sent = u + Given /\ sent <= v /\ Given \in Nat
    BY <1>3, <1>5, <2>1, <2>3
  <2> HIDE DEF u, v
  <2> QED BY <2>4
<1>7. dat.state = "WRITE_TAIL" \/ (dat.state = "WRITE_REGIN" /\ dat.write_start /\ Asked)
  BY <1>6, PartsAre DEF IInv, DataInv, Wired
<1>8. Asked => ~Sd!acked
  BY DEF Asked, Sd!acked, DataInv, AskedWell
<1> QED BY <1>7, <1>8

(* Every step of the driver, the controller and the card is one that the   *)
(* lines follow.                                                           *)
LEMMA DataStepping ==
  ASSUME IInv, DataInv, ~EarlyData, NEW fits \in BOOLEAN
  PROVE  /\ todo # <<>> /\ Edge(BusAccess(Head(todo)), fits) =>
              DataStep(BusAccess(Head(todo)), fits)
         /\ Edge(Sd!NoAccess, fits) => DataStep(Sd!NoAccess, fits)
<1>1. ControllerInv /\ DriverInv /\ Wired /\ BreaksWell
  BY BreaksRight DEF IInv, DataInv, Wired
<1>2. ASSUME todo # <<>>, Edge(BusAccess(Head(todo)), fits)
      PROVE  DataStep(BusAccess(Head(todo)), fits)
  BY <1>1, <1>2, PermittedOps, Exchanging DEF DataStep, Stepping
<1>3. ASSUME Edge(Sd!NoAccess, fits) PROVE DataStep(Sd!NoAccess, fits)
  <2>1. Stepping(Sd!NoAccess, fits)
    BY <1>1, <1>3, Quiet
  <2>2. Exchanges(Sd!NoAccess)
    BY DEF Exchanges, Sd!NoAccess, Sd!Access, Sd!Writes
  <2> QED BY <1>1, <2>1, <2>2 DEF DataStep
<1> QED BY <1>2, <1>3

(* A word of a block that is read is taken when the controller waits for   *)
(* it, and the end of the block starts the count again.                    *)
LEMMA DueMoves ==
  ASSUME NEW acc, NEW fits, DataStep(acc, fits), dat.state \in ReadStates,
         dat'.state \in ReadStates
  PROVE  \/ /\ Due' = Due + (IF Sd!Reads(acc, "DATA") THEN 1 ELSE 0)
            /\ ~(clkstrb /\ dat'.block_done)
            /\ Sd!Reads(acc, "DATA") => dat.state = "REGOUT" /\ Asked
            /\ clkstrb => dat.state # "READ_FINISH"
         \/ /\ clkstrb /\ dat.state = "READ_FINISH" /\ dat'.state = "WAIT_BLOCK"
            /\ ~Sd!Reads(acc, "DATA") /\ Due = Words /\ Due' = 0
<1>1. /\ Stepping(acc, fits) /\ ControllerInv /\ Exchanges(acc) /\ Moving /\ Permitted(acc)
      /\ dat.word \in 0 .. Words /\ Words \in Nat \ {0}
  BY Constants DEF DataStep, Stepping, Moving, Busy, ReadStates, ControllerInv, DatShape, Shaped,
                   DatRecord, WordRange
<1>2. /\ acc.adr = "DATA" <=> Sd!Reads(acc, "DATA")
      /\ Sd!Reads(acc, "DATA") => dat.state = "REGOUT" /\ Asked
  <2>1. acc.adr = "DATA" => ~acc.we /\ Asked
    <3>1. acc.adr = "DATA" /\ acc.we => dat.state = "WRITE_REGIN"
      BY <1>1 DEF Exchanges, Sd!Writes
    <3> QED BY <1>1, <3>1 DEF Exchanges, ReadStates, Asked
  <2>2. Asked => dat.state = "REGOUT"
    BY <1>1, AskedWhere DEF Sd!status_data_dat, ReadStates
  <2> QED BY <2>1, <2>2 DEF Sd!Reads
<1>3. Asked' <=> \/ Asked /\ acc.adr # "DATA"
                 \/ Sd!status_data_dat' /\ ~Sd!status_data_dat
  BY <1>1, AskedMoves
<1>4. /\ Sd!status_data_dat <=> dat.state = "REGOUT"
      /\ Sd!status_data_dat' <=> dat'.state = "REGOUT"
  BY DEF Sd!status_data_dat, ReadStates
<1>5. CASE ~clkstrb
  <2>1. dat' = dat
    BY <1>5, LinesStep
  <2>2. CASE dat.state = "REGOUT"
    <3>1. dat.word \in 0 .. Words - 1
      BY <1>1, <2>2, PartsAre DEF DataStep
    <3> QED BY <1>1, <1>2, <1>3, <1>4, <1>5, <2>1, <2>2, <3>1 DEF Due
  <2>3. CASE dat.state # "REGOUT"
    BY <1>1, <1>2, <1>5, <2>1, <2>3 DEF Due, ReadStates
  <2> QED BY <2>2, <2>3
<1>6. CASE clkstrb
  <2>1. ReadGoes(dat, dat', Card!low) /\ (dat'.block_done <=> dat.state = "READ_FINISH")
    <3>1. DataGoes
      BY <1>6, LinesStep
    <3> QED BY <3>1 DEF DataGoes, ReadStates, WriteStates
  <2>2. CASE dat.state = "WAIT_BLOCK"
    BY <1>1, <1>2, <2>1, <2>2 DEF ReadGoes, Becomes, Due
  <2>3. CASE dat.state = "READ_BLOCK"
    <3>1. dat.word > 0
      BY <1>1, <2>3 DEF ControllerInv, DatShape, Shaped
    <3>2. CASE Becomes(dat', "READ_BLOCK", dat.bit + 1, dat.word)
      BY <1>1, <1>2, <2>1, <2>3, <3>2 DEF Becomes, Due
    <3>3. CASE Becomes(dat', "REGOUT", 0, dat.word - 1)
      <4>1. Asked'
        BY <1>3, <1>4, <2>3, <3>3 DEF Becomes
      <4> QED BY <1>1, <1>2, <2>1, <2>3, <3>1, <3>3, <4>1 DEF Becomes, Due
    <3> QED BY <2>1, <2>3, <3>2, <3>3 DEF ReadGoes
  <2>4. CASE dat.state = "REGOUT"
    <3>0. dat.word \in 0 .. Words - 1
      BY <1>1, <2>4, PartsAre DEF DataStep
    <3>1. CASE Becomes(dat', "REGOUT", dat.bit, dat.word)
      BY <1>1, <1>2, <1>3, <1>4, <2>1, <2>4, <3>0, <3>1 DEF Becomes, Due
    <3>2. CASE Sd!acked
      <4>1. ~Asked /\ ~Sd!Reads(acc, "DATA")
        BY <1>1, <1>2, <1>6, <3>2, AskedWhere
      <4>2. CASE Becomes(dat', "READ_BLOCK", 0, dat.word)
        BY <1>1, <1>2, <2>1, <2>4, <3>0, <4>1, <4>2 DEF Becomes, Due
      <4>3. CASE dat.word = 0 /\ Becomes(dat', "READ_CRC", 0, 0)
        BY <1>1, <1>2, <2>1, <2>4, <4>1, <4>3 DEF Becomes, Due
      <4> QED BY <2>1, <2>4, <3>2, <4>2, <4>3 DEF ReadGoes
    <3> QED BY <2>1, <2>4, <3>1, <3>2 DEF ReadGoes
  <2>5. CASE dat.state = "READ_CRC"
    BY <1>1, <1>2, <2>1, <2>5 DEF ReadGoes, Becomes, Due
  <2>6. CASE dat.state = "READ_FINISH"
    BY <1>1, <1>2, <1>6, <2>1, <2>6 DEF ReadGoes, Becomes, Due
  <2> QED BY <2>2, <2>3, <2>4, <2>5, <2>6 DEF ReadStates
<1> QED BY <1>5, <1>6

(* The same of a block that is written.                                    *)
LEMMA GivenMoves ==
  ASSUME NEW acc, NEW fits, DataStep(acc, fits), dat.state \in WriteStates,
         dat'.state \in WriteStates
  PROVE  \/ /\ Given' = Given + (IF Sd!Writes(acc, "DATA") THEN 1 ELSE 0)
            /\ ~(clkstrb /\ dat'.block_done)
         \/ /\ clkstrb /\ dat.state = "WRITE_BUSY" /\ dat'.state = "WRITE_TAIL"
            /\ ~Sd!Writes(acc, "DATA") /\ Given = Words /\ Given' = 0
<1>1. /\ Stepping(acc, fits) /\ ControllerInv /\ Exchanges(acc) /\ Moving /\ Permitted(acc)
      /\ dat.word \in 0 .. Words /\ Words \in Nat \ {0}
  BY Constants DEF DataStep, Stepping, Moving, Busy, WriteStates, ControllerInv, DatShape, Shaped,
                   DatRecord, WordRange
<1>2. /\ acc.adr = "DATA" <=> Sd!Writes(acc, "DATA")
      /\ Sd!Writes(acc, "DATA") => dat.state = "WRITE_REGIN" /\ Asked
  BY <1>1 DEF Exchanges, Sd!Writes, Asked
<1>3. Asked' <=> \/ Asked /\ acc.adr # "DATA"
                 \/ Sd!status_data_dat' /\ ~Sd!status_data_dat
  BY <1>1, AskedMoves
<1>4. /\ Sd!status_data_dat <=> dat.state = "WRITE_REGIN"
      /\ Sd!status_data_dat' <=> dat'.state = "WRITE_REGIN"
  BY DEF Sd!status_data_dat, WriteStates
<1>5. CASE ~clkstrb
  <2>1. dat' = dat
    BY <1>5, LinesStep
  <2>2. CASE dat.state = "WRITE_REGIN"
    <3>1. ~dat.write_start => dat.word \in 1 .. Words - 1
      BY <1>1, <2>2, PartsAre DEF DataStep
    <3> QED BY <1>1, <1>2, <1>3, <1>4, <1>5, <2>1, <2>2, <3>1 DEF Given
  <2>3. CASE dat.state # "WRITE_REGIN"
    BY <1>1, <1>2, <1>5, <2>1, <2>3 DEF Given, WriteStates
  <2> QED BY <2>2, <2>3
<1>6. CASE clkstrb
  <2>1. WriteGoes(dat, dat', Card!low)
          /\ (dat'.block_done <=> dat.state = "WRITE_BUSY" /\ ~Card!low)
    <3>1. DataGoes
      BY <1>6, LinesStep
    <3> QED BY <3>1 DEF DataGoes, ReadStates, WriteStates
  <2>2. CASE dat.state = "WRITE_REGIN"
    <3>0. ~dat.write_start => dat.word \in 1 .. Words - 1
      BY <1>1, <2>2, PartsAre DEF DataStep
    <3>1. CASE Becomes(dat', "WRITE_REGIN", dat.bit, dat.word)
            /\ (dat'.write_start <=> dat.write_start)
      BY <1>1, <1>2, <1>3, <1>4, <2>1, <2>2, <3>0, <3>1 DEF Becomes, Given
    <3>2. CASE Sd!acked
      <4>1. ~Asked /\ ~Sd!Writes(acc, "DATA")
        BY <1>1, <1>2, <1>6, <3>2, AskedWhere
      <4>2. CASE dat.write_start /\ Becomes(dat', "WRITE_START", 0, dat.word)
        BY <1>1, <1>2, <2>1, <2>2, <4>1, <4>2 DEF Becomes, Given
      <4>3. CASE ~dat.write_start /\ Becomes(dat', "WRITE_DATA", 0, dat.word)
        BY <1>1, <1>2, <2>1, <2>2, <3>0, <4>1, <4>3 DEF Becomes, Given
      <4> QED BY <2>1, <2>2, <3>2, <4>2, <4>3 DEF WriteGoes
    <3> QED BY <2>1, <2>2, <3>1, <3>2 DEF WriteGoes
  <2>3. CASE dat.state = "WRITE_START"
    BY <1>1, <1>2, <2>1, <2>3 DEF WriteGoes, Becomes, Given
  <2>4. CASE dat.state = "WRITE_DATA"
    <3>1. dat.word > 0
      BY <1>1, <2>4 DEF ControllerInv, DatShape, Shaped
    <3>2. CASE Becomes(dat', "WRITE_DATA", dat.bit + 1, dat.word)
      BY <1>1, <1>2, <2>1, <2>4, <3>2 DEF Becomes, Given
    <3>3. CASE dat.word = 1 /\ Becomes(dat', "WRITE_CRC", 0, 0)
      BY <1>1, <1>2, <2>1, <2>4, <3>3 DEF Becomes, Given
    <3>4. CASE ~dat'.write_start /\ Becomes(dat', "WRITE_REGIN", 0, dat.word - 1)
      <4>1. Asked'
        BY <1>3, <1>4, <2>4, <3>4 DEF Becomes
      <4> QED BY <1>1, <1>2, <2>1, <2>4, <3>1, <3>4, <4>1 DEF Becomes, Given
    <3> QED BY <2>1, <2>4, <3>2, <3>3, <3>4 DEF WriteGoes
  <2>5. CASE dat.state \in {"WRITE_CRC", "WRITE_STOP", "WRITE_CHECK_CRC"}
    BY <1>1, <1>2, <2>1, <2>5 DEF WriteGoes, Becomes, Given
  <2>6. CASE dat.state = "WRITE_BUSY"
    BY <1>1, <1>2, <1>6, <2>1, <2>6 DEF WriteGoes, Becomes, Given
  <2>7. CASE dat.state = "WRITE_TAIL"
    <3>1. CASE dat'.state = "WRITE_REGIN"
      <4>1. Asked'
        BY <1>3, <1>4, <2>7, <3>1
      <4> QED BY <1>1, <1>2, <2>1, <2>7, <3>1, <4>1 DEF WriteGoes, Becomes, Given
    <3>2. CASE dat'.state # "WRITE_REGIN"
      BY <1>1, <1>2, <2>1, <2>7, <3>2 DEF WriteGoes, Becomes, Given
    <3> QED BY <3>1, <3>2
  <2> QED BY <2>2, <2>3, <2>4, <2>5, <2>6, <2>7 DEF WriteStates
<1> QED BY <1>5, <1>6

(* What is left to do after an access. *)
Rest == IF Head(todo) = Poll THEN Handle ELSE Tail(todo)

(* It is what follows, or the next look at the flags; a function that ends *)
(* leaves a controller at rest.                                            *)
LEMMA Follows ==
  ASSUME IInv, IInv', todo # <<>>, Proceed(Head(todo))
  PROVE  /\ Acked(todo)' = Acked(Rest) /\ Ops(todo)' \subseteq Ops(Rest) \cup {Poll}
         /\ call' = call \/ (call' = "none" /\ Settled' /\ ~Starting')
         /\ Rest # <<>> => call' = call /\ loop' = loop /\ irq' = Flags
         /\ ~Starting => ~Starting'
         /\ Head(todo) = Poll => todo = <<Poll>>
         /\ Plan(Rest)
<1> DEFINE o == Head(todo)
<1>0. /\ DriverInv /\ DriverInv' /\ DriverTypes /\ call \in Transfers \cup Limited \cup {"reset"}
      /\ call # "none"
  BY Running DEF IInv, DriverInv, Transfers, Limited
<1>1. o = Poll => todo = <<Poll>>
  <2>1. /\ Write("CMDARG", Sd!NoCommand) # Poll /\ Read("CTRL") # Poll /\ Set({"RST"}) # Poll
        /\ \A k : Write("CMD", k) # Poll
    BY DEF Poll, Read, Set, Write
  <2> QED BY <1>0, <2>1, Shapes
<1>2. Plan(Rest)
  <2>1. CASE o = Poll
    BY <1>0, <2>1, AllAnswer DEF Answering, Rest
  <2>2. CASE o # Poll
    BY <1>0, <2>2, RestOfPlan DEF Rest, DriverTypes
  <2> QED BY <2>1, <2>2
<1>3. \/ Rest # <<>> /\ todo' = Rest /\ irq' = Flags /\ call' = call /\ loop' = loop
      \/ Rest = <<>> /\ todo' = <<Poll>> /\ call' = call
      \/ Rest = <<>> /\ todo' = <<>> /\ call' = "none"
  BY DEF Proceed, Rest
<1>4. ASSUME NEW s, todo' = s PROVE Acked(todo)' = Acked(s) /\ Ops(todo)' = Ops(s)
  BY <1>4 DEF Acked, Acks, Ops
<1>5. Acked(<<Poll>>) = {} /\ Acked(<<>>) = {} /\ Ops(<<Poll>>) = {Poll} /\ Ops(<<>>) = {}
  BY Waiting
<1>6. Acked(todo)' = Acked(Rest) /\ Ops(todo)' \subseteq Ops(Rest) \cup {Poll}
  <2>1. CASE Rest # <<>> /\ todo' = Rest
    BY <1>4, <2>1
  <2>2. CASE Rest = <<>> /\ todo' = <<Poll>>
    BY <1>4, <1>5, <2>2
  <2>3. CASE Rest = <<>> /\ todo' = <<>>
    BY <1>4, <1>5, <2>3
  <2> QED BY <1>3, <2>1, <2>2, <2>3
<1>7. call' = call \/ (call' = "none" /\ Settled' /\ ~Starting')
  <2>1. "none" \notin Calls
    BY NeoSDAssumption
  <2> QED BY <1>0, <1>3, <2>1 DEF DriverInv, Starting
<1>8. ~Starting => ~Starting'
  <2> SUFFICES ASSUME ~Starting PROVE ~Starting'
    OBVIOUS
  <2>1. CASE todo' = <<Poll>>
    BY <2>1, Begun
  <2>2. CASE call' = "none"
    BY <1>7, <2>2, NeoSDAssumption DEF Starting
  <2>3. CASE Rest # <<>> /\ todo' = Rest /\ call' = call
    <3>1. call \in Calls => Rest = <<Poll>> \/ Poll \notin Ops(Rest)
      <4>1. CASE o = Poll
        BY <1>0, <4>1, AllAnswer DEF Answering, Rest
      <4>2. CASE o # Poll
        <5>1. Rest = Tail(todo) /\ Ops(todo) = {o} \cup Ops(Tail(todo))
          BY <1>0, <4>2, RestOfPlan DEF Rest, DriverTypes
        <5>2. ~Resetting \/ call \notin Calls
          BY NeoSDAssumption DEF Resetting
        <5> QED BY <1>0, <2>3, <4>2, <5>1, <5>2, Shapes DEF Handling
      <4> QED BY <4>1, <4>2
    <3> QED BY <2>3, <3>1, Begun
  <2> QED BY <1>3, <2>1, <2>2, <2>3
<1> QED BY <1>1, <1>2, <1>3, <1>6, <1>7, <1>8

(* The driver counts no block that is not done, and none twice.            *)
LEMMA BlocksCounted ==
  ASSUME IInv, IInv', DataInv, todo # <<>>, NEW fits,
         DataStep(BusAccess(Head(todo)), fits), Records(Head(todo)), Proceed(Head(todo)),
         call \in Transfers, ~Starting
  PROVE  /\ blocks' + Uncounted' <=
              blocks + Uncounted + (IF clkstrb /\ dat'.block_done THEN 1 ELSE 0)
         /\ blocks' = blocks \/ (blocks' = blocks + 1 /\ "BLK_DONE" \in ctrl)
<1> DEFINE o == Head(todo)
           acc == BusAccess(o)
<1>0. /\ Stepping(acc, fits) /\ ControllerInv /\ Types /\ DriverInv /\ DriverTypes
      /\ o \in Operations /\ Ops(todo) = {o} \cup Ops(Tail(todo)) /\ blocks \in Nat
      /\ dat.block_done \in BOOLEAN
      /\ old \cap Sd!Settings \subseteq ctrl /\ call # "none" /\ loop \in 1 .. 2
      /\ loop = 2 => call \in {"read_blocks_stop", "write_blocks_stop", "select"}
  BY Running DEF DataStep, Stepping, IInv, ControllerInv, DatShape, Shaped, DatRecord, DriverInv,
                 DriverTypes, Transfers
<1>1. During(call, loop, todo, irq, blocks)
  BY <1>0, Talking
<1>2. blocks' = IF o = Poll /\ "BLK_DONE" \in Flags THEN blocks + 1 ELSE blocks
  BY <1>0, Recorded
<1>3. Acked(todo)' = Acked(Rest) /\ (o = Poll => todo = <<Poll>>)
  BY Follows
<1>4. /\ "BLK_DONE" \in ctrl' => "BLK_DONE" \in ctrl \/ (clkstrb /\ dat.block_done)
      /\ Acks(o) \cap ctrl' = {}
  <2>1. Stepping(acc, fits)
    BY <1>0
  <2>2. "BLK_DONE" \in ctrl' => "BLK_DONE" \in ctrl \/ (clkstrb /\ dat.block_done)
    BY <2>1, FlagMoves
  <2>3. Acks(o) \cap ctrl' = {}
    BY <1>0, Effects
  <2> QED BY <2>2, <2>3
<1>5. ~clkstrb => dat' = dat
  BY LinesStep
<1>6. dat'.block_done \in BOOLEAN
  BY DEF IInv, ControllerInv, DatShape, Shaped, DatRecord
<1> DEFINE open == "BLK_DONE" \in ctrl /\ "BLK_DONE" \notin Acked(todo)
           left == "BLK_DONE" \in ctrl' /\ "BLK_DONE" \notin Acked(Rest)
<1>7. /\ Uncounted = (IF dat.block_done THEN 1 ELSE 0) + (IF open THEN 1 ELSE 0)
      /\ Uncounted' = (IF dat'.block_done THEN 1 ELSE 0) + (IF left THEN 1 ELSE 0)
  BY <1>3 DEF Uncounted
<1> HIDE DEF o, acc
<1>8. CASE o = Poll
  <2>1. todo = <<Poll>> /\ Acked(todo) = {} /\ Rest = Handle
    BY <1>3, <1>8, Waiting DEF Rest, o
  <2>2. "BLK_DONE" \in Flags <=> "BLK_DONE" \in ctrl
    <3>1. "BLK_DONE" \in Bits
      BY DEF Bits, Sd!CtrlBits, Sd!Settings
    <3> QED BY <1>0, <2>1, <3>1, Sees
  <2>3. "BLK_DONE" \in ctrl => "BLK_DONE" \in Acked(Handle)
    <3> SUFFICES ASSUME "BLK_DONE" \in ctrl PROVE "BLK_DONE" \in Acked(Handle)
      OBVIOUS
    <3>1. Answering
      BY <1>0, AllAnswer
    <3>2. CASE loop = 1
      BY <2>2, <3>1, <3>2 DEF Answering
    <3>3. CASE loop = 2
      <4>1. call # "read_blocks_stop"
        BY <1>1, <3>3 DEF During, ReadBlocksInv, DataFlags
      <4>2. call = "write_blocks_stop"
        BY <1>0, <3>3, <4>1 DEF Transfers
      <4> QED BY <2>2, <3>1, <3>3, <4>2 DEF Answering, DataFlags
    <3> QED BY <1>0, <3>2, <3>3
  <2>4. /\ open <=> "BLK_DONE" \in ctrl
        /\ left => "BLK_DONE" \notin ctrl /\ clkstrb /\ dat.block_done
    BY <1>4, <2>1, <2>3
  <2>5. blocks' = IF "BLK_DONE" \in ctrl THEN blocks + 1 ELSE blocks
    BY <1>2, <1>8, <2>2
  <2> HIDE DEF open, left
  <2> QED BY <1>0, <1>5, <1>6, <1>7, <2>4, <2>5
<1>9. CASE o # Poll
  <2>1. blocks' = blocks /\ Rest = Tail(todo)
    BY <1>2, <1>9 DEF Rest, o
  <2>2. "BLK_DONE" \in Acked(todo) <=> "BLK_DONE" \in Acks(o) \/ "BLK_DONE" \in Acked(Tail(todo))
    BY <1>0, AckedBy
  <2>3. left => open \/ (clkstrb /\ dat.block_done)
    BY <1>4, <2>1, <2>2
  <2> HIDE DEF open, left
  <2> QED BY <1>0, <1>5, <1>6, <1>7, <2>1, <2>3
<1> QED BY <1>8, <1>9

(* The commands that the driver gives: the first of a function, the abort  *)
(* of a single read, and the stop of a transfer.                           *)
Commanding ==
  \/ Starting /\ command'.idx \in CommandsOf(call) \ {"none", "STOP"}
  \/ /\ ~Starting /\ ~Active /\ call = "read_block" /\ command'.idx = "none"
     /\ blocks > 0
  \/ /\ ~Starting /\ ~Active /\ call \in {"read_blocks_stop", "write_blocks_stop"}
     /\ command'.idx = "STOP" /\ command.idx \in Flow /\ blocks >= Blocks /\ dat.state # "IDLE"

(* A write of the command register is one of them.                         *)
LEMMA CommandWritten ==
  ASSUME IInv, DataInv, todo # <<>>, NEW fits, DataStep(BusAccess(Head(todo)), fits),
         Sd!Writes(BusAccess(Head(todo)), "CMD")
  PROVE  Commanding
<1> DEFINE o == Head(todo)
           acc == BusAccess(o)
<1>0. /\ Stepping(acc, fits) /\ DriverInv /\ o \in Operations /\ o \in Ops(todo)
      /\ call \in Transfers \cup Limited \cup {"reset"}
      /\ old \cap Sd!Settings \subseteq ctrl
  BY Running DEF DataStep, IInv, DriverInv
<1>1. o.adr = "CMD"
  BY <1>0, Effects
<1>2. PICK k : o = Write("CMD", k)
  <2>1. /\ Poll.adr = "IRQ" /\ \A a : Read(a).adr = a
        /\ \A b : Clear(b).adr = "CTRL" /\ Set(b).adr = "CTRL"
        /\ \A a, k : Write(a, k).adr = a
    BY Fields
  <2> HIDE DEF o
  <2> QED BY <1>0, <1>1, <2>1, Kinds
<1>3. command' = k
  <2>1. acc = Sd!Access("CMD", TRUE, k)
    BY <1>2, AccessOf
  <2>2. command' = Sd!CommandNext(acc)
    BY <1>0 DEF Stepping, Edge, Sd!Clock, Sd!Registers
  <2>3. acc.data = k
    BY <2>1 DEF Sd!Access
  <2> HIDE DEF acc
  <2> QED BY <2>2, <2>3 DEF Sd!CommandNext, acc
<1>4. CASE Starting
  <2>1. call \in Transfers \cup Limited
    BY <1>4, NeoSDAssumption DEF Starting, Transfers, Limited
  <2>2. o = Write("CMD", CommandOf(call))
    <3>1. Write("CMDARG", Sd!NoCommand).adr = "CMDARG"
      BY Fields
    <3> QED BY <1>0, <1>1, <1>4, <3>1, Shapes
  <2>3. k = CommandOf(call)
    BY <1>2, <2>2, Apart
  <2> QED BY <1>3, <1>4, <2>1, <2>3, CommandsFormed DEF Commanding
<1>5. CASE ~Starting
  <2>1. During(call, loop, todo, irq, blocks)
    BY <1>0, <1>5, Running
  <2>2. Commands(o)
    BY <1>1 DEF Commands
  <2> HIDE DEF o, acc
  <2>3. /\ ~Active /\ call \in {"read_block", "read_blocks_stop", "write_blocks_stop"}
        /\ call # "read_block" => command.idx \in Flow /\ blocks >= Blocks /\ dat.state # "IDLE"
        /\ o \in Ops(StopOf(call))
    BY <1>0, <1>1, <2>1, <2>2 DEF During, Legal
  <2>4. CASE call = "read_block"
    <3>1. o = Write("CMD", AbortCommand)
      BY <2>3, <2>4, StopPlans DEF StopOf
    <3>2. command'.idx = "none"
      BY <1>2, <1>3, <3>1, Apart, StopsFormed
    <3>3. blocks > 0
      BY <1>0, <1>1, <1>5, <2>4 DEF DataInv, DataOps
    <3> QED BY <1>5, <2>3, <2>4, <3>2, <3>3 DEF Commanding
  <2>5. CASE call \in {"read_blocks_stop", "write_blocks_stop"}
    <3> DEFINE m == IF call = "read_blocks_stop" THEN "NONE" ELSE "BUSY"
    <3>1. o \in Ops(Commit("STOP", "SHORT", m, TRUE))
      BY <2>3, <2>5 DEF StopOf
    <3>2. o = Write("CMD", StopCommand(m))
      <4>1. Write("CMDARG", Sd!NoCommand).adr = "CMDARG" /\ m \in {"NONE", "BUSY"}
        BY Fields
      <4> HIDE DEF m
      <4> QED BY <1>1, <3>1, <4>1, StopPlans
    <3>3. command'.idx = "STOP"
      BY <1>2, <1>3, <3>2, Apart, StopsFormed
    <3> QED BY <1>5, <2>3, <2>5, <3>3 DEF Commanding
  <2> QED BY <2>3, <2>4, <2>5
<1> QED BY <1>4, <1>5

(* What the driver does in a step that does not call a function.           *)
DriverStep(acc) ==
  /\ buf' = IF Sd!Reads(acc, "DATA") /\ call \in Reading /\ Len(buf) < MaxBuf
              THEN Append(buf, dat_reg.last) ELSE buf
  /\ sent' = IF Sd!Writes(acc, "DATA") THEN sent + 1 ELSE sent
  /\ resp' = IF Sd!Reads(acc, "RESP") /\ call # "reset" THEN Append(resp, cmd_reg.last) ELSE resp
  /\ Starting => blocks' = blocks
  /\ call \in Transfers /\ ~Starting =>
       /\ blocks' + Uncounted' <=
            blocks + Uncounted + (IF clkstrb /\ dat'.block_done THEN 1 ELSE 0)
       /\ blocks' = blocks \/ (blocks' = blocks + 1 /\ "BLK_DONE" \in ctrl)
  /\ call' = call \/ (call' = "none" /\ Settled') \/ call' = "reset"
  /\ ~Starting => ~Starting'
  /\ Starting /\ ~Sd!Writes(acc, "CMD") => Starting'
  /\ acc.adr = "DATA" /\ call # "reset" => "DAT_DATA" \in ctrl
  /\ Sd!Reads(acc, "RESP") /\ call # "reset" => "CMD_RESP" \in ctrl
  /\ Sd!Writes(acc, "DATA") => command.idx \in Flow /\ call = "write_blocks_stop"
  /\ Sd!Writes(acc, "CMD") => Commanding

(* The driver makes an access.                                             *)
LEMMA ProgramMoves ==
  ASSUME IInv, IInv', DataInv, NEW fits, DataStep(BusAccess(Head(todo)), fits),
         todo # <<>>, Records(Head(todo)), Proceed(Head(todo))
  PROVE  DriverStep(BusAccess(Head(todo)))
<1> DEFINE o == Head(todo)
           acc == BusAccess(o)
<1>0. /\ Stepping(acc, fits) /\ DriverInv /\ o \in Operations /\ o \in Ops(todo)
      /\ call \in Transfers \cup Limited \cup {"reset"}
      /\ old \cap Sd!Settings \subseteq ctrl
  BY Running DEF DataStep, IInv, DriverInv
<1>1. /\ Sd!Reads(acc, "RESP") <=> o = Read("RESP")
      /\ Sd!Reads(acc, "DATA") <=> o = Read("DATA")
      /\ Sd!Writes(acc, "DATA") <=> o = Write("DATA", Sd!NoCommand)
      /\ acc.adr = "DATA" <=> o = Read("DATA") \/ o = Write("DATA", Sd!NoCommand)
  BY <1>0, Effects, DataAccess
<1>2. /\ resp' = IF o = Read("RESP") /\ call # "reset" THEN Append(resp, cmd_reg.last) ELSE resp
      /\ sent' = IF o = Write("DATA", Sd!NoCommand) THEN sent + 1 ELSE sent
      /\ blocks' = IF o = Poll /\ "BLK_DONE" \in Flags THEN blocks + 1 ELSE blocks
      /\ buf' = IF o = Read("DATA") /\ call \in Reading /\ Len(buf) < MaxBuf
                  THEN Append(buf, dat_reg.last) ELSE buf
  <2>1. buf' = IF o = Read("DATA") /\ call \in Reading /\ Len(buf) < MaxBuf
                  THEN Append(buf, dat_reg.last) ELSE buf
    BY DEF Records
  <2> QED BY <1>0, <2>1, Recorded
<1>3. Starting => o # Poll
  BY Looking, Follows DEF IInv
<1>4. call # "reset" /\ o = Read("RESP") => "CMD_RESP" \in ctrl
  <2> SUFFICES ASSUME call # "reset", o = Read("RESP") PROVE "CMD_RESP" \in ctrl
    OBVIOUS
  <2>1. ~Starting
    <3>1. /\ Read("RESP").op = "read" /\ Write("CMDARG", Sd!NoCommand).op = "write"
          /\ Write("CMD", CommandOf(call)).op = "write"
      BY Fields
    <3> QED BY <1>0, <3>1, Shapes
  <2>2. During(call, loop, todo, irq, blocks)
    BY <1>0, <2>1, Running
  <2> QED BY <1>0, <2>2 DEF During, Legal
<1>5. /\ o = Write("DATA", Sd!NoCommand) => command.idx \in Flow /\ call = "write_blocks_stop"
      /\ o \in {Read("DATA"), Write("DATA", Sd!NoCommand)} /\ call # "reset" => "DAT_DATA" \in ctrl
  <2>1. o = Write("DATA", Sd!NoCommand) =>
          command.idx \in Flow /\ call = "write_blocks_stop" /\ "DAT_DATA" \in ctrl
    BY <1>0, WordAwaited
  <2>2. o = Read("DATA") /\ call # "reset" => "DAT_DATA" \in ctrl
    BY <1>0 DEF DataInv, DataOps
  <2> QED BY <2>1, <2>2
<1>6. Sd!Writes(acc, "CMD") => Commanding
  BY CommandWritten
<1>7. /\ call' = call \/ (call' = "none" /\ Settled')
      /\ ~Starting => ~Starting'
  BY Follows
<1>8. call \in Transfers /\ ~Starting =>
        /\ blocks' + Uncounted' <=
             blocks + Uncounted + (IF clkstrb /\ dat'.block_done THEN 1 ELSE 0)
        /\ blocks' = blocks \/ (blocks' = blocks + 1 /\ "BLK_DONE" \in ctrl)
  BY BlocksCounted
<1>9. Starting => blocks' = blocks
  BY <1>2, <1>3
<1>11. Starting /\ ~Sd!Writes(acc, "CMD") => Starting'
  <2> SUFFICES ASSUME Starting PROVE Sd!Writes(acc, "CMD") \/ Starting'
    OBVIOUS
  <2> DEFINE a == Write("CMDARG", Sd!NoCommand)
             w == Write("CMD", CommandOf(call))
  <2>1. \/ o = a /\ Tail(todo) = <<w, Poll>>
        \/ o = w
    BY <1>0, Shapes
  <2>2. CASE o = w
    <3>1. acc = Sd!Access("CMD", TRUE, CommandOf(call))
      BY <2>2, AccessOf
    <3> HIDE DEF acc
    <3> QED BY <3>1 DEF Sd!Access, Sd!Writes
  <2>3. CASE o = a /\ Tail(todo) = <<w, Poll>>
    <3>1. call \in Transfers \cup Limited
      BY NeoSDAssumption DEF Starting, Transfers, Limited
    <3>2. Tail(Begin(call)) \o <<Poll>> = <<w, Poll>>
      BY <3>1, StartingPlans
    <3>3. Rest = <<w, Poll>> /\ Rest # <<>>
      BY <1>3, <2>3 DEF Rest
    <3>4. todo' = Rest /\ call' = call
      BY <3>3 DEF Proceed, Rest
    <3>5. call' \in Calls /\ todo' = Tail(Begin(call')) \o <<Poll>>
      BY <3>2, <3>3, <3>4 DEF Starting
    <3>6. Begin(call)' = Begin(call')
      BY DEF Begin, Commit, Write, Sd!Command, Sd!NoCommand
    <3> QED BY <3>5, <3>6 DEF Starting
  <2> QED BY <2>1, <2>2, <2>3
<1> HIDE DEF o, acc
<1>10. DriverStep(acc)
  BY <1>1, <1>2, <1>4, <1>5, <1>6, <1>7, <1>8, <1>9, <1>11 DEF DriverStep
<1> QED BY <1>10 DEF acc, o

(* The driver waits, or gives up.                                          *)
LEMMA WaitingMoves ==
  ASSUME IInv, DataInv, NEW fits, DataStep(Sd!NoAccess, fits),
         UNCHANGED driverVars \/ TimeOut
  PROVE  DriverStep(Sd!NoAccess)
<1>1. /\ Sd!NoAccess.adr = "none" /\ ~Sd!NoAccess.we
      /\ \A a : ~Sd!Writes(Sd!NoAccess, a)
      /\ ~Sd!Reads(Sd!NoAccess, "RESP") /\ ~Sd!Reads(Sd!NoAccess, "DATA")
  BY DEF Sd!NoAccess, Sd!Access, Sd!Reads, Sd!Writes
<1>2. resp' = resp /\ buf' = buf /\ sent' = sent /\ blocks' = blocks
  BY DEF driverVars, TimeOut
<1>3. CASE UNCHANGED driverVars
  <2>1. call' = call /\ todo' = todo
    BY <1>3 DEF driverVars
  <2>2. Starting' <=> Starting
    BY <2>1 DEF Starting
  <2>3. /\ blocks' + Uncounted' <=
             blocks + Uncounted + (IF clkstrb /\ dat'.block_done THEN 1 ELSE 0)
    <3>1. Acked(todo)' = Acked(todo)
      BY <2>1 DEF Acked, Acks, Ops
    <3>2. ~clkstrb => dat' = dat
      BY LinesStep
    <3>3. "BLK_DONE" \in ctrl' => "BLK_DONE" \in ctrl \/ (clkstrb /\ dat.block_done)
      <4>1. Stepping(Sd!NoAccess, fits)
        BY DEF DataStep
      <4> QED BY <4>1, FlagMoves
    <3>4. blocks \in Nat
      BY Talking
    <3> QED BY <1>2, <3>1, <3>2, <3>3, <3>4 DEF Uncounted
  <2> QED BY <1>1, <1>2, <2>1, <2>2, <2>3 DEF DriverStep
<1>4. CASE TimeOut
  <2>1. call' = "reset" /\ call \notin Transfers
    BY <1>4 DEF TimeOut, Limited, Transfers
  <2>2. ~Starting'
    BY <2>1, NeoSDAssumption DEF Starting
  <2>3. ~Starting
    BY <1>4, Looking DEF TimeOut, IInv
  <2> QED BY <1>1, <1>2, <2>1, <2>2, <2>3 DEF DriverStep
<1> QED BY <1>3, <1>4

(* A step of the controller, the card and the driver within a function.    *)
Onward(acc, fits) ==
  IInv /\ IInv' /\ DataInv /\ DataStep(acc, fits) /\ DriverStep(acc) /\ Wired'

(* What the invariant says of the state after a step.                      *)
LEMMA After ==
  ASSUME IInv'
  PROVE  /\ call' = "none" \/ Starting' => dat'.state = "IDLE" /\ command'.idx \notin Flow
         /\ call' = "reset" => dat'.state = "IDLE" /\ command'.idx \notin Flow \cup {"STOP", "none"}
         /\ call' # "none" /\ ~Starting' => During(call, loop, todo, irq, blocks)'
<1>1. /\ DriverInv' /\ CmdShape' /\ FlowInv'
  BY DEF IInv, ControllerInv
<1>2. call' = "none" \/ Starting' => Settled'
  BY <1>1 DEF DriverInv
<1>3. Settled' => dat'.state = "IDLE" /\ command'.idx \notin Flow
  <2>1. Settled' => dat'.state = "IDLE" /\ cmd'.state = "IDLE" /\ ~command'.commit
    BY DEF Settled, Rests
  <2>2. cmd'.start_dat => cmd'.state \in {"WAIT_RESP", "TAIL"}
    BY <1>1 DEF CmdShape
  <2>3. dat'.state = "IDLE" => ~Moving'
    BY DEF Moving, Busy
  <2>4. cmd'.state = "IDLE" /\ ~command'.commit => ~Active'
    BY DEF Active
  <2> QED BY <1>1, <2>1, <2>2, <2>3, <2>4 DEF FlowInv
<1>4. call' # "none" /\ ~Starting' => During(call, loop, todo, irq, blocks)'
  BY <1>1 DEF DriverInv
<1>5. call' = "reset" => ~Starting' /\ call' # "none"
  BY NeoSDAssumption DEF Starting
<1>6. ASSUME call' = "reset" PROVE ResetReady'
  <2>1. During(call, loop, todo, irq, blocks)'
    BY <1>4, <1>5, <1>6
  <2>2. ResetInv(call, todo, irq)'
    BY <2>1 DEF During
  <2> QED BY <1>6, <2>2 DEF ResetInv
<1> QED BY <1>2, <1>3, <1>4, <1>6 DEF ResetReady, Flow

(* The data phase of a command belongs to its function.                    *)
LEMMA PhaseOf ==
  ASSUME IInv, dat.state = "IDLE", cmd.start_dat
  PROVE  /\ call # "none" /\ ~Starting /\ call # "reset"
         /\ command.dmode = "R" => command.idx \in Flow /\ call \in Reading
         /\ command.dmode = "W" => command.idx \in Flow /\ call = "write_blocks_stop"
<1>1. call # "none" /\ ~Starting /\ call # "reset" /\ During(call, loop, todo, irq, blocks)
      /\ call \in Calls \cup {"none", "reset"}
  BY Talking
<1>2. command.idx \in CommandsOf(call)
  BY <1>1 DEF During, Which
<1>3. command.idx \in Indices /\ command.dmode \in PhasesOf(command.idx)
  BY DEF IInv, ControllerInv, Types, Formed, CommandSet
<1>4. /\ command.dmode = "R" => command.idx \in {"READ", "READ_MULTI"}
      /\ command.dmode = "W" => command.idx = "WRITE_MULTI"
  BY <1>3 DEF PhasesOf, Indices
<1>5. call \in {"read_block", "read_blocks_stop", "write_blocks_stop", "all_send_cid", "select"}
  BY <1>1, NeoSDAssumption
<1> QED BY <1>1, <1>2, <1>4, <1>5 DEF CommandsOf, Flow, Reading

(* A transfer begins with no word and no block.                            *)
Begins == /\ clkstrb /\ dat.state = "IDLE" /\ cmd.start_dat /\ command.idx \in Flow
          /\ ~dat'.block_done /\ ~Asked
          /\ buf = <<>> /\ sent = 0 /\ blocks = 0 /\ Uncounted = 0

(* A data phase that goes on belongs to the function that began it, or it  *)
(* begins with this step.                                                  *)
LEMMA Phased ==
  ASSUME NEW acc, NEW fits, Onward(acc, fits), dat'.state \in ReadStates \cup WriteStates
  PROVE  /\ call' = call /\ ~Starting /\ ~Starting' /\ call \in Transfers
         /\ dat'.state \in ReadStates =>
              /\ call \in Reading
              /\ dat.state \in ReadStates \/ (Begins /\ dat'.state = "WAIT_BLOCK")
         /\ dat'.state \in WriteStates =>
              /\ call = "write_blocks_stop"
              /\ \/ dat.state \in WriteStates
                 \/ Begins /\ dat'.state = "WRITE_REGIN" /\ dat'.write_start
<1>0. IInv /\ IInv' /\ DataInv /\ DataStep(acc, fits) /\ DriverStep(acc) /\ ControllerInv
  BY DEF Onward, IInv
<1>1. dat'.state # "IDLE" /\ ReadStates \cap WriteStates = {}
  BY DEF ReadStates, WriteStates
<1>2. call' # "none" /\ ~Starting' /\ call' = call
  BY <1>0, <1>1, After DEF DriverStep
<1>3. \/ dat.state \in ReadStates /\ dat'.state \in ReadStates
      \/ dat.state \in WriteStates /\ dat'.state \in WriteStates
      \/ /\ clkstrb /\ dat.state = "IDLE" /\ cmd.start_dat /\ ~dat'.block_done
         /\ \/ command.dmode = "R" /\ dat'.state = "WAIT_BLOCK"
            \/ command.dmode = "W" /\ dat'.state = "WRITE_REGIN" /\ dat'.write_start
  <2>1. CASE ~clkstrb
    BY <1>0, <2>1, LinesStep
  <2>2. CASE clkstrb
    <3>1. DataGoes
      BY <1>0, <2>2, LinesStep
    <3>2. ReadGoes(dat, dat', Card!low) => dat'.state \in ReadStates
      BY DEF ReadGoes, Becomes, ReadStates
    <3>3. WriteGoes(dat, dat', Card!low) => dat'.state \in WriteStates
      BY DEF WriteGoes, Becomes, WriteStates
    <3> QED BY <2>2, <3>1, <3>2, <3>3 DEF DataGoes
  <2> QED BY <2>1, <2>2
<1>4. ~Starting
  <2>1. Starting => dat.state = "IDLE" /\ ~cmd.start_dat
    BY <1>0, Talking DEF Settled
  <2>2. "IDLE" \notin ReadStates \cup WriteStates
    BY DEF ReadStates, WriteStates
  <2> QED BY <1>3, <2>1, <2>2
<1>5. CASE dat.state \in ReadStates
  <2>1. call \in Reading
    BY <1>0, <1>5 DEF DataInv, DataFlow
  <2>2. dat'.state \in ReadStates
    BY <1>1, <1>3, <1>5 DEF ReadStates
  <2> QED BY <1>1, <1>2, <1>4, <1>5, <2>1, <2>2 DEF Reading, Transfers
<1>6. CASE dat.state \in WriteStates
  <2>1. call = "write_blocks_stop"
    BY <1>0, <1>6 DEF DataInv, DataFlow
  <2>2. dat'.state \in WriteStates
    BY <1>1, <1>3, <1>6 DEF WriteStates
  <2> QED BY <1>1, <1>2, <1>4, <1>6, <2>1, <2>2 DEF Transfers
<1>7. CASE dat.state = "IDLE" /\ clkstrb /\ cmd.start_dat /\ ~dat'.block_done
           /\ \/ command.dmode = "R" /\ dat'.state = "WAIT_BLOCK"
              \/ command.dmode = "W" /\ dat'.state = "WRITE_REGIN" /\ dat'.write_start
  <2>1. /\ command.idx \in Flow
        /\ command.dmode = "R" => call \in Reading
        /\ command.dmode = "W" => call = "write_blocks_stop"
    BY <1>0, <1>7, PhaseOf
  <2>2. buf = <<>> /\ sent = 0 /\ blocks = 0
    BY <1>0, <1>7, <2>1 DEF DataInv, Fresh
  <2>3. ~Asked
    BY <1>0, <1>7, <2>1, AskedWhere
  <2>4. Uncounted = 0
    <3>1. ~dat.block_done
      BY <1>0, <1>7 DEF ControllerInv, DatShape, Shaped
    <3>2. "BLK_DONE" \notin ctrl
      BY <1>0, <1>7, <2>1, FlagsUp
    <3> QED BY <3>1, <3>2 DEF Uncounted
  <2>5. Begins
    BY <1>7, <2>1, <2>2, <2>3, <2>4 DEF Begins
  <2>6. "WAIT_BLOCK" \in ReadStates /\ "WRITE_REGIN" \in WriteStates
    BY DEF ReadStates, WriteStates
  <2> QED BY <1>1, <1>2, <1>4, <1>7, <2>1, <2>5, <2>6 DEF Reading, Transfers
<1> QED BY <1>3, <1>5, <1>6, <1>7

(* The register is left alone when no word is asked for.                   *)
LEMMA NoWord ==
  ASSUME NEW acc, NEW fits, Onward(acc, fits), ~Asked, call # "reset"
  PROVE  acc.adr # "DATA" /\ ~Sd!Reads(acc, "DATA") /\ ~Sd!Writes(acc, "DATA")
         /\ buf' = buf /\ sent' = sent
BY DEF Onward, DriverStep, Asked, Sd!Reads, Sd!Writes

(* A round more.                                                           *)
LEMMA RoundMore ==
  ASSUME NEW q \in Nat, NEW total \in Nat, NEW part, total = Words * q + part
  PROVE  /\ part = Words => total = Words * (q + 1) + 0 /\ q + 1 \in 0 .. total
         /\ part \in Nat => q <= total
<1>1. Words \in Nat \ {0}
  BY Constants
<1> DEFINE p == q + 1
<1>2. p \in Nat /\ 1 <= Words /\ 1 \in Nat
  BY <1>1
<1>3. p * 1 <= p * Words /\ q * 1 <= q * Words
  BY <1>1, <1>2, Multiples
<1>4. q <= Words * q /\ q + 1 <= Words * (q + 1)
  BY <1>1, <1>3
<1>5. Words * q \in Nat /\ Words * (q + 1) = Words * q + Words
  BY Rounds
<1> DEFINE u == Words * q
           v == Words * (q + 1)
<1> HIDE DEF u, v
<1>6. u \in Nat /\ v = u + Words /\ q <= u /\ q + 1 <= v /\ total = u + part
  BY <1>4, <1>5 DEF u, v
<1>7. /\ part = Words => total = v + 0 /\ q + 1 \in 0 .. total
      /\ part \in Nat => q <= total
  BY <1>1, <1>6
<1> QED BY <1>7 DEF v

(* The words taken or given stay whole blocks and the part that the state  *)
(* machine stands at.                                                      *)
LEMMA DataFlowStep ==
  ASSUME NEW acc, NEW fits, Onward(acc, fits)
  PROVE  DataFlow'
<1>0. IInv /\ IInv' /\ DataInv /\ DataStep(acc, fits) /\ DriverStep(acc) /\ ControllerInv
      /\ Wired /\ ControllerInv' /\ Wired'
  BY DEF Onward, IInv, DataStep
<1>1. /\ buf \in Seq(Nat) /\ Len(buf) \in Nat /\ sent \in Nat /\ blocks \in Nat
      /\ buf' \in Seq(Nat) /\ Len(buf') \in Nat /\ sent' \in Nat /\ blocks' \in Nat
  <2>1. DriverTypes' /\ DriverTypes /\ Words * Blocks \in Nat
    BY <1>0, Rounds DEF IInv, DriverInv
  <2> QED BY <2>1 DEF DriverTypes
<1>2. /\ Uncounted \in Nat /\ Uncounted' \in Nat
  BY DEF Uncounted
<1> DEFINE c == blocks + Uncounted
           e == blocks' + Uncounted'
           more == clkstrb /\ dat'.block_done
<1>8. c \in Nat /\ e \in Nat
  <2>1. \A x, y \in Nat : x + y \in Nat
    OBVIOUS
  <2>2. blocks \in Nat /\ blocks' \in Nat
    BY <1>1
  <2> QED BY <1>2, <2>1, <2>2, Zenon
<1>9. ASSUME call \in Transfers, ~Starting
      PROVE  (more => e <= c + 1) /\ (~more => e <= c)
  <2>1. e <= c + (IF more THEN 1 ELSE 0)
    BY <1>0, <1>9 DEF DriverStep
  <2> HIDE DEF e, c, more
  <2> QED BY <1>8, <2>1
<1>10. ASSUME call \in Transfers, ~Starting, NEW q \in Nat, c <= q
       PROVE  e <= q + 1 /\ (~more => e <= q)
  <2>1. (more => e <= c + 1) /\ (~more => e <= c)
    BY <1>9, <1>10
  <2> HIDE DEF e, c, more
  <2> QED BY <1>8, <1>10, <2>1
<1>3. ASSUME dat'.state \in ReadStates
      PROVE  call' \in Reading /\ (Len(buf') < MaxBuf => Exchanged(Len(buf), Due)')
  <2>1. /\ call' = call /\ call \in Reading /\ ~Starting /\ call \in Transfers
        /\ dat.state \in ReadStates \/ (Begins /\ dat'.state = "WAIT_BLOCK")
    BY <1>3, Phased
  <2> SUFFICES ASSUME Len(buf') < MaxBuf PROVE Exchanged(Len(buf), Due)'
    BY <2>1
  <2>3. CASE dat.state \in ReadStates
    <3>1. /\ Sd!Reads(acc, "DATA") /\ Len(buf) < MaxBuf => Len(buf') = Len(buf) + 1
          /\ ~Sd!Reads(acc, "DATA") => Len(buf') = Len(buf)
          /\ Len(buf) < MaxBuf
      <4>1. /\ buf' = IF Sd!Reads(acc, "DATA") /\ Len(buf) < MaxBuf
                      THEN Append(buf, dat_reg.last) ELSE buf
        BY <1>0, <2>1 DEF DriverStep
      <4>2. Len(Append(buf, dat_reg.last)) = Len(buf) + 1
        BY <1>1
      <4> QED BY <4>1, <4>2
    <3>2. Due \in 0 .. Words /\ Due' \in 0 .. Words
      <4>1. Due \in 0 .. Words
        BY <1>0, <2>3, PartsAre
      <4>2. CASE dat.state # "READ_FINISH" \/ ~clkstrb \/ dat'.state # "WAIT_BLOCK"
        <5>1. Due' \in 0 .. Words
          <6>1. dat'.state = "REGOUT" => dat'.word < Words
            BY <1>0 DEF Wired, Lined
          <6>2. dat'.word \in 0 .. Words
            BY <1>0 DEF ControllerInv, DatShape, Shaped, DatRecord, WordRange
          <6>3. Words \in Nat
            BY Constants
          <6> QED BY <1>3, <6>1, <6>2, <6>3 DEF Due, ReadStates
        <5> QED BY <4>1, <5>1
      <4>3. CASE dat'.state = "WAIT_BLOCK"
        <5>1. Due' = 0 /\ Words \in Nat
          BY <4>3, Constants DEF Due
        <5> QED BY <4>1, <5>1
      <4> QED BY <4>2, <4>3
    <3>3. PICK q \in 0 .. Len(buf) : Len(buf) = Words * q + Due /\ blocks + Uncounted <= q
      BY <1>0, <2>3, <3>1 DEF DataInv, DataFlow, Exchanged
    <3>4. Words * q \in Nat /\ Words \in Nat
      BY Rounds, Constants, <1>1
    <3>5. CASE /\ Due' = Due + (IF Sd!Reads(acc, "DATA") THEN 1 ELSE 0)
               /\ ~(clkstrb /\ dat'.block_done)
      <4> DEFINE u == Words * q
      <4>1. u \in Nat /\ Len(buf) = u + Due
        BY <3>3, <3>4
      <4> HIDE DEF u
      <4>2. Len(buf') = u + Due' /\ q \in 0 .. Len(buf')
        BY <1>1, <3>1, <3>2, <3>3, <3>5, <4>1
      <4>3. blocks' + Uncounted' <= q
        BY <1>1, <1>10, <2>1, <3>3, <3>5
      <4> QED BY <4>2, <4>3 DEF Exchanged, u
    <3>6. CASE ~Sd!Reads(acc, "DATA") /\ Due = Words /\ Due' = 0
      <4>1. Len(buf') = Words * (q + 1) + 0 /\ q + 1 \in 0 .. Len(buf')
        BY <1>1, <3>1, <3>3, <3>6, RoundMore
      <4>2. blocks' + Uncounted' <= q + 1
        BY <1>1, <1>10, <2>1, <3>3
      <4> QED BY <3>6, <4>1, <4>2 DEF Exchanged
    <3> QED BY <1>0, <1>3, <2>3, <3>5, <3>6, DueMoves
  <2>4. CASE Begins /\ dat'.state = "WAIT_BLOCK"
    <3>1. buf' = <<>> /\ blocks' + Uncounted' <= 0 /\ Due' = 0 /\ Words * 0 = 0
      <4>1. buf' = buf
        BY <2>1, <2>4, NoWord DEF Begins, Reading
      <4>2. Due' = 0
        BY <2>4 DEF Due
      <4>3. Words * 0 = 0
        BY Rounds
      <4>4. c <= 0 /\ ~more
        BY <2>4 DEF Begins
      <4>5. e <= 0
        BY <1>10, <2>1, <4>4
      <4> QED BY <2>4, <4>1, <4>2, <4>3, <4>5 DEF Begins
    <3> QED BY <3>1 DEF Exchanged
  <2> QED BY <2>1, <2>3, <2>4
<1>4. ASSUME dat'.state \in WriteStates
      PROVE  call' = "write_blocks_stop" /\ Exchanged(sent, Given)'
  <2>1. /\ call' = call /\ call = "write_blocks_stop" /\ ~Starting /\ call \in Transfers
        /\ \/ dat.state \in WriteStates
           \/ Begins /\ dat'.state = "WRITE_REGIN" /\ dat'.write_start
    BY <1>4, Phased
  <2>3. CASE dat.state \in WriteStates
    <3>1. sent' = IF Sd!Writes(acc, "DATA") THEN sent + 1 ELSE sent
      BY <1>0 DEF DriverStep
    <3>2. Given \in 0 .. Words
      BY <1>0, <2>3, PartsAre
    <3>3. PICK q \in 0 .. sent : sent = Words * q + Given /\ blocks + Uncounted <= q
      BY <1>0, <2>3 DEF DataInv, DataFlow, Exchanged
    <3>4. Words * q \in Nat /\ Words \in Nat
      BY Rounds, Constants, <1>1
    <3>5. CASE /\ Given' = Given + (IF Sd!Writes(acc, "DATA") THEN 1 ELSE 0)
               /\ ~(clkstrb /\ dat'.block_done)
      <4> DEFINE u == Words * q
      <4>1. u \in Nat /\ sent = u + Given
        BY <3>3, <3>4
      <4> HIDE DEF u
      <4>2. sent' = u + Given' /\ q \in 0 .. sent'
        BY <1>1, <3>1, <3>2, <3>3, <3>5, <4>1
      <4>3. blocks' + Uncounted' <= q
        BY <1>1, <1>10, <2>1, <3>3, <3>5
      <4> QED BY <2>1, <4>2, <4>3 DEF Exchanged, u
    <3>6. CASE ~Sd!Writes(acc, "DATA") /\ Given = Words /\ Given' = 0
      <4>1. sent' = Words * (q + 1) + 0 /\ q + 1 \in 0 .. sent'
        BY <1>1, <3>1, <3>3, <3>6, RoundMore
      <4>2. blocks' + Uncounted' <= q + 1
        BY <1>1, <1>10, <2>1, <3>3
      <4> QED BY <2>1, <3>6, <4>1, <4>2 DEF Exchanged
    <3> QED BY <1>0, <1>4, <2>3, <3>5, <3>6, GivenMoves
  <2>4. CASE Begins /\ dat'.state = "WRITE_REGIN" /\ dat'.write_start
    <3>1. sent' = 0 /\ blocks' + Uncounted' <= 0 /\ Given' = 0 /\ Words * 0 = 0
      <4>1. sent' = sent
        BY <2>1, <2>4, NoWord DEF Begins
      <4>2. Asked'
        <5>1. Stepping(acc, fits)
          BY <1>0 DEF DataStep
        <5>2. Sd!status_data_dat' /\ ~Sd!status_data_dat
          BY <2>4 DEF Begins, Sd!status_data_dat
        <5> QED BY <5>1, <5>2, AskedMoves
      <4>3. Given' = 0
        BY <2>4, <4>2 DEF Given
      <4>4. Words * 0 = 0
        BY Rounds
      <4>5. c <= 0 /\ ~more
        BY <2>4 DEF Begins
      <4>6. e <= 0
        BY <1>10, <2>1, <4>5
      <4> QED BY <2>4, <4>1, <4>3, <4>4, <4>6 DEF Begins
    <3> QED BY <2>1, <3>1 DEF Exchanged
  <2> QED BY <2>1, <2>3, <2>4
<1> QED BY <1>3, <1>4 DEF DataFlow

(* The commands of a transfer are those of its function.                   *)
LEMMA FlowOf ==
  ASSUME IInv, command.idx \in Flow
  PROVE  /\ call \in Transfers /\ ~Starting /\ call # "reset" /\ call # "none"
         /\ command.idx = "READ" => call = "read_block"
         /\ command.idx = "READ_MULTI" => call = "read_blocks_stop"
         /\ command.idx = "WRITE_MULTI" => call = "write_blocks_stop"
<1>1. call # "none" /\ ~Starting /\ call # "reset" /\ call \in Calls \cup {"none", "reset"}
      /\ During(call, loop, todo, irq, blocks)
  BY Talking
<1>2. command.idx \in CommandsOf(call)
  BY <1>1 DEF During, Which
<1>3. call \in {"read_block", "read_blocks_stop", "write_blocks_stop", "all_send_cid", "select"}
  BY <1>1, NeoSDAssumption
<1> QED BY <1>1, <1>2, <1>3 DEF CommandsOf, Flow, Transfers

(* A transfer that has not begun stays so until its data phase.            *)
LEMMA FreshStep ==
  ASSUME NEW acc, NEW fits, Onward(acc, fits)
  PROVE  Fresh'
<1>0. IInv /\ IInv' /\ DataInv /\ DataStep(acc, fits) /\ DriverStep(acc) /\ ControllerInv
      /\ Stepping(acc, fits)
  BY DEF Onward, IInv, DataStep
<1>1. CASE Starting
  <2>1. buf = <<>> /\ sent = 0 /\ blocks = 0 /\ blocks' = blocks
    BY <1>0, <1>1 DEF DataInv, Fresh, DriverStep
  <2>2. "DAT_DATA" \notin ctrl /\ call # "reset"
    BY <1>0, <1>1, Talking, NeoSDAssumption DEF Clean, Starting
  <2>3. buf' = buf /\ sent' = sent
    BY <1>0, <2>2 DEF DriverStep, Sd!Reads, Sd!Writes
  <2> QED BY <2>1, <2>3 DEF Fresh
<1>2. CASE ~Starting
  <2> SUFFICES ASSUME command'.idx \in Flow, dat'.state = "IDLE"
               PROVE  buf' = <<>> /\ sent' = 0 /\ blocks' = 0
    BY <1>0, <1>2 DEF DriverStep, Fresh
  <2>1. ~Sd!Writes(acc, "CMD")
    BY <1>0, <1>2 DEF DriverStep, Commanding, Flow
  <2>2. command.idx \in Flow
    BY <1>0, <2>1, SameCommand
  <2>3. dat.state = "IDLE"
    BY <1>0, <2>2, FlowStays
  <2>4. buf = <<>> /\ sent = 0 /\ blocks = 0
    BY <1>0, <2>2, <2>3 DEF DataInv, Fresh
  <2>5. ~Asked /\ call # "reset" /\ call \in Transfers
    BY <1>0, <2>2, <2>3, AskedWhere, FlowOf
  <2>6. buf' = buf /\ sent' = sent
    BY <2>5, NoWord
  <2>7. "BLK_DONE" \notin ctrl
    BY <1>0, <2>2, <2>3, FlagsUp
  <2>8. blocks' = blocks
    BY <1>0, <1>2, <2>5, <2>7 DEF DriverStep
  <2> QED BY <2>4, <2>6, <2>8
<1> QED BY <1>1, <1>2

(* What is read is only added to.                                          *)
LEMMA BufferGrows ==
  ASSUME NEW acc, NEW fits, Onward(acc, fits)
  PROVE  /\ Len(buf) \in Nat /\ Len(buf') \in Nat /\ Len(buf) <= Len(buf')
         /\ buf \in Seq(Nat) /\ buf' \in Seq(Nat)
<1>1. DriverStep(acc) /\ DriverTypes /\ DriverTypes'
  BY DEF Onward, IInv, DriverInv
<1>2. buf \in Seq(Nat) /\ buf' \in Seq(Nat)
  BY <1>1 DEF DriverTypes
<1>3. buf' = Append(buf, dat_reg.last) \/ buf' = buf
  BY <1>1 DEF DriverStep
<1>4. Len(Append(buf, dat_reg.last)) = Len(buf) + 1
  BY <1>2
<1> QED BY <1>2, <1>3, <1>4

(* A transfer is stopped when all its words have been exchanged.           *)
LEMMA OverStep ==
  ASSUME NEW acc, NEW fits, Onward(acc, fits)
  PROVE  Over'
<1>0. IInv /\ IInv' /\ DataInv /\ DataStep(acc, fits) /\ DriverStep(acc) /\ ControllerInv
      /\ Stepping(acc, fits) /\ Wired
  BY DEF Onward, IInv, DataStep
<1> SUFFICES ASSUME command'.idx = "STOP", call' # "none", ~Starting'
             PROVE  /\ call' = "read_blocks_stop" => Len(buf') >= Words * Blocks
                    /\ call' = "write_blocks_stop" => sent' = Words * Blocks
  BY DEF Over
<1>1. call' = call
  <2>1. call' # "reset"
    BY <1>0, After
  <2> QED BY <1>0, <2>1 DEF DriverStep
<1>2. /\ Len(buf) \in Nat /\ Len(buf') \in Nat /\ Len(buf) <= Len(buf')
      /\ sent \in 0 .. Words * Blocks /\ Words * Blocks \in Nat
      /\ blocks \in Nat /\ Uncounted \in Nat
  BY <1>0, BufferGrows, Talking, PartsAre, Rounds, Constants
<1>3. CASE Sd!Writes(acc, "CMD")
  <2>1. ~Starting /\ ~Active /\ call \in {"read_blocks_stop", "write_blocks_stop"}
        /\ command.idx \in Flow /\ blocks >= Blocks /\ dat.state # "IDLE"
    BY <1>0, <1>3 DEF DriverStep, Commanding
  <2>2. Moving
    BY <1>0, <2>1 DEF ControllerInv, FlowInv
  <2>3. dat.state \in ReadStates \cup WriteStates
    BY <1>0, <2>2, CardTransfers
  <2>4. sent' = sent
    BY <1>0, <1>3 DEF DriverStep, Sd!Writes
  <2>5. ASSUME NEW total \in Nat, NEW part \in Nat, Exchanged(total, part)
        PROVE  total >= Words * Blocks
    <3>1. PICK q \in 0 .. total : total = Words * q + part /\ blocks + Uncounted <= q
      BY <2>5 DEF Exchanged
    <3>2. q \in Nat /\ Blocks <= q
      BY <1>2, <2>1, <3>1, Constants
    <3>3. Words * Blocks <= Words * q /\ Words * q \in Nat
      BY <3>2, Rounds
    <3> DEFINE u == Words * q
               v == Words * Blocks
    <3> HIDE DEF u, v
    <3>4. total = u + part /\ v <= u /\ u \in Nat /\ v \in Nat
      BY <1>2, <3>1, <3>3 DEF u, v
    <3>5. total >= v
      BY <3>4
    <3> QED BY <3>5 DEF v
  <2>6. CASE dat.state \in ReadStates
    <3>1. call \in Reading /\ (Len(buf) < MaxBuf => Exchanged(Len(buf), Due))
      BY <1>0, <2>6 DEF DataInv, DataFlow
    <3>2. Due \in Nat
      BY <1>0, <2>6, PartsAre, Constants
    <3>3. Len(buf) < MaxBuf => Len(buf) >= Words * Blocks
      BY <1>2, <2>5, <3>1, <3>2
    <3>4. Len(buf) >= Words * Blocks
      <4> DEFINE v == Words * Blocks
      <4>1. v \in Nat /\ MaxBuf = v + 1 /\ (Len(buf) < MaxBuf => Len(buf) >= v)
        BY <1>2, <3>3 DEF MaxBuf
      <4> HIDE DEF v
      <4>2. Len(buf) >= v
        BY <1>2, <4>1
      <4> QED BY <4>2 DEF v
    <3> QED BY <1>1, <1>2, <3>1, <3>4 DEF Reading
  <2>7. CASE dat.state \in WriteStates
    <3>1. call = "write_blocks_stop" /\ Exchanged(sent, Given)
      BY <1>0, <2>7 DEF DataInv, DataFlow
    <3>2. Given \in Nat
      BY <1>0, <2>7, PartsAre, Constants
    <3>3. sent >= Words * Blocks
      BY <1>2, <2>5, <3>1, <3>2
    <3> DEFINE v == Words * Blocks
    <3>4. v \in Nat /\ sent \in 0 .. v /\ sent >= v
      BY <1>2, <3>3
    <3> HIDE DEF v
    <3>5. sent = v
      BY <3>4
    <3> QED BY <1>1, <2>4, <3>1, <3>5 DEF v
  <2> QED BY <2>3, <2>6, <2>7
<1>4. CASE ~Sd!Writes(acc, "CMD")
  <2>1. command.idx = "STOP"
    BY <1>0, <1>4, SameCommand
  <2>2. ~Starting
    BY <1>0, <1>4 DEF DriverStep
  <2>3. sent' = sent
    BY <1>0, <2>1 DEF DriverStep, Flow
  <2>4. /\ call = "read_blocks_stop" => Len(buf) >= Words * Blocks
        /\ call = "write_blocks_stop" => sent = Words * Blocks
    BY <1>0, <1>1, <2>1, <2>2 DEF DataInv, Over
  <2> DEFINE v == Words * Blocks
  <2>5. v \in Nat /\ (call = "read_blocks_stop" => Len(buf) >= v)
    BY <1>2, <2>4
  <2> HIDE DEF v
  <2>6. call = "read_blocks_stop" => Len(buf') >= v
    BY <1>2, <2>5
  <2> QED BY <1>1, <2>3, <2>4, <2>6 DEF v
<1> QED BY <1>3, <1>4

(* A card that a block is read from keeps its mind.                        *)
LEMMA SameMulti ==
  ASSUME NEW acc, NEW fits, DataStep(acc, fits), dat.state \notin WriteStates, ~cmd.oe
  PROVE  multi' = multi
<1>1. Stepping(acc, fits) /\ Lined(dat) /\ ~EarlyData
      /\ task \notin {"receive", "turn", "token", "programs"}
  BY DEF DataStep, Wired, WriteTask
<1> QED BY <1>1, OtherTasks

(* Before and after the one block of a read the controller waits, and the  *)
(* card does not begin another.                                            *)
LEMMA WaitStays ==
  ASSUME NEW acc, NEW fits, Onward(acc, fits), dat.state = "WAIT_BLOCK", ~multi
  PROVE  /\ ~Sd!Reads(acc, "DATA") /\ ~multi'
         /\ dat'.state \in ReadStates \ {"WAIT_BLOCK"} => ~BlockOver
         /\ dat'.state = "WAIT_BLOCK" => (BlockOver' <=> BlockOver)
<1>0. /\ DataStep(acc, fits) /\ Stepping(acc, fits) /\ Lined(dat) /\ ControllerInv /\ ReadLine
      /\ Types /\ task \in Tasks /\ n \in Nat /\ Wired
  BY DEF Onward, DataStep, Wired, Stepping, ControllerInv, Types
<1>1. /\ CrcBits \in Nat \ {0} /\ Sd!BlockBits \in Nat \ {0}
  BY Constants
<1> DEFINE B == Sd!BlockBits + CrcBits
<1>2. B \in Nat /\ B > Sd!BlockBits /\ B > 0
  BY <1>1
<1>3. task \in {"answer", "delay", "send", "idle"} /\ Moving /\ dat.state \notin WriteStates
  BY <1>0 DEF ReadLine, Moving, Busy, WriteStates
<1>4. ~cmd.oe /\ (Sd!sd_clk_en \/ task = "answer")
  BY <1>0, <1>3, ClockOn
<1>5. ~multi'
  BY <1>0, <1>3, <1>4, SameMulti
<1>6. ~Sd!Reads(acc, "DATA")
  <2>1. Asked => Sd!status_data_dat
    BY <1>0, <1>3, AskedWhere
  <2>2. ~Asked
    BY <2>1 DEF Sd!status_data_dat
  <2>3. call # "reset"
    <3>1. IInv
      BY DEF Onward
    <3> QED BY <3>1, Talking
  <2> QED BY <2>2, <2>3, NoWord
<1>7. CASE clkstrb
  <2>1. DataGoes /\ Strobe /\ Fallen
    BY <1>0, <1>3, <1>7, LinesStep DEF Fallen
  <2>2. BlockOver' <=> BlockOver
    BY <2>1 DEF Strobe, CardStill, BlockOver, Sd!BlockBits
  <2>3. ASSUME dat'.state \in ReadStates \ {"WAIT_BLOCK"} PROVE ~BlockOver
    <3>1. Sd!sd_clk_en /\ Card!low
      BY <2>1, <2>3 DEF DataGoes, ReadGoes, Becomes, ReadStates, WriteStates
    <3>2. task = "send" /\ n <= B
      BY <1>3, <3>1 DEF Card!low, Sd!BlockBits
    <3>3. n = 0
      BY <1>0, <1>2, <2>1, <3>2 DEF ReadLine
    <3> QED BY <1>2, <3>2, <3>3 DEF BlockOver
  <2> QED BY <1>5, <1>6, <2>2, <2>3
<1>8. CASE ~clkstrb
  <2>1. dat' = dat /\ (Stays \/ Rises \/ Falls)
    BY <1>0, <1>3, <1>8, LinesStep
  <2>2. CASE task' = task /\ n' = n
    BY <1>5, <1>6, <2>1, <2>2 DEF BlockOver, Sd!BlockBits
  <2>3. CASE Card!Move
    <3>1. task = "send" => n >= B
      BY <1>0, <1>2, <1>8 DEF ReadLine, Fallen
    <3>2. BlockOver' <=> BlockOver
      <4>1. CASE task = "send"
        <5>1. BlockOver /\ n \in Nat
          BY <1>0, <3>1, <4>1 DEF BlockOver
        <5>2. \/ task' = "send" /\ n' = n + 1
              \/ task' = "idle"
          BY <1>0, <2>3, <4>1, LinesMove
        <5>3. BlockOver'
          BY <1>0, <1>2, <3>1, <4>1, <5>2 DEF BlockOver, Sd!BlockBits
        <5> QED BY <5>1, <5>3
      <4>2. CASE task \in {"answer", "delay"}
        <5>1. task' \in {"answer", "delay"} \/ (task' = "send" /\ n' = 0)
          BY <1>0, <2>3, <4>2, LinesMove
        <5> QED BY <1>2, <4>2, <5>1 DEF BlockOver, Sd!BlockBits
      <4>3. CASE task = "idle"
        <5>1. task' = "idle"
          BY <1>0, <2>3, <4>3, LinesMove
        <5> QED BY <4>3, <5>1 DEF BlockOver
      <4> QED BY <1>3, <4>1, <4>2, <4>3
    <3> QED BY <1>5, <1>6, <2>1, <3>2
  <2>4. Rises => task' = task /\ n' = n
    BY <1>0, <1>3, LinesTaken DEF Rises, CardStill
  <2> QED BY <2>1, <2>2, <2>3, <2>4 DEF Stays, Falls, CardStill
<1> QED BY <1>7, <1>8

(* The words of the one block fit into the buffer.                         *)
LEMMA OneBlockFits == Words \in Nat \ {0} /\ MaxBuf \in Nat /\ Words < MaxBuf
<1> DEFINE v == Words * Blocks
<1>1. v \in Nat /\ Words <= v /\ MaxBuf = v + 1 /\ Words \in Nat \ {0}
  BY Rounds, Constants DEF MaxBuf
<1> HIDE DEF v
<1> QED BY <1>1

(* The words of the one block that are read.                               *)
OneBlock ==
  /\ dat.state \in ReadStates => ~multi
  /\ dat.state = "WAIT_BLOCK" => Len(buf) = (IF BlockOver THEN Words ELSE 0)
  /\ dat.state \in ReadStates \ {"WAIT_BLOCK"} => Len(buf) = Due

(* A step of the function keeps them in step with the controller.          *)
LEMMA OneBlockStep ==
  ASSUME NEW acc, NEW fits, Onward(acc, fits), call' = "read_block", call = "read_block"
  PROVE  OneBlock'
<1>0. /\ IInv /\ DataInv /\ DataStep(acc, fits) /\ Stepping(acc, fits) /\ Lined(dat)
           /\ ControllerInv
      /\ ReadLine /\ DriverStep(acc) /\ task \in Tasks /\ n \in Nat /\ Prepared
  BY DEF Onward, DataStep, Wired, Stepping, ControllerInv, Types
<1> SUFFICES ASSUME dat'.state \in ReadStates PROVE OneBlock'
  BY DEF OneBlock, ReadStates
<1>1. /\ ~Starting
      /\ dat.state \in ReadStates \/ (Begins /\ dat'.state = "WAIT_BLOCK")
  BY Phased
<1>2. /\ Len(buf) \in Nat /\ buf \in Seq(Nat) /\ Words \in Nat \ {0} /\ Words < MaxBuf
      /\ MaxBuf \in Nat
  BY BufferGrows, OneBlockFits
<1>3. CASE dat.state \in ReadStates
  <2>1. OneBlock
    <3>1. Single
      BY <1>0 DEF DataInv
    <3>2. ~Starting
      BY <1>1
    <3> QED BY <3>1, <3>2, Zenon DEF Single, OneBlock
  <2>2. dat.state \notin WriteStates /\ Moving
    BY <1>3 DEF ReadStates, WriteStates, Moving, Busy
  <2>3. ~multi'
    <3>1. ~cmd.oe
      BY <1>0, <2>2, ClockOn
    <3> QED BY <1>0, <1>3, <2>1, <2>2, <3>1, SameMulti DEF OneBlock
  <2>4. Due \in 0 .. Words
    <3>1. Wired
      BY <1>0 DEF DataStep
    <3> QED BY <1>0, <1>3, <3>1, PartsAre
  <2>5. Len(buf') = Len(buf) + (IF Sd!Reads(acc, "DATA") THEN 1 ELSE 0)
    <3>1. Len(buf) < MaxBuf
      <4>1. Len(buf) <= Words
        BY <1>2, <1>3, <2>1, <2>4 DEF OneBlock
      <4> QED BY <1>2, <4>1
    <3>2. buf' = IF Sd!Reads(acc, "DATA") THEN Append(buf, dat_reg.last) ELSE buf
      BY <1>0, <3>1 DEF DriverStep, Reading
    <3>3. Len(Append(buf, dat_reg.last)) = Len(buf) + 1
      BY <1>2
    <3> QED BY <1>2, <3>2, <3>3
  <2>6. CASE dat.state = "WAIT_BLOCK"
    <3>1. ~multi
      BY <1>3, <2>1 DEF OneBlock
    <3>2. /\ ~Sd!Reads(acc, "DATA")
          /\ dat'.state \in ReadStates \ {"WAIT_BLOCK"} => ~BlockOver
          /\ dat'.state = "WAIT_BLOCK" => (BlockOver' <=> BlockOver)
      BY <2>6, <3>1, WaitStays
    <3>3. Len(buf') = Len(buf)
      BY <1>2, <2>5, <3>2
    <3>4. Due = 0
      BY <2>6 DEF Due
    <3>5. dat'.state # "WAIT_BLOCK" => Due' = 0
      BY <1>0, <1>3, <2>4, <2>6, <3>2, <3>4, DueMoves
    <3> QED BY <1>2, <2>1, <2>3, <2>6, <3>2, <3>3, <3>5 DEF OneBlock
  <2>7. CASE dat.state # "WAIT_BLOCK"
    <3>1. Len(buf) = Due
      BY <1>3, <2>1, <2>7 DEF OneBlock
    <3>2. CASE dat'.state # "WAIT_BLOCK"
      <4>1. Due' = Due + (IF Sd!Reads(acc, "DATA") THEN 1 ELSE 0)
        BY <1>0, <1>3, <3>2, DueMoves
      <4> QED BY <2>3, <2>5, <3>1, <3>2, <4>1 DEF OneBlock
    <3>3. CASE dat'.state = "WAIT_BLOCK"
      <4>1. clkstrb
        BY <1>0, <2>7, <3>3, LinesStep
      <4>2. dat.state = "READ_FINISH" /\ Strobe
        BY <1>0, <1>3, <2>2, <2>7, <3>3, <4>1, LinesStep
        DEF DataGoes, ReadGoes, Becomes, ReadStates, WriteStates
      <4>3. BlockOver'
        <5>1. task = "send" /\ n = Sd!BlockBits + CrcBits
          BY <1>0, <4>2 DEF ReadLine, ReadStates
        <5>2. task' = "send" /\ n' = Sd!BlockBits + CrcBits
          BY <4>2, <5>1 DEF Strobe, CardStill
        <5> QED BY <5>2, Constants DEF BlockOver
      <4>4. ~Sd!Reads(acc, "DATA") /\ Due = Words
        <5>1. Due = Words
          BY <4>2 DEF Due
        <5>2. Sd!Reads(acc, "DATA") => dat.state = "REGOUT"
          BY <1>0, <1>3, DueMoves
        <5> QED BY <4>2, <5>1, <5>2
      <4> QED BY <1>2, <2>3, <2>5, <3>1, <3>3, <4>3, <4>4 DEF OneBlock
    <3> QED BY <3>2, <3>3
  <2> QED BY <2>6, <2>7
<1>4. CASE Begins /\ dat'.state = "WAIT_BLOCK"
  <2>1. buf' = <<>>
    BY <1>4, NoWord DEF Begins
  <2>2. command.dmode = "R" /\ command.idx = "READ" /\ cmd.state = "WAIT_RESP"
    <3>1. clkstrb /\ dat.state = "IDLE" /\ cmd.start_dat /\ command.idx \in Flow
      BY <1>4 DEF Begins
    <3>2. command.dmode = "R"
      BY <1>0, <1>4, <3>1, LinesStep DEF DataGoes, ReadStates, WriteStates
    <3>3. cmd.state = "WAIT_RESP"
      BY <1>0, <3>1, <3>2 DEF ControllerInv, CmdShape
    <3>4. command.idx = "READ"
      BY <1>0, <3>1, FlowOf DEF Flow
    <3> QED BY <3>2, <3>3, <3>4
  <2>3. ~multi
    BY <1>0, <2>2 DEF Prepared, Received
  <2>4. ~multi'
    <3>1. ~cmd.oe
      BY <1>0, <2>2 DEF ControllerInv, CmdShape
    <3>2. dat.state \notin WriteStates
      BY <1>4 DEF Begins, WriteStates
    <3> QED BY <1>0, <2>3, <3>1, <3>2, SameMulti
  <2>5. ~BlockOver'
    <3>1. task = "answer"
      BY <1>0, <2>2 DEF ControllerInv, Answered, Sent
    <3>2. task' = "answer"
      <4>1. clkstrb
        BY <1>4 DEF Begins
      <4> QED BY <1>0, <3>1, <4>1, Phases
          DEF Stepping, ControllerInv, Between, RisesNow, RisesNot, FallsNow, FallsNot, Strobed
    <3> QED BY <3>2 DEF BlockOver
  <2> QED BY <1>4, <2>1, <2>4, <2>5 DEF OneBlock
<1> QED BY <1>1, <1>3, <1>4

(* The block of a single read is there, and the controller is no longer    *)
(* asked for anything.                                                     *)
BlockTaken ==
  /\ Len(buf) = Words /\ Len(resp) = 2
  /\ dat.state \in {"WAIT_BLOCK", "TAIL", "IDLE"}
  /\ dat.state = "WAIT_BLOCK" => BlockOver
  /\ "DAT_DATA" \notin ctrl /\ ~Sd!Rose("data_dat")

(* It stays so.                                                            *)
LEMMA TakenStays ==
  ASSUME NEW acc, NEW fits, Onward(acc, fits), BlockTaken, call = "read_block",
         dat.state = "WAIT_BLOCK" => ~multi,
         command.idx = "none" \/ dat.state = "WAIT_BLOCK",
         command'.idx = "none", ~Sd!Reads(acc, "RESP")
  PROVE  BlockTaken'
<1>0. /\ IInv /\ IInv' /\ DataInv /\ DataStep(acc, fits) /\ Stepping(acc, fits) /\ ControllerInv
      /\ DriverStep(acc) /\ ControllerInv'
  BY DEF Onward, DataStep, IInv
<1>1. ~Asked
  BY DEF BlockTaken, Asked
<1>2. buf' = buf /\ resp' = resp
  BY <1>0, <1>1, NoWord DEF DriverStep
<1>3. dat'.state # "WAIT_BUSY" /\ dat'.state \in DatStates
  BY <1>0 DEF ControllerInv, AbortInv, DatShape, Shaped, DatRecord
<1>4. dat.state = "IDLE" /\ command.dmode \in {"R", "W"} => ~cmd.start_dat
  BY <1>0, PhaseOf DEF Flow
<1>5. dat'.state \in {"WAIT_BLOCK", "TAIL", "IDLE"}
      /\ (dat'.state = "WAIT_BLOCK" => dat.state = "WAIT_BLOCK")
  <2>1. CASE ~clkstrb
    BY <1>0, <2>1, LinesStep DEF BlockTaken
  <2>2. CASE clkstrb
    <3>1. DataGoes
      BY <1>0, <2>2, LinesStep
    <3>2. dat'.state \in ReadStates \ {"WAIT_BLOCK"} => dat.state # "WAIT_BLOCK"
      BY WaitStays DEF BlockTaken
    <3>3. dat.state \notin WriteStates /\ dat.state \notin ReadStates \ {"WAIT_BLOCK"}
      BY DEF BlockTaken, ReadStates, WriteStates
    <3>4. dat'.state \notin ReadStates \cup WriteStates =>
            dat'.state \in {"TAIL", "IDLE"}
      BY <1>3 DEF DatStates, ReadStates, WriteStates
    <3>5. ReadGoes(dat, dat', Card!low) => dat'.state \in ReadStates
      BY DEF ReadGoes, Becomes, ReadStates
    <3>6. "WAIT_BLOCK" \in ReadStates
      BY DEF ReadStates
    <3> QED BY <1>4, <3>1, <3>2, <3>3, <3>4, <3>5, <3>6 DEF DataGoes
  <2> QED BY <2>1, <2>2
<1>6. dat'.state = "WAIT_BLOCK" => BlockOver'
  BY <1>5, WaitStays DEF BlockTaken
<1>7. "DAT_DATA" \notin ctrl' /\ ~Sd!Rose("data_dat")'
  <2>1. ~Sd!status_data_dat'
    BY <1>5 DEF Sd!status_data_dat
  <2> QED BY <1>0, <1>1, <2>1, AskedMoves
<1> QED BY <1>2, <1>5, <1>6, <1>7 DEF BlockTaken

(* A single read is broken off when its block is there.                    *)
LEMMA BreaksAfterBlock ==
  ASSUME NEW acc, NEW fits, Onward(acc, fits), call = "read_block", ~Starting, ~Active,
         command.idx = "READ", blocks > 0
  PROVE  BlockTaken /\ dat.state = "WAIT_BLOCK" /\ ~multi
<1>0. /\ IInv /\ DataInv /\ DataStep(acc, fits) /\ ControllerInv /\ DriverStep(acc) /\ Wired
  BY DEF Onward, DataStep, IInv
<1>1. command.idx \in Flow
  BY DEF Flow
<1>2. dat.state # "IDLE"
  <2>1. dat.state = "IDLE" => blocks = 0
    BY <1>0, <1>1 DEF DataInv, Fresh
  <2> QED BY <2>1
<1>3. Moving
  BY <1>0, <1>1, <1>2 DEF ControllerInv, FlowInv
<1>4. dat.state \in ReadStates
  <2>1. dat.state \in ReadStates \cup WriteStates
    BY <1>0, <1>3, CardTransfers
  <2>2. dat.state \notin WriteStates
    BY <1>0 DEF DataInv, DataFlow
  <2> QED BY <2>1, <2>2
<1>5. OneBlock
  <2>1. Single
    BY <1>0 DEF DataInv
  <2> QED BY <2>1, Zenon DEF Single, OneBlock
<1>6. Words \in Nat \ {0} /\ MaxBuf \in Nat /\ Words < MaxBuf /\ Len(buf) \in Nat
      /\ Due \in 0 .. Words /\ blocks \in Nat /\ Uncounted \in Nat
  BY <1>0, <1>4, OneBlockFits, BufferGrows, PartsAre, Talking
<1>7. Len(buf) <= Words
  BY <1>4, <1>5, <1>6 DEF OneBlock
<1>8. Exchanged(Len(buf), Due)
  BY <1>0, <1>4, <1>6, <1>7 DEF DataInv, DataFlow
<1>9. Len(buf) = Words /\ Due = 0
  <2>1. PICK q \in 0 .. Len(buf) : Len(buf) = Words * q + Due /\ blocks + Uncounted <= q
    BY <1>8 DEF Exchanged
  <2>2. q \in Nat /\ q > 0
    BY <1>6, <2>1
  <2>3. Words <= Words * q /\ Words * q \in Nat
    BY <2>2, Rounds
  <2> DEFINE u == Words * q
  <2>4. Len(buf) = u + Due /\ Words <= u /\ u \in Nat
    BY <2>1, <2>3
  <2> HIDE DEF u
  <2> QED BY <1>6, <1>7, <2>4
<1>10. dat.state = "WAIT_BLOCK"
  BY <1>4, <1>5, <1>6, <1>9 DEF OneBlock
<1>11. BlockOver
  BY <1>4, <1>5, <1>6, <1>9, <1>10 DEF OneBlock
<1>12. ~Asked
  BY <1>0, <1>3, <1>10, AskedWhere DEF Sd!status_data_dat
<1>13. Len(resp) = 2
  <2>1. During(call, loop, todo, irq, blocks)
    BY <1>0, Talking
  <2> QED BY <1>1, <2>1 DEF During, RespInv
<1> QED BY <1>4, <1>5, <1>9, <1>10, <1>11, <1>12, <1>13 DEF BlockTaken, Asked, OneBlock

(* A single read ends with its block taken.                                *)
LEMMA SingleStep ==
  ASSUME NEW acc, NEW fits, Onward(acc, fits)
  PROVE  Single'
<1>0. /\ IInv /\ IInv' /\ DataInv /\ DataStep(acc, fits) /\ ControllerInv /\ DriverStep(acc)
      /\ Stepping(acc, fits) /\ Single
  BY DEF Onward, DataStep, IInv, DataInv
<1> SUFFICES ASSUME call' = "read_block", ~Starting'
             PROVE  OneBlock' /\ (command'.idx = "none" => BlockTaken')
  BY Zenon DEF Single, OneBlock, BlockTaken
<1>1. call = "read_block"
  BY <1>0 DEF DriverStep
<1>2. OneBlock'
  BY <1>1, OneBlockStep
<1>3. ASSUME command'.idx = "none" PROVE BlockTaken'
  <2>1. ~Starting
    BY <1>0, <1>3 DEF DriverStep, Commanding
  <2>2. command.idx = "none" => BlockTaken
    BY <1>0, <1>1, <2>1, Zenon DEF Single, BlockTaken
  <2>3. dat.state = "WAIT_BLOCK" => ~multi
    BY <1>0, <1>1, <2>1 DEF Single, ReadStates
  <2>4. CASE command.idx = "none"
    <3>1. ~Sd!Reads(acc, "RESP")
      <4>1. cmd.state # "REGOUT"
        BY <1>0, <2>4 DEF ControllerInv, AbortInv
      <4>2. "CMD_RESP" \notin ctrl
        BY <1>0, <4>1 DEF ControllerInv, FlagsInv
      <4> QED BY <1>0, <1>1, <4>2 DEF DriverStep
    <3> QED BY <1>1, <1>3, <2>2, <2>3, <2>4, <3>1, TakenStays
  <2>5. CASE command.idx # "none"
    <3>1. Sd!Writes(acc, "CMD")
      BY <1>0, <1>3, <2>5, SameCommand
    <3>2. ~Active /\ blocks > 0
      BY <1>0, <1>3, <2>1, <3>1 DEF DriverStep, Commanding
    <3>3. command.idx = "READ"
      <4>1. During(call, loop, todo, irq, blocks)
        BY <1>0, <1>1, <2>1, Talking
      <4> QED BY <1>1, <2>5, <4>1 DEF During, Which, CommandsOf
    <3>4. BlockTaken /\ dat.state = "WAIT_BLOCK" /\ ~multi
      BY <1>1, <2>1, <3>2, <3>3, BreaksAfterBlock
    <3>5. ~Sd!Reads(acc, "RESP")
      BY <3>1 DEF Sd!Reads, Sd!Writes
    <3> QED BY <1>1, <1>3, <3>4, <3>5, TakenStays
  <2> QED BY <2>4, <2>5
<1> QED BY <1>2, <1>3

(* The words read are those of the blocks.                                 *)
LEMMA WordsReadStep ==
  ASSUME NEW acc, NEW fits, Onward(acc, fits)
  PROVE  WordsRead'
<1>0. /\ IInv /\ DataInv /\ DataStep(acc, fits) /\ ControllerInv /\ DriverStep(acc) /\ Wired
      /\ ReadLine /\ WordsRead
  BY DEF Onward, DataStep, IInv, DataInv, Wired
<1>1. buf \in Seq(Nat) /\ Len(buf) \in Nat
  BY BufferGrows
<1>2. CASE buf' = buf
  BY <1>0, <1>2 DEF WordsRead
<1>3. ASSUME Sd!Reads(acc, "DATA"), call \in Reading, Len(buf) < MaxBuf,
             buf' = Append(buf, dat_reg.last), Len(buf) + 1 <= Words * Blocks
      PROVE  dat_reg.last = ((Len(buf) % Words) + 1) * WordBits
  <2>1. "DAT_DATA" \in ctrl
    BY <1>0, <1>3 DEF DriverStep, Sd!Reads, Reading
  <2>2. call # "none" /\ ~Starting
    BY <1>0, <1>3, <2>1, Talking DEF Reading, Clean
  <2>3. command.idx \in CommandsOf(call)
    BY <1>0, <2>2, Talking DEF During, Which
  <2>4. command.idx # "STOP"
    <3> SUFFICES ASSUME command.idx = "STOP" PROVE FALSE
      OBVIOUS
    <3>1. call = "read_blocks_stop"
      BY <1>3, <2>3 DEF CommandsOf, Reading
    <3>2. Len(buf) >= Words * Blocks
      BY <1>0, <2>2, <3>1 DEF DataInv, Over
    <3> DEFINE v == Words * Blocks
    <3>3. v \in Nat /\ Len(buf) >= v /\ Len(buf) + 1 <= v
      BY <1>3, <3>2, Rounds, Constants
    <3> HIDE DEF v
    <3> QED BY <1>1, <3>3
  <2>5. command.idx # "none"
    <3> SUFFICES ASSUME command.idx = "none" PROVE FALSE
      OBVIOUS
    <3>1. call = "read_block"
      BY <1>3, <2>3 DEF CommandsOf, Reading
    <3> QED BY <1>0, <2>1, <2>2, <3>1 DEF DataInv, Single
  <2>6. command.idx \in Flow
    BY <1>3, <2>3, <2>4, <2>5 DEF CommandsOf, Reading, Flow
  <2>7. dat.state = "REGOUT"
    <3>1. dat.state \in {"REGOUT", "WRITE_REGIN"}
      BY <1>0, <2>1, <2>6, AskedInFlow
    <3>2. dat.state # "WRITE_REGIN"
      BY <1>0, <1>3 DEF DataInv, DataFlow, WriteStates, Reading
    <3> QED BY <3>1, <3>2
  <2>8. dat_reg.last = (Words - dat.word) * WordBits /\ Due = Words - dat.word - 1
        /\ dat.word \in 0 .. Words - 1 /\ Words \in Nat \ {0}
    BY <1>0, <2>1, <2>7, PartsAre, Constants DEF ReadLine, Through, Passed, Due, Asked
  <2>9. PICK q \in 0 .. Len(buf) : Len(buf) = Words * q + Due
    BY <1>0, <1>3, <2>7 DEF DataInv, DataFlow, Exchanged, ReadStates
  <2>10. q \in Nat /\ Due \in 0 .. Words - 1 /\ Due + 1 = Words - dat.word
    BY <1>1, <2>8, <2>9
  <2>11. Len(buf) % Words = Due
    BY <2>9, <2>10, Rounds
  <2> QED BY <2>8, <2>10, <2>11
<1>4. CASE Sd!Reads(acc, "DATA") /\ call \in Reading /\ Len(buf) < MaxBuf
           /\ buf' = Append(buf, dat_reg.last)
  <2> SUFFICES ASSUME NEW i \in 1 .. Len(buf'), i <= Words * Blocks
               PROVE  buf'[i] = (((i - 1) % Words) + 1) * WordBits
    BY DEF WordsRead
  <2>1. /\ Len(buf') = Len(buf) + 1
        /\ \A j \in 1 .. Len(buf) : buf'[j] = buf[j]
        /\ buf'[Len(buf) + 1] = dat_reg.last
    BY <1>1, <1>4
  <2>2. CASE i \in 1 .. Len(buf)
    BY <1>0, <2>1, <2>2 DEF WordsRead
  <2>3. CASE i = Len(buf) + 1
    <3>1. i - 1 = Len(buf)
      BY <1>1, <2>3
    <3>2. dat_reg.last = ((Len(buf) % Words) + 1) * WordBits
      BY <1>3, <1>4, <2>3
    <3>3. buf'[i] = dat_reg.last
      BY <2>1, <2>3, Zenon
    <3>4. (((i - 1) % Words) + 1) * WordBits = ((Len(buf) % Words) + 1) * WordBits
      BY <3>1
    <3> QED BY <3>2, <3>3, <3>4
  <2> QED BY <1>1, <2>1, <2>2, <2>3
<1> QED BY <1>0, <1>2, <1>4 DEF DriverStep

(* Which of the accesses that a loop makes use the data register or give a *)
(* command.                                                                *)
LEMMA HandlesData ==
  ASSUME DriverTypes, call # "none", NEW o \in Ops(Handle)
  PROVE  /\ o = Read("DATA") /\ call # "reset" =>
              "DAT_DATA" \in Flags /\ (call = "write_blocks_stop" => loop = 2)
         /\ o = Write("DATA", Sd!NoCommand) =>
              "DAT_DATA" \in Flags /\ call = "write_blocks_stop" /\ loop = 1
         /\ call = "read_block" /\ o.adr = "CMD" => "BLK_DONE" \in Flags
<1> DEFINE r == Read("DATA")
           w == Write("DATA", Sd!NoCommand)
<1>1. /\ r # w /\ r # Read("CTRL") /\ r # Read("RESP") /\ w # Read("CTRL") /\ w # Read("RESP")
      /\ \A b : r # Clear(b) /\ w # Clear(b)
      /\ \A a, k : r # Write(a, k) /\ (a # "DATA" => w # Write(a, k))
      /\ r.adr = "DATA" /\ w.adr = "DATA" /\ Read("CTRL").adr = "CTRL" /\ Read("RESP").adr = "RESP"
      /\ \A b : Clear(b).adr = "CTRL"
  BY DEF Read, Write, Clear
<1>2. /\ o \in Ops(GetResponse) => o # r /\ o # w /\ o.adr # "CMD"
      /\ o \in Ops(GetData) => o = r /\ "DAT_DATA" \in Flags
      /\ o \in Ops(PutData) => o = w /\ "DAT_DATA" \in Flags
      /\ o \in Ops(EndData) => o # r /\ o # w /\ o.adr # "CMD"
  BY <1>1, Pieces DEF On
<1> HIDE DEF r, w
<1>3. CASE call = "read_block"
  <2>1. Handle = ReadBlockLoop
    BY <1>3 DEF Handle, Limited
  <2>2. \/ o \in Ops(GetResponse) \cup Ops(GetData) \cup Ops(EndData)
        \/ /\ o \in {Read("CTRL"), Clear({"BLK_DONE"}), Write("CMD", AbortCommand)}
           /\ "BLK_DONE" \in Flags
    BY <2>1, ReadBlockPlan DEF On
  <2> QED BY <1>1, <1>2, <1>3, <2>2 DEF r, w
<1>4. CASE call = "read_blocks_stop" /\ loop = 1
  <2>1. Handle = ReadBlocksLoop
    BY <1>4 DEF Handle, Limited
  <2>2. \/ o \in Ops(GetResponse) \cup Ops(GetData) \cup Ops(EndData)
        \/ o \in {Read("CTRL"), Clear({"BLK_DONE", "CRCERR"})} \cup StopOps("NONE")
    BY <2>1, BlocksPlans DEF On
  <2> QED BY <1>1, <1>2, <1>4, <2>2 DEF r, w, StopOps
<1>5. CASE call = "write_blocks_stop" /\ loop = 1
  <2>1. Handle = WriteBlocksLoop
    BY <1>5 DEF Handle, Limited
  <2>2. \/ o \in Ops(GetResponse) \cup Ops(PutData) \cup Ops(EndData)
        \/ o \in {Read("CTRL"), Clear({"BLK_DONE", "CRCERR"})} \cup StopOps("BUSY")
    BY <2>1, BlocksPlans DEF On
  <2> QED BY <1>1, <1>2, <1>5, <2>2 DEF r, w, StopOps
<1>6. CASE call \in {"read_blocks_stop", "write_blocks_stop"} /\ loop = 2
  <2>1. \/ Handle = GetResponse
        \/ \E bits \in {{"BLK_DONE"}, {"BLK_DONE", "CRCERR"}} : Handle = StopLoop(bits)
    BY <1>6 DEF Handle, Limited
  <2>2. \/ o \in Ops(GetResponse) \cup Ops(GetData) \cup Ops(EndData)
        \/ o = Read("CTRL") \/ \E b : o = Clear(b)
    BY <2>1, StopLoopPlan DEF On
  <2> QED BY <1>1, <1>2, <1>6, <2>2 DEF r, w
<1>7. CASE call \in Limited
  <2>1. Handle = GetResponse \/ Handle = TurnOff({"DAT_DONE"}) \/ Handle = <<>>
    <3>1. loop = 1 => Handle = GetResponse
      BY <1>7 DEF Handle, Limited
    <3>2. loop = 2 => call = "select"
      BY <1>7 DEF DriverTypes, Limited
    <3>3. call = "select" /\ loop = 2 => Handle = TurnOff({"DAT_DONE"}) \/ Handle = <<>>
      BY DEF Handle, Limited
    <3> QED BY <3>1, <3>2, <3>3 DEF DriverTypes
  <2>2. {"DAT_DONE"} \in Clears
    BY DEF Clears
  <2>3. o \in Ops(GetResponse) \/ o = Read("CTRL") \/ o = Clear({"DAT_DONE"})
    BY <2>1, <2>2, TurnOffPlan, ShortOps
  <2> QED BY <1>1, <1>2, <1>7, <2>3 DEF r, w, Limited
<1>8. CASE call = "reset"
  <2>1. Handle = ResetEnd \/ Handle = <<>>
    BY <1>8 DEF Handle, Limited
  <2>2. o \in {Read("RESP"), r, Read("CTRL")} \/ \E b : o = Clear(b)
    BY <2>1, ResetPlan, ShortOps DEF r
  <2>3. o # w
    BY <1>1, <2>2
  <2> QED BY <1>8, <2>3 DEF w
<1>9. call \in {"read_block", "read_blocks_stop", "write_blocks_stop", "reset"} \cup Limited
      /\ loop \in 1 .. 2
  BY NeoSDAssumption DEF DriverTypes, Limited
<1> QED BY <1>3, <1>4, <1>5, <1>6, <1>7, <1>8, <1>9

(* The accesses of the data register that are left are right.              *)
LEMMA DataOpsStep ==
  ASSUME NEW acc, NEW fits, Onward(acc, fits), todo # <<>>, acc = BusAccess(Head(todo)),
         Proceed(Head(todo)), Records(Head(todo))
  PROVE  DataOps'
<1> DEFINE o == Head(todo)
           r == Read("DATA")
           w == Write("DATA", Sd!NoCommand)
<1>0. /\ IInv /\ IInv' /\ DataInv /\ DataStep(acc, fits) /\ Stepping(acc, fits) /\ DriverStep(acc)
      /\ DriverInv /\ DriverTypes /\ Types /\ DataOps
  BY DEF Onward, DataStep, Stepping, ControllerInv, IInv, DriverInv, DataInv
<1>1. /\ Ops(todo)' \subseteq Ops(Rest) \cup {Poll}
      /\ call' = call \/ call' = "none"
      /\ Rest # <<>> => call' = call /\ loop' = loop
      /\ o = Poll => todo = <<Poll>>
  BY <1>0, Follows
<1>2. /\ o \in Operations /\ Ops(todo) = {o} \cup Ops(Tail(todo)) /\ call # "none"
      /\ call \in Transfers \cup Limited \cup {"reset"}
  BY <1>0, Running DEF Transfers, Limited
<1>3. /\ r # w /\ r # Read("CTRL") /\ w # Read("CTRL") /\ r # Poll /\ w # Poll
      /\ Poll.adr # "CMD" /\ Poll.adr # "DATA"
  BY DEF Poll, Read, Write
<1>4. "DAT_DATA" \in ctrl /\ acc.adr # "DATA" => "DAT_DATA" \in ctrl'
  BY <1>0, AskedMoves DEF Asked
<1>5. acc.adr = "DATA" <=> o = r \/ o = w
  BY <1>2, DataAccess
<1>6. CASE Rest = <<>>
  <2>1. Ops(todo)' \subseteq {Poll}
    BY <1>1, <1>6, ShortOps
  <2> HIDE DEF r, w
  <2>2. /\ r \notin Ops(todo)' /\ w \notin Ops(todo)'
        /\ \A x \in Ops(todo)' : x.adr # "CMD"
    BY <1>3, <2>1
  <2>3. /\ Read("DATA") \notin Ops(todo)' /\ Write("DATA", Sd!NoCommand) \notin Ops(todo)'
    BY <2>2 DEF r, w
  <2> QED BY <2>2, <2>3 DEF DataOps
<1>7. CASE Rest # <<>> /\ o = Poll
  <2>1. Rest = Handle /\ todo = <<Poll>> /\ call' = call /\ loop' = loop
    BY <1>1, <1>7 DEF Rest
  <2>2. /\ "DAT_DATA" \in Flags <=> "DAT_DATA" \in ctrl
    BY <1>0, <2>1, Sees DEF Bits, Sd!CtrlBits
  <2>3. acc.adr # "DATA"
    BY <1>3, <1>5, <1>7
  <2>4. "BLK_DONE" \in Flags => blocks' > 0
    <3>1. blocks' = IF o = Poll /\ "BLK_DONE" \in Flags THEN blocks + 1 ELSE blocks
      BY <1>2, Recorded
    <3>2. blocks \in Nat
      BY <1>0 DEF DriverTypes
    <3> QED BY <1>7, <3>1, <3>2
  <2>5. ASSUME NEW x \in Ops(Handle)
        PROVE  /\ x = r /\ call # "reset" =>
                    "DAT_DATA" \in Flags /\ (call = "write_blocks_stop" => loop = 2)
               /\ x = w => "DAT_DATA" \in Flags /\ call = "write_blocks_stop" /\ loop = 1
               /\ call = "read_block" /\ x.adr = "CMD" => "BLK_DONE" \in Flags
    BY <1>0, <1>2, HandlesData
  <2>6. Ops(todo)' \subseteq Ops(Handle) \cup {Poll}
    BY <1>1, <2>1
  <2> HIDE DEF r, w
  <2>7. /\ r \in Ops(todo)' /\ call' # "reset" =>
             "DAT_DATA" \in ctrl' /\ (call' = "write_blocks_stop" => loop' = 2)
        /\ w \in Ops(todo)' => "DAT_DATA" \in ctrl' /\ call' = "write_blocks_stop" /\ loop' = 1
        /\ call' = "read_block" /\ (\E x \in Ops(todo)' : x.adr = "CMD") => blocks' > 0
    BY <1>3, <1>4, <2>1, <2>2, <2>3, <2>4, <2>5, <2>6
  <2> QED BY <2>7 DEF DataOps, r, w
<1>8. CASE Rest # <<>> /\ o # Poll
  <2>1. Rest = Tail(todo) /\ call' = call /\ loop' = loop
    BY <1>1, <1>8 DEF Rest
  <2>2. o # Read("CTRL") => o \notin Ops(todo)'
    <3>1. o # Read("CTRL") => o \notin Ops(Tail(todo))
      BY <1>0, RestOfPlan DEF DriverTypes
    <3> HIDE DEF o
    <3> QED BY <1>1, <1>2, <1>8, <2>1, <3>1
  <2>3. Ops(todo)' \subseteq Ops(todo) \cup {Poll}
    BY <1>1, <1>2, <2>1
  <2>4. o \in Ops(todo)
    BY <1>2
  <2>5. /\ r \in Ops(todo) /\ call # "reset" =>
             "DAT_DATA" \in ctrl /\ (call = "write_blocks_stop" => loop = 2)
        /\ w \in Ops(todo) => "DAT_DATA" \in ctrl /\ call = "write_blocks_stop" /\ loop = 1
    BY <1>0 DEF DataOps
  <2>6. ASSUME call' = "read_block", ~Starting', NEW x \in Ops(todo)', x.adr = "CMD"
        PROVE  blocks' > 0
    <3>1. x \in Ops(todo) /\ x \in Ops(Tail(todo)) \cup {Poll}
      BY <1>1, <1>3, <2>1, <2>3, <2>6
    <3>2. ~Starting
      <4> SUFFICES ASSUME Starting PROVE FALSE
        OBVIOUS
      <4>1. Sd!Writes(acc, "CMD")
        BY <1>0, <2>6 DEF DriverStep
      <4>2. Tail(todo) = <<Poll>>
        <5>1. o.adr = "CMD"
          BY <1>0, <1>2, <4>1, Effects DEF IInv, DriverInv
        <5>2. Write("CMDARG", Sd!NoCommand).adr = "CMDARG"
          BY Fields
        <5> QED BY <1>0, <5>1, <5>2, Shapes
      <4>3. x = Poll
        <5>1. Ops(Tail(todo)) = {Poll}
          BY <4>2, Waiting
        <5> QED BY <3>1, <5>1
      <4> QED BY <1>3, <2>6, <4>3
    <3>3. blocks > 0
      BY <1>0, <2>1, <2>6, <3>1, <3>2 DEF DataOps
    <3>4. blocks' = blocks \/ blocks' = blocks + 1
      BY <1>0, <2>1, <2>6, <3>2 DEF DriverStep, Transfers
    <3> QED BY <1>0, <3>3, <3>4 DEF DriverTypes
  <2> HIDE DEF r, w, o
  <2>7. /\ r \in Ops(todo)' /\ call' # "reset" =>
             "DAT_DATA" \in ctrl' /\ (call' = "write_blocks_stop" => loop' = 2)
        /\ w \in Ops(todo)' => "DAT_DATA" \in ctrl' /\ call' = "write_blocks_stop" /\ loop' = 1
    BY <1>3, <1>4, <1>5, <2>1, <2>2, <2>3, <2>4, <2>5
  <2> QED BY <2>6, <2>7 DEF DataOps, r, w
<1> QED BY <1>6, <1>7, <1>8

(* The driver waits, or gives up, and its next accesses are no others.     *)
LEMMA OpsWait ==
  ASSUME NEW fits, Onward(Sd!NoAccess, fits), UNCHANGED driverVars \/ TimeOut
  PROVE  DataOps'
<1>0. DataOps /\ Stepping(Sd!NoAccess, fits)
  BY DEF Onward, DataInv, DataStep
<1>1. CASE UNCHANGED driverVars
  <2>1. call' = call /\ loop' = loop /\ todo' = todo /\ blocks' = blocks
    BY <1>1 DEF driverVars
  <2>2. Ops(todo)' = Ops(todo) /\ (Starting' <=> Starting)
    BY <2>1 DEF Ops, Starting
  <2>3. "DAT_DATA" \in ctrl => "DAT_DATA" \in ctrl'
    BY <1>0, AskedMoves DEF Asked, Sd!NoAccess, Sd!Access
  <2> QED BY <1>0, <2>1, <2>2, <2>3 DEF DataOps
<1>2. CASE TimeOut
  <2>1. call' = "reset" /\ todo' = TurnOn({"RST"}) \o <<Poll>>
    BY <1>2 DEF TimeOut
  <2>2. Ops(todo)' = {Read("CTRL"), Set({"RST"}), Poll}
    BY <2>1, ResettingOps DEF Ops
  <2>3. /\ \A k : Write("DATA", k) # Read("CTRL") /\ Write("DATA", k) # Set({"RST"})
        /\ \A k : Write("DATA", k) # Poll
    BY DEF Write, Read, Set, Poll
  <2> QED BY <2>1, <2>2, <2>3 DEF DataOps
<1> QED BY <1>1, <1>2

(* All of it, for a step within a function.                                *)
LEMMA OnwardStep ==
  ASSUME NEW acc, NEW fits, IInv, IInv', DataInv, DataStep(acc, fits), DriverStep(acc),
         \/ acc = Sd!NoAccess /\ (UNCHANGED driverVars \/ TimeOut)
         \/ /\ todo # <<>> /\ acc = BusAccess(Head(todo))
            /\ Proceed(Head(todo)) /\ Records(Head(todo))
  PROVE  DataInv'
<1>1. Wired'
  BY WiredStep
<1>2. Onward(acc, fits)
  BY <1>1 DEF Onward
<1>3. DataFlow' /\ Fresh' /\ Over' /\ Single' /\ WordsRead'
  BY <1>2, DataFlowStep, FreshStep, OverStep, SingleStep, WordsReadStep
<1>4. DataOps'
  BY <1>2, OpsWait, DataOpsStep
<1> QED BY <1>1, <1>3, <1>4 DEF DataInv, Wired

(* A function begins with empty hands.                                     *)
LEMMA DataCalls ==
  ASSUME NEW c \in Calls, Call(c), IInv', Wired'
  PROVE  DataInv'
<1>1. /\ call' = c /\ loop' = 1 /\ todo' = Begin(c) \o <<Poll>>
      /\ buf' = <<>> /\ sent' = 0 /\ blocks' = 0
  BY DEF Call
<1>2. Starting'
  BY <1>1 DEF Starting
<1>3. dat'.state = "IDLE"
  BY <1>2, After
<1>4. DataFlow'
  BY <1>3 DEF DataFlow, ReadStates, WriteStates
<1>5. Fresh' /\ Over' /\ Single'
  BY <1>1, <1>2 DEF Fresh, Over, Single
<1>6. WordsRead'
  BY <1>1 DEF WordsRead
<1>7. DataOps'
  <2> DEFINE a == Write("CMDARG", Sd!NoCommand)
             w == Write("CMD", CommandOf(c))
  <2>1. c \in Transfers \cup Limited
    BY NeoSDAssumption DEF Transfers, Limited
  <2>2. Begin(c) \o <<Poll>> = <<a, w, Poll>> /\ Ops(<<a, w, Poll>>) = {a, w, Poll}
    BY <2>1, StartingPlans
  <2>3. Ops(todo)' = {a, w, Poll}
    BY <1>1, <2>2 DEF Ops
  <2>4. /\ Read("DATA") \notin {a, w, Poll} /\ Write("DATA", Sd!NoCommand) \notin {a, w, Poll}
    BY DEF Read, Write, Poll
  <2> QED BY <1>2, <2>3, <2>4 DEF DataOps
<1> QED BY <1>4, <1>5, <1>6, <1>7 DEF DataInv, Wired

(* One step keeps the invariant of the data lines.                         *)
LEMMA DataNext ==
  ASSUME IInv, IInv', DataInv, ~EarlyData, Next
  PROVE  DataInv'
<1>1. ASSUME NEW fits \in BOOLEAN, Edge(Sd!NoAccess, fits)
      PROVE  DataStep(Sd!NoAccess, fits)
  BY <1>1, DataStepping
<1>2. ASSUME NEW fits \in BOOLEAN, Edge(Sd!NoAccess, fits), UNCHANGED driverVars \/ TimeOut
      PROVE  DataInv'
  <2>1. DataStep(Sd!NoAccess, fits)
    BY <1>1, <1>2
  <2>2. DriverStep(Sd!NoAccess)
    BY <1>2, <2>1, WaitingMoves
  <2> QED BY <1>2, <2>1, <2>2, OnwardStep
<1>3. CASE Tick
  <2>1. PICK fits \in BOOLEAN : Edge(Sd!NoAccess, fits)
    BY <1>3, CycleIsEdge DEF Tick
  <2> QED BY <1>2, <1>3, <2>1 DEF Tick
<1>4. CASE TimeOut
  <2>1. PICK fits \in BOOLEAN : Edge(Sd!NoAccess, fits)
    BY <1>4, CycleIsEdge DEF TimeOut
  <2> QED BY <1>2, <1>4, <2>1
<1>5. CASE CardRests
  <2>1. Edge(Sd!NoAccess, FALSE) /\ UNCHANGED driverVars
    BY <1>5 DEF CardRests, Edge, driverVars
  <2> QED BY <1>2, <2>1
<1>6. ASSUME NEW c \in Calls, Call(c) PROVE DataInv'
  <2>1. PICK fits \in BOOLEAN : Edge(Sd!NoAccess, fits)
    BY <1>6, CycleIsEdge DEF Call
  <2>2. Wired'
    BY <1>1, <2>1, WiredStep
  <2> QED BY <1>6, <2>2, DataCalls
<1>7. CASE Program
  <2>1. /\ todo # <<>> /\ Proceed(Head(todo)) /\ Records(Head(todo)) /\ Cycle(BusAccess(Head(todo)))
    BY <1>7 DEF Program
  <2>2. PICK fits \in BOOLEAN : Edge(BusAccess(Head(todo)), fits)
    BY <2>1, CycleIsEdge
  <2>3. DataStep(BusAccess(Head(todo)), fits)
    BY <2>1, <2>2, DataStepping
  <2>4. DriverStep(BusAccess(Head(todo)))
    BY <2>1, <2>3, ProgramMoves
  <2> QED BY <2>1, <2>3, <2>4, OnwardStep
<1> QED BY <1>3, <1>4, <1>5, <1>6, <1>7 DEF Next

(* In the first state nothing is on its way.                               *)
LEMMA DataInit ==
  Init => DataInv
<1> SUFFICES ASSUME Init PROVE DataInv
  OBVIOUS
<1>0. /\ sd_clk_cont = FALSE /\ clkstrb = FALSE
      /\ ctrl = {} /\ command = Sd!NoCommand /\ status_last = {"idle_cmd", "idle_dat"}
      /\ cmd = Sd!CmdReset /\ dat = Sd!DatReset
      /\ task = "idle" /\ n = 0 /\ multi = FALSE
      /\ call = "none" /\ loop = 1 /\ todo = <<>>
      /\ buf = <<>> /\ sent = 0 /\ blocks = 0
  BY DEF Init, Sd!Init, Card!Init
<1>1. /\ dat.state = "IDLE" /\ ~dat.clk_req /\ ~dat.clk_stall /\ ~dat.oe /\ ~dat.shift
      /\ ~dat.write_start
  BY <1>0 DEF Sd!DatReset
<1>2. Lined(dat)
  BY <1>1 DEF Lined, InBlock, ReadStates, WriteStates
<1>3. ReadLine /\ WriteLine /\ WriteTask
  BY <1>0, <1>1 DEF ReadLine, WriteLine, WriteTask, ReadStates, WriteStates
<1>4. command.idx = "none"
  BY <1>0 DEF Sd!NoCommand, Sd!Command
<1>5. Prepared
  BY <1>4 DEF Prepared
<1>6. ~Sd!Rose("data_dat")
  BY <1>1 DEF Sd!Rose, Sd!Status, Sd!status_data_dat
<1>7. AskedWell
  BY <1>0, <1>1, <1>6 DEF AskedWell
<1>8. "none" \notin Calls
  BY NeoSDAssumption
<1>9. DataFlow /\ Fresh /\ Over /\ Single /\ WordsRead
  BY <1>0, <1>1, <1>4 DEF DataFlow, Fresh, Over, Single, WordsRead, ReadStates, WriteStates
<1>10. DataOps
  <2>1. Ops(todo) = {}
    BY <1>0, ShortOps
  <2> QED BY <2>1 DEF DataOps
<1> QED BY <1>2, <1>3, <1>5, <1>7, <1>9, <1>10 DEF DataInv

(* Nor does a step in which nothing happens move the data lines.           *)
LEMMA DataStutter ==
  ASSUME DataInv, UNCHANGED vars
  PROVE  DataInv'
<1>0. /\ sd_clk_cont' = sd_clk_cont /\ clkstrb' = clkstrb /\ ctrl' = ctrl /\ command' = command
      /\ status_last' = status_last /\ cmd' = cmd /\ dat' = dat /\ dat_reg' = dat_reg
      /\ task' = task /\ n' = n /\ multi' = multi
      /\ call' = call /\ loop' = loop /\ todo' = todo /\ resp' = resp
      /\ buf' = buf /\ sent' = sent /\ blocks' = blocks
  BY DEF vars, Sd!sdVars, Sd!clkVars, cardVars, driverVars
<1>1. /\ (Risen' <=> Risen) /\ (Fallen' <=> Fallen) /\ Through' = Through
      /\ (Moving' <=> Moving) /\ (Received' <=> Received) /\ (BlockOver' <=> BlockOver)
      /\ (Sd!Rose("data_dat")' <=> Sd!Rose("data_dat"))
      /\ (Sd!status_data_dat' <=> Sd!status_data_dat)
  BY <1>0 DEF Risen, Fallen, Through, Moving, Busy, Received, BlockOver, Sd!Rose, Sd!Status,
              Sd!status_idle_cmd, Sd!status_idle_dat, Sd!status_resp_cmd, Sd!status_data_dat
<1>2. Asked' <=> Asked
  BY <1>0, <1>1 DEF Asked
<1>3. Lined(dat)'
  <2> SUFFICES ASSUME NEW x, x = dat' PROVE Lined(x)
    BY Zenon
  <2> QED BY <1>0 DEF DataInv
<1>4. ReadLine'
  BY <1>0, <1>1 DEF DataInv, ReadLine, Moved
<1>5. WriteLine'
  BY <1>0, <1>1, <1>2 DEF DataInv, WriteLine
<1>6. WriteTask'
  BY <1>0, <1>1 DEF DataInv, WriteTask, TokenAt, Moved, Seen
<1>7. Prepared' /\ AskedWell'
  BY <1>0, <1>1 DEF DataInv, Prepared, AskedWell
<1>8. Due' = Due /\ Given' = Given
  BY <1>0, <1>2 DEF Due, Given
<1>9. Uncounted' = Uncounted /\ Ops(todo)' = Ops(todo) /\ (Starting' <=> Starting)
  BY <1>0 DEF Uncounted, Acked, Acks, Ops, Starting
<1>10. DataFlow'
  BY <1>0, <1>8, <1>9 DEF DataInv, DataFlow, Exchanged
<1>11. Fresh' /\ Over' /\ Single'
  BY <1>0, <1>1, <1>8, <1>9 DEF DataInv, Fresh, Over, Single
<1>12. DataOps' /\ WordsRead'
  BY <1>0, <1>9 DEF DataInv, DataOps, WordsRead
<1> QED BY <1>3, <1>4, <1>5, <1>6, <1>7, <1>10, <1>11, <1>12 DEF DataInv

-----------------------------------------------------------------------------
(* What follows for the data lines. *)

(* Both invariants hold in every state, as long as a card does not start a *)
(* block before its response is over.                                      *)
THEOREM DataInvariance ==
  ASSUME ~EarlyData
  PROVE  Spec => [](IInv /\ DataInv)
<1>1. Init => IInv /\ DataInv
  BY InitInv, DataInit
<1>2. IInv /\ DataInv /\ [Next]_vars => (IInv /\ DataInv)'
  <2>1. IInv /\ [Next]_vars => IInv'
    BY NextInv, StutterInv
  <2> QED BY <2>1, DataNext, DataStutter
<1> QED BY <1>1, <1>2, PTL DEF Spec

(* At every edge at which the card samples a block, the controller shows   *)
(* the data bit, the checksum or the end bit that is due, although the     *)
(* words come from the program one at a time.                              *)
THEOREM BlocksAligned ==
  ASSUME ~EarlyData
  PROVE  Spec => []BlockAligned
<1>1. IInv /\ DataInv => BlockAligned
  BY BlocksShown DEF IInv, DataInv, Wired
<1> QED BY <1>1, DataInvariance, PTL

(* The words read are the words of the blocks, each one once and in order, *)
(* although the program may be late for every one of them.                 *)
THEOREM WordsAreInOrder ==
  ASSUME ~EarlyData
  PROVE  Spec => []WordsInOrder
<1>1. ASSUME IInv, DataInv PROVE WordsInOrder
  <2>1. buf \in Seq(Nat)
    BY <1>1 DEF IInv, DriverInv, DriverTypes
  <2>2. DOMAIN buf = 1 .. Len(buf) /\ Len(buf) \in Nat
    BY <2>1
  <2>3. WordsRead
    BY <1>1 DEF DataInv
  <2>4. Words * Blocks \in Nat
    BY Constants
  <2> DEFINE v == Words * Blocks
  <2>5. ASSUME NEW i \in DOMAIN buf \cap 1 .. v
        PROVE  buf[i] = (((i - 1) % Words) + 1) * WordBits
    <3>1. i \in 1 .. Len(buf) /\ i <= v
      BY <2>2, <2>4, <2>5
    <3> QED BY <2>3, <3>1 DEF WordsRead
  <2> QED BY <2>5 DEF WordsInOrder
<1> QED BY <1>1, DataInvariance, PTL

(* The controller judges a block it has written when all five bits of the  *)
(* card's answer, and none after them, are in its register: the answer     *)
(* begins a fixed number of clocks after the end bit.                      *)
THEOREM TokensAligned ==
  ASSUME ~EarlyData
  PROVE  Spec => TokenAligned
<1>1. ASSUME IInv, DataInv, [Next]_vars,
             dat.state = "WRITE_CHECK_CRC", dat'.state = "WRITE_BUSY"
      PROVE  dat_reg.last = 5
  <2>1. ASSUME NEW fits \in BOOLEAN, Edge(Sd!NoAccess, fits) PROVE dat_reg.last = 5
    <3>1. DataStep(Sd!NoAccess, fits)
      BY <1>1, <2>1, DataStepping
    <3> QED BY <1>1, <3>1, TokensJudged
  <2>2. ASSUME Cycle(Sd!NoAccess) PROVE dat_reg.last = 5
    BY <2>1, <2>2, CycleIsEdge
  <2>3. CASE Program
    <3>1. todo # <<>> /\ Cycle(BusAccess(Head(todo)))
      BY <2>3 DEF Program
    <3>2. PICK fits \in BOOLEAN : Edge(BusAccess(Head(todo)), fits)
      BY <3>1, CycleIsEdge
    <3>3. DataStep(BusAccess(Head(todo)), fits)
      BY <1>1, <3>1, <3>2, DataStepping
    <3> QED BY <1>1, <3>3, TokensJudged
  <2>4. CASE CardRests
    <3>1. Edge(Sd!NoAccess, FALSE)
      BY <2>4 DEF CardRests, Edge
    <3> QED BY <2>1, <3>1
  <2>5. CASE Tick \/ TimeOut \/ \E c \in Calls : Call(c)
    BY <2>2, <2>5 DEF Tick, TimeOut, Call
  <2>6. ~UNCHANGED vars
    BY <1>1 DEF vars, Sd!sdVars
  <2> QED BY <1>1, <2>3, <2>4, <2>5, <2>6 DEF Next
<1>2. IInv /\ DataInv /\ [Next]_vars
        => [dat.state = "WRITE_CHECK_CRC" /\ dat'.state = "WRITE_BUSY" => dat_reg.last = 5]_vars
  BY <1>1
<1> QED BY <1>2, DataInvariance, PTL DEF Spec, TokenAligned

-----------------------------------------------------------------------------
(* A read that returns is complete. *)

(* A command of a multiple read that is on its way has no block behind it. *)
LEMMA NoBlockYet ==
  ASSUME ControllerInv, Active, First
  PROVE  /\ Uncounted = 0 /\ "BLK_DONE" \notin ctrl
         /\ dat.state \in ReadStates => dat.state = "WAIT_BLOCK"
<1>1. /\ dat.state = "IDLE" \/ dat.state = "WAIT_BLOCK"
      /\ ~dat.block_done /\ ctrl \cap DataFlags = {}
  BY DEF ControllerInv, FirstInv
<1> QED BY <1>1 DEF Uncounted, DataFlags, ReadStates

(* At a strobe the block gains at most the bit that the command state      *)
(* machine counts too.                                                     *)
LEMMA BlockComes ==
  ASSUME NEW acc, NEW fits, DataStep(acc, fits), clkstrb, command.idx \in Flow,
         cmd.state = "TAIL", cmd'.state = "TAIL",
         dat.state \in ReadStates, dat'.state \in ReadStates, Come <= cmd.bit
  PROVE  Come' <= cmd'.bit
<1>0. /\ Stepping(acc, fits) /\ ControllerInv /\ Lined(dat) /\ Moving /\ ~Active
      /\ dat.bit \in Nat /\ dat.word \in 0 .. Words /\ cmd.bit \in Nat
      /\ dat.state = "READ_BLOCK" => dat.word > 0
      /\ dat.state = "REGOUT" => dat.word < Words
      /\ "RST" \notin ctrl
  <2>1. Stepping(acc, fits) /\ ControllerInv /\ Lined(dat)
    BY DEF DataStep, Stepping, Wired
  <2>2. ~Active
    BY DEF Active
  <2>3. Moving
    BY DEF Moving, Busy, ReadStates
  <2>4. "RST" \notin ctrl
    BY <2>1 DEF ControllerInv, FlagsInv, ResetReady, Flow
  <2> QED BY <2>1, <2>2, <2>3, <2>4
          DEF ControllerInv, Types, CmdRecord, DatShape, Shaped, DatRecord, WordRange, Lined
<1>1. /\ dat.state \in {"READ_BLOCK", "READ_CRC"} => cmd'.bit = cmd.bit + 1
      /\ cmd'.bit \in Nat /\ cmd.bit <= cmd'.bit
  <2>1. \/ ~Sd!sd_clk_en /\ cmd'.bit = cmd.bit
        \/ Sd!sd_clk_en /\ cmd'.bit = cmd.bit + 1
    BY <1>0, CmdRests DEF Stepping
  <2>2. dat.state \in {"READ_BLOCK", "READ_CRC"} => Sd!sd_clk_en
    BY <1>0, ClockOn
  <2> QED BY <1>0, <2>1, <2>2
<1>2. ReadGoes(dat, dat', Card!low)
  <2>1. DataGoes
    BY LinesStep
  <2> QED BY <2>1 DEF DataGoes, ReadStates, WriteStates
<1>3. /\ Passed(Words) = 0 /\ Passed(0) = Sd!BlockBits /\ Passed(dat.word) \in Nat
      /\ dat.word > 0 => Passed(dat.word - 1) = Passed(dat.word) + WordBits
      /\ Words \in Nat /\ WordBits \in Nat /\ CrcBits \in Nat /\ Sd!BlockBits \in Nat
  BY <1>0, PassedBits, Constants
<1>4. Through = Passed(dat.word) /\ Through' = Passed(dat'.word)
  BY DEF Through, Passed
<1>5. /\ dat'.state = "READ_BLOCK" => Come' = Through' + dat'.bit
      /\ dat'.state = "REGOUT" => Come' = Through'
      /\ dat'.state = "READ_CRC" => Come' = Sd!BlockBits + dat'.bit
      /\ dat'.state = "READ_FINISH" => Come' = Sd!BlockBits + CrcBits
      /\ dat'.state = "WAIT_BLOCK" => Come' = 0
  BY DEF Come
<1>6. /\ dat.state = "READ_BLOCK" => Come = Through + dat.bit
      /\ dat.state = "REGOUT" => Come = Through
      /\ dat.state = "READ_CRC" => Come = Sd!BlockBits + dat.bit
  BY DEF Come
<1> HIDE DEF Come, Through, Passed
<1>7. CASE dat.state = "WAIT_BLOCK"
  BY <1>1, <1>2, <1>3, <1>4, <1>5, <1>7 DEF ReadGoes, Becomes
<1>8. CASE dat.state = "READ_BLOCK"
  BY <1>0, <1>1, <1>2, <1>3, <1>4, <1>5, <1>6, <1>8 DEF ReadGoes, Becomes
<1>9. CASE dat.state = "REGOUT"
  BY <1>0, <1>1, <1>2, <1>3, <1>4, <1>5, <1>6, <1>9 DEF ReadGoes, Becomes
<1>10. CASE dat.state = "READ_CRC"
  BY <1>0, <1>1, <1>2, <1>3, <1>5, <1>6, <1>10 DEF ReadGoes, Becomes
<1>11. CASE dat.state = "READ_FINISH"
  BY <1>1, <1>2, <1>5, <1>11 DEF ReadGoes
<1> QED BY <1>7, <1>8, <1>9, <1>10, <1>11 DEF ReadStates

(* Outside the data phase no block is reported.                             *)
LEMMA NothingDone ==
  ASSUME NEW acc, NEW fits, Stepping(acc, fits), clkstrb,
         dat.state \in {"IDLE", "TAIL", "WAIT_BUSY"}
  PROVE  ~dat'.block_done
<1> DEFINE d == [dat EXCEPT !.block_done = FALSE]
           low == Card!low
           e == Sd!DatStep(d, low, fits)
           longer == d.bit + 1
<1>1. dat \in DatRecord
  BY DEF Stepping, ControllerInv, DatShape, Shaped
<1>2. d \in DatRecord /\ ~d.block_done /\ d.state = dat.state
  BY <1>1 DEF DatRecord
<1>3. dat' = IF "RST" \in ctrl THEN Sd!DatReset ELSE Sd!Aborted(e)
  BY DEF Stepping, Edge, Sd!Clock, Sd!DatFsm
<1> HIDE DEF d, low
<1>4. \/ e = d \/ e = Sd!DatStart(d)
      \/ e = [d EXCEPT !.bit = longer]
      \/ e = [d EXCEPT !.clk_req = FALSE, !.state = "IDLE"]
      \/ e = [d EXCEPT !.state = "TAIL", !.bit = 0]
  BY <1>2 DEF Sd!DatStep, Sd!Counted
<1> DEFINE x == Sd!DatStart(d)
<1>5. ~x.block_done /\ x \in DatRecord
  <2>1. \/ x = d
        \/ x = [d EXCEPT !.clk_req = TRUE, !.shift = TRUE, !.rstn_reg = TRUE,
                        !.state = "WAIT_BLOCK"]
        \/ x = [d EXCEPT !.clk_req = TRUE, !.state = "WAIT_BUSY"]
        \/ x = [d EXCEPT !.write_start = TRUE, !.clk_req = TRUE, !.clk_stall = TRUE,
                        !.rstn_reg = TRUE, !.state = "WRITE_REGIN"]
    BY Zenon DEF Sd!DatStart
  <2> HIDE DEF x
  <2> QED BY <1>2, <2>1 DEF DatRecord, DatStates
<1> HIDE DEF e, longer
<1>6. e \in DatRecord /\ ~e.block_done
  <2>1. \/ e = d \/ e = x
        \/ e = [d EXCEPT !.bit = longer]
        \/ e = [d EXCEPT !.clk_req = FALSE, !.state = "IDLE"]
        \/ e = [d EXCEPT !.state = "TAIL", !.bit = 0]
    BY <1>4
  <2>2. longer \in Nat /\ {"IDLE", "TAIL"} \subseteq DatStates
    BY <1>2 DEF longer, DatRecord, DatStates
  <2>3. "IDLE" \in DatStates /\ "TAIL" \in DatStates /\ FALSE \in BOOLEAN /\ 0 \in Nat
    BY <2>2
  <2> HIDE DEF x
  <2>4. CASE e = d \/ e = x
    BY <1>2, <1>5, <2>4
  <2>5. CASE e = [d EXCEPT !.bit = longer]
    BY <1>2, <2>2, <2>5 DEF DatRecord
  <2>6. CASE e = [d EXCEPT !.clk_req = FALSE, !.state = "IDLE"]
    BY <1>2, <2>3, <2>6 DEF DatRecord
  <2>7. CASE e = [d EXCEPT !.state = "TAIL", !.bit = 0]
    BY <1>2, <2>3, <2>7 DEF DatRecord
  <2> QED BY <2>1, <2>4, <2>5, <2>6, <2>7
<1>7. ~Sd!Aborted(e).block_done
  BY <1>6 DEF Sd!Aborted, DatRecord
<1> QED BY <1>3, <1>7 DEF Sd!DatReset

(* The block is not over while the clocks after the response are counted.  *)
LEMMA LaterStep ==
  ASSUME NEW acc, NEW fits, Onward(acc, fits), BlocksLater, TailBits <= Sd!BlockBits + CrcBits
  PROVE  BlocksLater'
<1>0. IInv /\ IInv' /\ DataInv /\ DataStep(acc, fits) /\ DriverStep(acc) /\ ControllerInv
      /\ ControllerInv' /\ Stepping(acc, fits) /\ Wired
  BY DEF Onward, IInv, DataStep
<1> SUFFICES ASSUME command'.idx = "READ_MULTI", Active' \/ cmd'.state = "TAIL"
             PROVE  /\ blocks' = 0 /\ Uncounted' = 0
                    /\ dat'.state \in ReadStates =>
                         Come' <= IF cmd'.state = "TAIL" THEN cmd'.bit ELSE 0
  BY DEF BlocksLater
<1>1. First' /\ command'.idx \in Flow /\ cmd'.bit \in Nat /\ cmd.bit \in Nat
  BY <1>0 DEF First, Flow, ControllerInv, Types, CmdRecord
<1>2. CASE Sd!Writes(acc, "CMD")
  <2>1. Starting
    BY <1>0, <1>2 DEF DriverStep, Commanding
  <2>2. blocks' = 0
    BY <1>0, <2>1 DEF DataInv, Fresh, DriverStep
  <2>3. Rests
    BY <1>0, <2>1, Talking DEF Settled
  <2>4. Active'
    BY <1>0, <2>3, CmdRests DEF Rests, Stepping
  <2>5. /\ Uncounted' = 0
        /\ dat'.state \in ReadStates => dat'.state = "WAIT_BLOCK"
    BY <1>0, <1>1, <2>4 DEF ControllerInv, FirstInv, Uncounted, DataFlags, ReadStates
  <2> QED BY <1>1, <2>2, <2>5 DEF Come
<1>3. CASE ~Sd!Writes(acc, "CMD")
  <2>1. command.idx = "READ_MULTI" /\ (Active' => Active) /\ First
    BY <1>0, <1>3, SameCommand DEF First
  <2>2. Active \/ cmd.state = "TAIL"
    <3>1. CASE ~clkstrb
      <4>1. cmd' = cmd
        BY <1>0, <3>1, StillBetween DEF Stepping
      <4> QED BY <2>1, <4>1
    <3>2. CASE clkstrb /\ ~Active
      <4>1. cmd.state \in {"IDLE", "TAIL"} /\ (cmd.state = "IDLE" => ~command.commit)
        BY <1>0, <3>2 DEF Active, ControllerInv, Types, CmdRecord, CmdStates
      <4>2. cmd.state = "IDLE" => cmd'.state = "IDLE"
        BY <1>0, <4>1, CmdRests DEF Stepping
      <4> QED BY <2>1, <3>2, <4>1, <4>2
    <3> QED BY <3>1, <3>2
  <2>3. /\ blocks = 0 /\ Uncounted = 0
        /\ dat.state \in ReadStates => Come <= IF cmd.state = "TAIL" THEN cmd.bit ELSE 0
    BY <2>1, <2>2 DEF BlocksLater
  <2>4. call \in Transfers /\ ~Starting /\ call = "read_blocks_stop"
    BY <1>0, <2>1, FlowOf DEF Flow
  <2>5. dat.state \notin WriteStates
    BY <1>0, <2>4 DEF DataInv, DataFlow
  <2>6. ~(clkstrb /\ dat'.block_done)
    <3> SUFFICES ASSUME clkstrb, dat'.block_done PROVE FALSE
      OBVIOUS
    <3>1. DataGoes
      BY <1>0, LinesStep
    <3>2. dat.state = "READ_FINISH"
      <4>1. ~command.abrt /\ dat.state \in DatStates
        BY <1>0, <2>1 DEF ControllerInv, Types, Formed, CommandSet, DatShape, Shaped, DatRecord
      <4>2. dat.state \notin {"IDLE", "TAIL", "WAIT_BUSY"}
        BY <1>0, NothingDone
      <4>3. dat.state \in ReadStates
        BY <2>5, <4>1, <4>2 DEF DatStates, ReadStates, WriteStates
      <4> QED BY <2>5, <3>1, <4>1, <4>3 DEF DataGoes
    <3>3. cmd.state = "TAIL" /\ Come = Sd!BlockBits + CrcBits
      BY <1>0, <2>1, <2>2, <3>2, NoBlockYet DEF Come, ReadStates
    <3>4. cmd.bit < TailBits
      BY <1>0, <3>3 DEF ControllerInv, CmdShape
    <3> QED BY <1>1, <2>3, <3>2, <3>3, <3>4, Constants DEF ReadStates
  <2>7. blocks' = 0 /\ Uncounted' = 0
    <3>1. blocks' \in Nat /\ Uncounted' \in Nat
      <4>1. blocks' \in Nat
        BY <1>0 DEF IInv, DriverInv, DriverTypes
      <4> QED BY <4>1 DEF Uncounted
    <3> DEFINE more == IF clkstrb /\ dat'.block_done THEN 1 ELSE 0
    <3>2. more = 0
      BY <2>6
    <3>3. blocks' + Uncounted' <= blocks + Uncounted + more
      BY <1>0, <2>4 DEF DriverStep
    <3> HIDE DEF more
    <3>4. blocks = 0 /\ Uncounted = 0
      BY <2>3
    <3>5. blocks' + Uncounted' <= 0
      BY <3>2, <3>3, <3>4
    <3> DEFINE u == Uncounted'
               b == blocks'
    <3>6. u \in Nat /\ b \in Nat /\ b + u <= 0
      BY <3>1, <3>5
    <3> HIDE DEF u, b
    <3>7. u = 0 /\ b = 0
      BY <3>6
    <3> QED BY <3>7 DEF u, b
  <2>8. CASE cmd'.state # "TAIL"
    <3>1. dat'.state \in ReadStates => dat'.state = "WAIT_BLOCK"
      BY <1>0, <1>1, <2>8 DEF ControllerInv, FirstInv, ReadStates
    <3> QED BY <2>7, <2>8, <3>1 DEF Come
  <2>9. CASE cmd'.state = "TAIL"
    <3> SUFFICES ASSUME dat'.state \in ReadStates PROVE Come' <= cmd'.bit
      BY <2>7, <2>9
    <3>1. CASE ~clkstrb
      <4>1. cmd' = cmd /\ dat' = dat
        BY <1>0, <3>1, StillBetween, LinesStep DEF Stepping
      <4>2. Come' = Come
        BY <4>1 DEF Come, Through, Passed
      <4> QED BY <2>3, <2>9, <4>1, <4>2
    <3>2. CASE clkstrb /\ dat.state \in ReadStates /\ cmd.state = "TAIL"
      BY <1>0, <1>1, <2>1, <2>3, <2>9, <3>2, BlockComes DEF Flow
    <3>3. CASE clkstrb /\ (dat.state \notin ReadStates \/ cmd.state # "TAIL")
      <4>1. DataGoes
        BY <1>0, <3>3, LinesStep
      <4>2. dat.state \in ReadStates => dat.state = "WAIT_BLOCK"
        BY <1>0, <2>1, <2>2, <3>3, NoBlockYet
      <4>3. \/ dat'.state = "WAIT_BLOCK"
            \/ dat'.state = "READ_BLOCK" /\ dat'.bit = 0 /\ dat'.word = Words
        BY <2>5, <4>1, <4>2 DEF DataGoes, ReadGoes, Becomes, ReadStates, WriteStates
      <4>4. Passed(Words) = 0
        BY PassedBits, Constants
      <4> QED BY <1>1, <4>3, <4>4 DEF Come, Through, Passed
    <3> QED BY <3>1, <3>2, <3>3
  <2> QED BY <2>8, <2>9, <2>7
<1> QED BY <1>2, <1>3

(* The stop command finds the command state machine at rest, so it is sent *)
(* and its response is read.                                               *)
LEMMA StopAnsweredStep ==
  ASSUME NEW acc, NEW fits, Onward(acc, fits), BlocksLater, StopAnswered
  PROVE  StopAnswered'
<1>0. IInv /\ IInv' /\ DataInv /\ DataStep(acc, fits) /\ DriverStep(acc) /\ ControllerInv
      /\ Stepping(acc, fits)
  BY DEF Onward, IInv, DataStep
<1> SUFFICES ASSUME call' = "read_blocks_stop", ~Starting', command'.idx = "STOP", ~Active'
             PROVE  Len(resp') = 4
  BY DEF StopAnswered
<1>1. call = "read_blocks_stop"
  BY <1>0 DEF DriverStep
<1>2. CASE Sd!Writes(acc, "CMD")
  <2>1. /\ ~Starting /\ ~Active /\ command.idx \in Flow /\ blocks >= Blocks
    BY <1>0, <1>1, <1>2 DEF DriverStep, Commanding, CommandsOf
  <2>2. command.idx = "READ_MULTI"
    BY <1>0, <1>1, <2>1, FlowOf DEF Flow
  <2>3. cmd.state # "TAIL"
    BY <2>1, <2>2, Constants DEF BlocksLater
  <2>4. Rests
    BY <1>0, <2>1, <2>3 DEF Rests, Active, ControllerInv, Types, CmdRecord, CmdStates
  <2>5. command' = acc.data /\ Permitted(acc)
    BY <1>0, <1>2, CommandMoves DEF Stepping, ControllerInv
  <2>6. command'.commit
    BY <1>2, <2>5 DEF Permitted
  <2>7. cmd'.state = "IDLE"
    BY <1>0, <2>4, CmdRests DEF Rests, Stepping
  <2> QED BY <2>6, <2>7 DEF Active
<1>3. CASE ~Sd!Writes(acc, "CMD")
  <2>1. command.idx = "STOP" /\ ~First /\ ~Starting
    BY <1>0, <1>3, SameCommand DEF DriverStep, First
  <2>2. During(call, loop, todo, irq, blocks)
    BY <1>0, <1>1, <2>1, Talking
  <2>3. "RST" \notin ctrl /\ resp \in Seq(Nat) /\ Which(call, blocks)
    BY <1>0, <1>1, <2>2 DEF During, Which, IInv, DriverInv, DriverTypes
  <2>4. ~Sd!Reads(acc, "RESP")
    <3> SUFFICES ASSUME Sd!Reads(acc, "RESP") PROVE FALSE
      OBVIOUS
    <3>1. "CMD_RESP" \in ctrl
      BY <1>0, <1>1 DEF DriverStep
    <3>2. cmd'.state = "REGOUT"
      BY <1>0, <2>3, <3>1, OfferTaken
    <3> QED BY <3>2 DEF Active
  <2>5. resp' = resp
    BY <1>0, <2>4 DEF DriverStep
  <2>6. CASE ~Active
    BY <1>1, <2>1, <2>5, <2>6 DEF StopAnswered
  <2>7. CASE Active
    <3>1. Len(resp) = ReadSoFar
      BY <2>2, <2>7 DEF During, RespInv
    <3>2. ReadSoFar = 2 + Sd!Registered(command.rmode)
      BY <1>0, <1>3, <2>1, <2>3, <2>4, <2>7, AccountKept
    <3>3. command.rmode = "SHORT"
      <4>1. call \in Transfers \cup Limited
        BY <1>1 DEF Transfers
      <4> QED BY <1>0, <1>1, <2>3, <2>7, <4>1, ResponseKind DEF KindOf
    <3> QED BY <2>5, <3>1, <3>2, <3>3 DEF Sd!Registered
  <2> QED BY <2>6, <2>7
<1> QED BY <1>2, <1>3

(* A function that reads returns after a round in which it has seen the    *)
(* last flag that it waits for, at a controller at rest.                   *)
LEMMA LastRound ==
  ASSUME IInv, todo # <<>>, Rest = <<>>, LoopEnds, call \in Reading,
         call = "read_blocks_stop" => loop = 2
  PROVE  /\ ~Starting /\ Head(todo) # Poll /\ During(call, loop, todo, irq, blocks)
         /\ Rests /\ ~Active /\ dat.state = "IDLE"
         /\ Head(todo) \in Operations /\ Head(todo) \in Ops(todo)
<1> DEFINE o == Head(todo)
<1>0. /\ ControllerInv /\ DriverInv /\ DriverTypes /\ Types /\ call # "none" /\ call \in Transfers
      /\ call # "reset" /\ call \notin Limited
  BY DEF IInv, DriverInv, ControllerInv, Reading, Transfers, Limited
<1>1. o \in Operations /\ o \in Ops(todo)
  BY <1>0, Running
<1>2. (IF call = "read_block" THEN "DAT_DONE" ELSE "CMD_DONE") \in Flags
  <2>1. CASE call = "read_block"
    BY <2>1 DEF LoopEnds, Limited
  <2>2. CASE call = "read_blocks_stop"
    <3>1. (IF loop = 1 THEN "DAT_DONE" ELSE "CMD_DONE") \in Flags
      BY <2>2 DEF LoopEnds, Limited
    <3> QED BY <2>2, <3>1
  <2> QED BY <2>1, <2>2 DEF Reading
<1>3. o # Poll
  <2> SUFFICES ASSUME o = Poll PROVE FALSE
    OBVIOUS
  <2>1. Handle = <<>>
    BY DEF Rest
  <2>2. Answering
    BY <1>0, AllAnswer
  <2>3. loop = 1 \/ call = "read_blocks_stop"
    BY <1>0 DEF DriverTypes, Reading
  <2>4. {"DAT_DONE", "CMD_DONE"} \cap Acked(Handle) # {}
    BY <1>0, <1>2, <2>2, <2>3 DEF Answering, Reading
  <2> QED BY <2>1, <2>4, Waiting
<1>4. ~Starting /\ todo # <<Poll>>
  <2>1. Tail(todo) = <<>>
    BY <1>3 DEF Rest
  <2>2. ~Starting
    BY <1>0, <1>3, <2>1, Shapes
  <2> QED BY <1>3, <2>2
<1>5. During(call, loop, todo, irq, blocks)
  BY <1>0, <1>4, Running
<1>6. Flags = irq
  BY <1>3 DEF Flags
<1>7. Quits(todo)
  BY <1>2, <1>5, <1>6 DEF During, ReadBlockInv, ReadBlocksInv, Reading
<1>8. Rests /\ dat.state = "IDLE"
  BY <1>7 DEF Quits
<1>9. ~Active
  BY <1>8 DEF Rests, Active
<1> QED BY <1>1, <1>3, <1>4, <1>5, <1>8, <1>9

(* A read of one block is done when its function returns.                  *)
LEMMA OneRead ==
  ASSUME IInv, DataInv, call = "read_block", todo # <<>>, Rest = <<>>, LoopEnds,
         Records(Head(todo))
  PROVE  Len(resp') = 2 /\ Len(buf') = Words
<1> DEFINE o == Head(todo)
<1>0. ControllerInv /\ DriverInv /\ call \in Reading
  BY DEF IInv, Reading
<1>1. /\ ~Starting /\ During(call, loop, todo, irq, blocks)
      /\ Rests /\ ~Active /\ dat.state = "IDLE" /\ o \in Operations /\ o \in Ops(todo)
  BY <1>0, LastRound
<1>2. command.idx = "none"
  <2>1. command.idx \in {"READ", "none"}
    BY <1>1 DEF During, Which, CommandsOf
  <2>2. command.idx = "READ" => FALSE
    BY <1>0, <1>1 DEF ControllerInv, FlowInv, Flow, CmdShape, Moving, Busy, Rests
  <2> QED BY <2>1, <2>2
<1>3. Len(buf) = Words /\ Len(resp) = 2 /\ "DAT_DATA" \notin ctrl
  BY <1>1, <1>2 DEF DataInv, Single
<1>4. o # Read("DATA")
  BY <1>1, <1>3 DEF DataInv, DataOps
<1>5. o # Read("RESP")
  BY <1>0, <1>1 DEF During, Legal, ControllerInv, FlagsInv, Rests
<1> HIDE DEF o
<1>6. resp' = resp /\ buf' = buf
  <2>1. Records(o)
    BY DEF o
  <2> QED BY <1>4, <1>5, <2>1 DEF Records
<1> QED BY <1>3, <1>6

(* A read of several is done too.                                          *)
LEMMA SeveralRead ==
  ASSUME IInv, DataInv, StopAnswered, call = "read_blocks_stop", todo # <<>>, Rest = <<>>,
         LoopEnds, loop = 2, Records(Head(todo))
  PROVE  Len(resp') = 4 /\ Len(buf') >= Words * Blocks
<1> DEFINE o == Head(todo)
<1>0. ControllerInv /\ DriverInv /\ call \in Reading
  BY DEF IInv, Reading
<1>1. /\ ~Starting /\ During(call, loop, todo, irq, blocks)
      /\ Rests /\ ~Active /\ dat.state = "IDLE" /\ o \in Operations /\ o \in Ops(todo)
  BY <1>0, LastRound
<1>2. command.idx = "STOP"
  BY <1>1 DEF During, StopDone, First
<1>3. Len(resp) = 4 /\ Len(buf) >= Words * Blocks
  BY <1>1, <1>2 DEF StopAnswered, DataInv, Over
<1>4. o # Read("RESP")
  BY <1>0, <1>1 DEF During, Legal, ControllerInv, FlagsInv, Rests
<1> HIDE DEF o
<1>5. Records(o)
  BY DEF o
<1>6. resp' = resp
  BY <1>4, <1>5 DEF Records
<1>7. buf' = buf \/ buf' = Append(buf, dat_reg.last)
  BY <1>5 DEF Records
<1>8. buf \in Seq(Nat)
  BY <1>0 DEF DriverInv, DriverTypes
<1>9. Len(Append(buf, dat_reg.last)) = Len(buf) + 1 /\ Len(buf) \in Nat
  BY <1>8
<1> DEFINE v == Words * Blocks
<1>10. v \in Nat /\ Len(buf) >= v
  BY <1>3, Constants
<1> HIDE DEF v
<1>11. Len(buf') >= v
  BY <1>7, <1>9, <1>10
<1> QED BY <1>3, <1>6, <1>11 DEF v

(* Both hold after a step within a function.                               *)
LEMMA AnswersStep ==
  ASSUME NEW acc, NEW fits, IInv, IInv', DataInv, BlocksLater, StopAnswered,
         TailBits <= Sd!BlockBits + CrcBits, DataStep(acc, fits), DriverStep(acc),
         \/ acc = Sd!NoAccess /\ (UNCHANGED driverVars \/ TimeOut)
         \/ /\ todo # <<>> /\ acc = BusAccess(Head(todo))
            /\ Proceed(Head(todo)) /\ Records(Head(todo))
  PROVE  BlocksLater' /\ StopAnswered'
<1>1. Wired'
  BY WiredStep
<1>2. Onward(acc, fits)
  BY <1>1 DEF Onward
<1> QED BY <1>2, LaterStep, StopAnsweredStep

(* A function begins at a controller at rest, without a command.           *)
LEMMA AnswersCalls ==
  ASSUME NEW c \in Calls, Call(c), IInv, IInv'
  PROVE  BlocksLater' /\ StopAnswered'
<1>1. /\ call = "none" /\ call' = c /\ todo' = Begin(c) \o <<Poll>>
  BY DEF Call
<1>2. Starting'
  BY <1>1 DEF Starting
<1>3. Settled'
  BY <1>2 DEF IInv, DriverInv
<1>4. cmd'.state = "IDLE" /\ ~command'.commit
  BY <1>3 DEF Settled, Rests
<1> QED BY <1>2, <1>4 DEF BlocksLater, StopAnswered, Active

(* One step keeps both.                                                    *)
LEMMA AnswersNext ==
  ASSUME IInv, IInv', DataInv, BlocksLater, StopAnswered, ~EarlyData, Next,
         TailBits <= Sd!BlockBits + CrcBits
  PROVE  BlocksLater' /\ StopAnswered'
<1>1. ASSUME NEW fits \in BOOLEAN, Edge(Sd!NoAccess, fits), UNCHANGED driverVars \/ TimeOut
      PROVE  BlocksLater' /\ StopAnswered'
  <2>1. DataStep(Sd!NoAccess, fits)
    BY <1>1, DataStepping
  <2>2. DriverStep(Sd!NoAccess)
    BY <1>1, <2>1, WaitingMoves
  <2> QED BY <1>1, <2>1, <2>2, AnswersStep
<1>2. CASE Tick
  <2>1. PICK fits \in BOOLEAN : Edge(Sd!NoAccess, fits)
    BY <1>2, CycleIsEdge DEF Tick
  <2> QED BY <1>1, <1>2, <2>1 DEF Tick
<1>3. CASE TimeOut
  <2>1. PICK fits \in BOOLEAN : Edge(Sd!NoAccess, fits)
    BY <1>3, CycleIsEdge DEF TimeOut
  <2> QED BY <1>1, <1>3, <2>1
<1>4. CASE CardRests
  <2>1. Edge(Sd!NoAccess, FALSE) /\ UNCHANGED driverVars
    BY <1>4 DEF CardRests, Edge, driverVars
  <2> QED BY <1>1, <2>1
<1>5. ASSUME NEW c \in Calls, Call(c) PROVE BlocksLater' /\ StopAnswered'
  BY <1>5, AnswersCalls
<1>6. CASE Program
  <2>1. /\ todo # <<>> /\ Proceed(Head(todo)) /\ Records(Head(todo)) /\ Cycle(BusAccess(Head(todo)))
    BY <1>6 DEF Program
  <2>2. PICK fits \in BOOLEAN : Edge(BusAccess(Head(todo)), fits)
    BY <2>1, CycleIsEdge
  <2>3. DataStep(BusAccess(Head(todo)), fits)
    BY <2>1, <2>2, DataStepping
  <2>4. DriverStep(BusAccess(Head(todo)))
    BY <2>1, <2>3, ProgramMoves
  <2> QED BY <2>1, <2>3, <2>4, AnswersStep
<1> QED BY <1>2, <1>3, <1>4, <1>5, <1>6 DEF Next

(* Nor does a step in which nothing happens change them.                   *)
LEMMA AnswersStutter ==
  ASSUME BlocksLater, StopAnswered, UNCHANGED vars
  PROVE  BlocksLater' /\ StopAnswered'
<1>1. /\ ctrl' = ctrl /\ command' = command /\ cmd' = cmd /\ dat' = dat
      /\ call' = call /\ todo' = todo /\ resp' = resp /\ blocks' = blocks
  BY DEF vars, Sd!sdVars, Sd!clkVars, cardVars, driverVars
<1>2. /\ (Active' <=> Active) /\ (Starting' <=> Starting)
  BY <1>1 DEF Active, Starting
<1>3. Come' = Come
  BY <1>1 DEF Come, Through, Passed
<1>4. Uncounted' = Uncounted
  BY <1>1 DEF Uncounted, Acked, Ops
<1>5. BlocksLater'
  BY <1>1, <1>2, <1>3, <1>4 DEF BlocksLater
<1> QED BY <1>1, <1>2, <1>5 DEF StopAnswered

(* A read that returns has the whole response and all the words, if the    *)
(* clocks after a response are not more than the bits of a block: the stop *)
(* command may otherwise find the command state machine busy and be lost.  *)
THEOREM ReadsAreComplete ==
  ASSUME ~EarlyData, TailBits <= Words * WordBits + CrcBits
  PROVE  Spec => ReadsComplete
<1> DEFINE I == IInv /\ DataInv /\ BlocksLater /\ StopAnswered
<1>0. TailBits <= Sd!BlockBits + CrcBits
  BY DEF Sd!BlockBits
<1>1. Init => I
  <2> SUFFICES ASSUME Init PROVE I
    OBVIOUS
  <2>1. call = "none" /\ command = Sd!NoCommand
    BY DEF Init, Sd!Init
  <2>2. command.idx = "none"
    BY <2>1 DEF Sd!NoCommand, Sd!Command
  <2> QED BY <2>1, <2>2, InitInv, DataInit DEF BlocksLater, StopAnswered
<1>2. I /\ [Next]_vars => I'
  <2>1. IInv /\ [Next]_vars => IInv'
    BY NextInv, StutterInv
  <2> QED BY <1>0, <2>1, DataNext, DataStutter, AnswersNext, AnswersStutter
<1>3. ASSUME I, [Next]_vars, call \in Reading, call' = "none"
      PROVE  /\ call = "read_block" => Len(resp') = 2 /\ Len(buf') = Words
             /\ call = "read_blocks_stop" => Len(resp') = 4 /\ Len(buf') >= Words * Blocks
  <2>1. todo # <<>> /\ Proceed(Head(todo)) /\ Records(Head(todo))
    <3>0. call # "none"
      BY <1>3 DEF Reading
    <3>1. ~UNCHANGED vars /\ ~Tick /\ ~TimeOut /\ ~CardRests
      BY <1>3, <3>0 DEF vars, driverVars, Tick, TimeOut, CardRests
    <3>2. ~\E c \in Calls : Call(c)
      BY <3>0 DEF Call
    <3> QED BY <1>3, <3>1, <3>2 DEF Next, Program
  <2>2. Rest = <<>> /\ LoopEnds /\ ~(loop < Loops)
    <3>1. call # "none"
      BY <1>3 DEF Reading
    <3> QED BY <1>3, <2>1, <3>1 DEF Proceed, Rest
  <2>3. call = "read_blocks_stop" => loop = 2
    BY <1>3, <2>2 DEF Loops, IInv, DriverInv, DriverTypes
  <2> QED BY <1>3, <2>1, <2>2, <2>3, OneRead, SeveralRead
<1>4. I /\ [Next]_vars =>
        [/\ call = "read_block" /\ call' = "none" => Len(resp') = 2 /\ Len(buf') = Words
         /\ call = "read_blocks_stop" /\ call' = "none" =>
              Len(resp') = 4 /\ Len(buf') >= Words * Blocks]_vars
  BY <1>3 DEF Reading
<1> QED BY <1>1, <1>2, <1>4, PTL DEF Spec, ReadsComplete
=============================================================================
