# Verification of the digital parts of TO_Sep2025

The repository collects the designs of a tape-out on the IHP SG13G2 process.
Most of it is analog (schematics, layouts, reports).  Four submissions hold
programs or synthesisable logic of their own; the largest is `psoc-soc`, a
NEORV32 system on chip with an audio block, an SD card controller, a pin
multiplexer, a small cache and a boot loader.  This directory holds TLA+
models of that code, the TLC configurations that check them, and proofs.

Line numbers below are lines of the files under `src/`; `PROJECT.json` maps
every definition of the models to the lines it stands for.  Short file names
stand for

| name | file |
|---|---|
| `sfifo.v`, `i2s_master.v`, ... | `src/psoc-soc/src/src/hdl/audio/` |
| `sfifo_mem.v` | `src/psoc-soc/src/src/hdl/sg13g2/` (ASIC) and `.../fpga/` |
| `main.c` | `src/psoc-soc/src/src/sim/sg13g2/test_dac_sin/firmware/main.c` |
| `neosd_*.sv` | `src/psoc-soc/src/ext/neosd/rtl/` |
| `neosd*.cpp` | `src/psoc-soc/src/ext/neosd/sw/lib/source/` |
| `wb_xbar.v`, `io_wb_regfile.v` | `src/psoc-soc/src/src/hdl/` and `.../hdl/io/` |
| `neorv32_cache.vhd` | `src/psoc-soc/src/src/hdl/sg13g2/neorv32_cache.vhd` |
| `bootloader_xip.c`, `neorv_sh.py` | `src/psoc-soc/src/ext/psoc-xip-bootloader/bootloader_full/` |
| `main.cpp` | `src/psoc-soc/src/ext/neosd/sw/example/hello_sd/main.cpp` |

## 1. Inventory

### The system on chip (`src/psoc-soc`)

| component | state | operations | talks to |
|---|---|---|---|
| sample FIFO (`sfifo.v`, `sfifo_mem.v`) | two pointers, memory, output register | write, read, reset | register file (producer), I2S or DAC (consumer) |
| I2S transmitter (`i2s_master.v`) | bit clock, channel clock, shift buffer, request, read pulse, next word | one clock cycle; enabled, paused, reset | FIFO, clock generator |
| DAC front end (`psoc_dac_fpga.v`) | rate divider, validity of the word read, converted word, two accumulators | one clock cycle | FIFO |
| audio register file, clock generator, top (`i2s_wb_regfile.v`, `clock_generator.v`, `psoc_audio.v`) | CTRL0, threshold, two sample halves, commit pulse, acknowledge, read data | bus read, bus write | external bus gateway, all of the above |
| external bus gateway (`neorv32_xbus.vhd`) | access in progress, timeout counter | start, answer or give up | processor, crossbar |
| playback firmware (`main.c`) | which access is next, which sample | poll STAT0, write left, write right | gateway |
| SD controller (`neosd_top.sv`, `neosd_clk.sv`, `neosd_cmd_fsm.sv`, `neosd_dat_fsm.sv`, shift registers) | clock generator, CTRL, command register, two state machines, two shift registers | bus accesses, edges of the card clock | driver, card |
| SD driver (`neosd*.cpp`, `main.cpp`) | position in its loop, the flags it has seen, what it has read | read block, read and write many with stop, CMD2, select, reset | controller |
| FatFs disk layer (`diskio.cpp`) | none of its own | initialise, read | driver |
| wishbone crossbar (`wb_xbar.v`) | none (combinational) | decode, OR of the answers | gateway, audio, SD, IO |
| pin multiplexer (`io_wb_regfile.v`, `iomux.v`, `io_subsystem.v`) | output enables, pin functions | bus read, bus write | crossbar, pads |
| cache (`neorv32_cache.vhd`) | host and bus engines, tags, status bits, data | hit, miss, write back, flush, error | processor, memory bus |
| XIP boot loader and `neorv_sh.py` | command being received, page buffer; the messages the tool has to send, the replies not read | poke, erase, write, read, status, execute, reset, auto boot | UART, SPI flash |

### The other digital submissions

| component | state | operations | talks to |
|---|---|---|---|
| AC controller bridges (`src/picosoc_ac_controller`, `cbus_to_*_bridge.v`) | transfer counters, shift registers, ready flags, timeout | bus access turned into an SPI or UART transfer or a register access | picorv32, pins |
| ASICone serial interface (`src/asicone_202509`, `spi.v`) | shift register, position, registers, captured word | read and write of a register over SPI | external host |
| pad rings, FPGA tops, reset synchroniser | - | wiring | - |

### What is hard here

* **Everything moves at once.**  Each block reacts to the same clock edge and
  sees what the others had *before* it.  A pulse that is a cycle late meets a
  flag that has changed: the commit pulse of the register file, the read pulse
  of the transmitter, the strobes of the SD clock.
* **One memory port for two users.**  The FIFO's read and write share a port
  and the register file has to hold the bus back.
* **Two state machines share a stoppable clock.**  Either half of the SD
  controller stops the card's clock until software has read its register;
  the other half must neither lose a bit nor count one twice.
* **Flags shared between software and hardware.**  The SD driver clears flags
  by reading and writing the whole register while the hardware sets others.
* **A cache that keeps three memories in step.**  Status, tags and data change
  over many cycles, while the processor may send a request or a fence at any
  of them, and each is remembered in one bit.
* **A serial line without flow control.**  The boot loader does not listen while
  it waits for the flash, and its receiver holds one byte: only the discipline
  of one reply per message keeps the two sides together.
* **Giving up.**  The gateway, the SD driver, the UART bridge and the boot
  loader's host tool all abandon operations that may still complete.

What makes each part correct: the FIFO is a queue; samples come out of the
audio block in order and at most once, and playback does not stop; an
acknowledged write has happened; an SD response and a block arrive whole and
aligned in both directions; an SD call returns, only when the card is done,
and leaves no flag behind; an answer belongs to the access that asked for it; a cached
read returns what was last stored; a file is in the flash as a whole or not at
all.
`PROJECT.json` lists every hazard at its line with the properties aimed at it.

## 2. Modules

```
 BoundedQueue  <--refines--  SFifo --- MCSFifo, SFifoProofs
                               |
    I2sMaster  PsocDac  WbXbar  |
            \      |      |     |
                    PsocAudio (register file, clock generator, gateway, firmware)
                        |--- MCPsocAudio
                        '--- PsocAudioProofs

             NeoSD   SdCard (external)
                 \     /
                NeoSDDriver --- MCNeoSD
                      '--- NeoSDInvariant --- NeoSDControllerProofs
                                 --- NeoSDDriverProofs --- NeoSDDataProofs

 SpiFlash (external) --- XipBootloader
                              |
     FlashService <--refines-- NeorvSh (host tool, serial line) --- MCNeorvSh
                                  '--- NeorvShLoaderProofs --- NeorvShProofs

             NeorvCache --- MCNeorvCache, NeorvCacheProofs
```

**How hardware is written.**  One step is one rising edge of the clock.  Every
`always` block is an operator that assigns the registers the block drives
(`WritePointer`, `Shifter`, ...); a module's `Clock` is their conjunction, and
a wire is an operator over the current state.  So two blocks that look at each
other see old values, as nonblocking assignments do.

| module | models | correspondence |
|---|---|---|
| `BoundedQueue` | what the FIFO promises | abstract: `queue`, `out`; `Put`, `Get`, `Underrun`, `Clear` |
| `SFifo` | `sfifo.v`, both `sfifo_mem.v` | `SramMacro` chooses the ASIC's single-ported macro or the FPGA's inferred memory; alone, its inputs are driven at will |
| `I2sMaster` | `i2s_master.v` | a frame in the shift buffer is a word and a count of shifts |
| `PsocDac` | `psoc_dac_fpga.v` | |
| `WbXbar` | `wb_xbar.v`, `io_wb_regfile.v` | decoder and ORed answers; the pin multiplexer's registers as the second slave |
| `PsocAudio` | `i2s_wb_regfile.v`, `clock_generator.v`, `psoc_audio.v`, gateway, `main.c` | `Tick` (no new access), `Playback` (the firmware starts its next access), `Control` (other software writes a setting), `ChipReset` |
| `NeoSD` | the SD controller | the clock generator with its strobes; `cmd` and `dat` are the two state machines; a shift register is the number of the bit at its top and of the bit that came in last |
| `SdCard` | a card (external) | from how the controller and `test.py` use one: samples at rising, moves at falling edges; delays are chosen freely from sets |
| `NeoSDDriver` | the driver, composed with the two | `Tick`, `Program` (the driver's next access), `TimeOut`, `Call(c)`, `CardRests`; `todo` is the list of accesses left for the flags the loop has seen |
| `SpiFlash` | the flash behind the loader (external) | write-enable latch, busy bit, contents by words; a word programmed twice is `Garbled` |
| `XipBootloader` | `bootloader_xip.c` and its UART | `pc` is where the loader waits: `boot` window, `main` loop, `addr`, `len`, `data`, then the flash steps `wren`, `op`, `poll`, or `read`, `reply` |
| `NeorvSh` | `neorv_sh.py`, composed with the two | `Begin` (a command of the user, as the list of its messages), `Send`, `TakeReply`, `Timeout`; `Arrive` and `Transmit` are the serial line |
| `FlashService` | what tool and loader promise | abstract: `image`; `Write` a file, `EraseSector` |
| `NeorvCache` | `neorv32_cache.vhd` | `Host`, `Memories` and `Bus` are the three entities; `seen` is the read registers of the memories; `fresh` and `want` are what a read may return |

In the audio and the SD system the program may make its next access in any cycle or not at
all in that cycle, so every relative timing of software and hardware occurs.

### Abstractions

* A stereo sample is its number in the stream, separately for its two halves;
  0 is a half that was never written, which is also silence.  A wrong order, a
  repeated or a torn sample is thus visible.
* A bit on an SD line is its position.  A register that was cut one bit early
  shows the wrong number.
* SD checksums are an input: each may fit or not.
* Stores to the audio block and the pin multiplexer are whole words (the
  firmware's are).
* On the serial line an address or a length travels as one item, and the data
  as words: the tool reads its file in words (`np.fromfile(dtype='I')`), so the
  loader never meets a part of one.  Every step of the loader's program is much
  shorter than a byte on the line, so a byte arrives only while the loader waits
  for something (`Waits`); it may wait for the flash.
* A word in the cache is its address and one of two versions: a word from the
  wrong block, or an old one, is visible.  While a download waits for the memory
  the code writes whatever is on the bus; that is `Junk`.
* Requests of the processor to a cached address keep their lines until the next
  access, as the CPU does; after that the lines may show another device's.

## 3. Runs

| run | question | result |
|---|---|---|
| `sfifo` | Is the FIFO, driven at will, a bounded queue? | holds, 1,224 states |
| `audio` | FPGA build: samples in order, none twice, playback goes on, the bus is stalled for a cycle at most, only the addressed slave answers? | holds, 504,366 states |
| `audio_asic` | Does a read deliver the oldest sample, as `sfifo.v:12` says, in the ASIC? | violated |
| `audio_ack` | Has an acknowledged write taken effect? | violated |
| `audio_stall` | Does every stall of the bus end? | violated |
| `neosd` | All five driver calls, any timing of the program: whole and aligned transfers, calls return and leave no flags? | holds, 131,033 states |
| `neosd_early` | The same for data that starts two clocks after the command, which the controller says it allows? | violated |
| `neosd_stop_busy` | Does a multiple write wait for the card? | violated |
| `neosd_stop_hang` | Does a multiple write return? | violated |
| `xip` | Boot loader and host tool: replies answer their commands, the flash is written as a whole, the loader does not get stuck? | holds, 225,463 states |
| `xip_poke` | Is that so after a poke in the boot window, as the tool's manual has it? | violated |
| `cache` | Both modes of the cache: fresh reads, fences after the write back, every request answered, nothing else answered? | holds, 93,402 states |

Each property names in its comment the code it is about, and `PROJECT.json`
gives for each a mutant of the code (written next to the definition it
replaces and marked "Mutant") that breaks it.

### Bounds, and why they are enough

* `sfifo`: `Depth = 4`, two words.  The pointers run through all eight values
  against each other; the proofs below cover every depth.
* `audio*`: `Depth = 2` (256): one word and full are different states, and the
  firmware fills the FIFO many times over.  `FrameBits = 4` (64): the first and
  last bit of each channel differ.  `SclkDiv = 2` (16) and `DacDiv = 3` (2048)
  are the smallest at which the strobes are single cycles; smaller dividers
  make *more* read cycles meet bus accesses.  `TimeoutVal = 4` is just above the
  longest legal access.  `Samples = 3`: the stream is longer than the FIFO; after
  the last sample the firmware is done and the outputs run dry, so underruns occur.
  `Settings` are what software writes to CTRL0: in the passing run reset, I2S
  and DAC, in the violation runs also "all off" and the threshold.
* `neosd`: command 16 bits, response registers 12 with 8 or 6 in the first,
  words of 8 clocks (four data lines), two words per block, checksum 8, tail 8,
  two blocks per transfer.  What matters is the order of the lengths, not
  their size: a response has two (long: five) registers, a block several words,
  and a card may be ready at once or stay busy beyond the end of the response
  (`DataDelays = {2, 36}`).  The violation runs use the real widths (48, 32, 16
  or 8, 8, 16, 8), so their traces are the hardware's.
* `xip*`: three sectors of four words (128 of 16384), pages of two (64).  The files
  end inside and at the end of a page and of a sector, and one is empty; the
  addresses start at, and inside, a sector, and in the last one.  An erased address is
  inside the flash, or beyond it: then the flash takes the remainder.  `RxDepth = 1` is the
  code's (`neorv32_top.vhd:118-119`), `TxDepth = 2` the FIFO and the shift register.
  `UseAfterWindow = FALSE` keeps the passing run to the order of use that works:
  after a poke in the boot window the user pokes again or reopens the tool, which
  empties its input; `xip_poke` sets it to `TRUE`.  `SlowFlash = FALSE`: an erase or a program
  ends within the second for which the tool waits; a 64 KB sector of common flashes may take
  up to two.  `SecondWords` is what the line carries in that second (11520 bytes, 2880
  words): 3 is the longest read of the runs, so that no read is given up while its data
  comes.  Section 4 tells what other values of the two show.
* `cache`: two blocks of two words, two tags: the smallest in which a block is
  evicted, a flush has a next block and a block has a last word.  The words are
  numbered: 1, 4 and 5 compete for one block frame, 3 lives in the other; the memory
  cannot deliver 5; behind a read-only cache word 1 changes.  Word n holds 2n or
  2n + 1, so a word of the wrong block shows.  The memory answers after any
  number of cycles, a fence comes in any cycle.
* The four-line mode stands for `CTRL_D4`; with one line a word takes 32 clocks
  instead of 8 and nothing else changes.
* `NeoSDAssumption` asks for `Prescale * (ClkDiv + 1) >= 2`: the clock generator
  must not strobe in every cycle.  The selectable prescalers are all at least 2;
  only the high-speed bit breaks it, which nothing in the repository sets.

### Fairness

* `PsocAudio`: `WF_vars(Next)`: the clock never stops.  Nothing is assumed of
  the software: it may stop for good.  The passing run uses `ResetToStop`:
  software stops the transmitter only together with a reset, as `main.c:49-50`
  does on its way to playing; `audio_stall` shows what happens otherwise.
* `NeorvSh`: weak fairness of the loader's program, the two directions of the line,
  the flash (it gets done) and the tool's own steps (it sends, reads what is there
  or times out).  Nothing is assumed of the user.
* `NeorvCache`: the clock runs, and `WF_vars(Clock(TRUE))`: a memory that is waited for
  does answer.  The XIP accesses behind the SoC's cache have no time limit
  (`neorv32_top.vhd:794`), and their engine ends every transfer.
* `NeoSDDriver`: `WF_vars(Next)` (the clock), `WF_vars(Program)` (the processor
  is not held up for good; it polls in a loop), `SF_vars(TimeOut)` (the time
  limit of `neosd_cmd_wait_res` runs out if no response comes: the time counter
  runs whatever the loop does, so being between two polls does not stop it).
* A time out is taken only for a card that stays silent: the real limit is far
  longer than a card may take (64 clocks).

## 4. What the runs found

1. **ASIC FIFO loses a sample** (`audio_asic`).  `sfifo.v:12` promises that reads
   have priority.  The commit pulse comes a cycle after the bus strobe was
   checked against the stall, so it can meet a read; the macro (`sfifo_mem.v:36`)
   then writes at the *read* address: the new sample takes the oldest one's
   place and the output's, and the write pointer stays.
2. **A dropped write is acknowledged** (`audio_ack`).  A strobe in a FIFO read
   cycle is not taken (`i2s_wb_regfile.v:109`) and never repeated, while the
   acknowledge follows `cyc`.  A write to CTRL0 is lost, or half a sample.
3. **The bus can stall for good** (`audio_stall`).  The read pulse ends only in a
   cycle with `clk_en` (`i2s_master.v:113-123`); clearing I2S_EN in the cycle in
   which it rises keeps the FIFO being read and every later access stalled.
4. **A response may be cut a bit early** (`neosd_early`).  STATE_WAIT_RESP leaves
   at a strobe without looking at the clock's stall (`neosd_cmd_fsm.sv:149`).
   It takes data that arrives while the response is under way, which the
   comment on line 115 allows for and real read commands may do.
5. **The stop command of a write does not wait** (`neosd_stop_busy`).  The abort
   bit is a level (`neosd_top.sv:152`) and aborts the busy phase that the same
   command starts.
6. **A multiple write can hang** (`neosd_stop_hang`).  DAT_DONE of that aborted
   phase may rise between the read and the write of CTRL that clear CMD_DONE
   (`main.cpp:550`); the loop then waits for a flag that was overwritten.
7. **The poke is answered twice** (`xip_poke`).  In its boot window the loader
   answers a byte that it only looks at (`bootloader_xip.c:216-218`); the main loop
   then takes the same byte as a poke and answers again.  The tool reads the surplus
   answer as that of its next command, and so on.  For an erase or a write this
   means that the next page is sent while the loader waits for the flash:
   under the same configuration `BusyLoaderUndisturbed`, `WritesAreWhole` and
   `LoaderReturns` fail too.

Three defects have no run of their own: the configurations of the passing runs stop
short of them.

* **A late reply answers the wrong command.**  `xip` with `SlowFlash = TRUE` violates
  `ReplyAnswersCommand`.  After a second the tool goes on as if the reply had come
  (`neorv_sh.py:133, 210, 274`).  The reply of a slow erase then counts for the next
  message, which the loader cannot even receive while it waits for the flash.
* **A long read leaves data behind.**  `xip` with `SecondWords = 2` violates
  `ReplyAnswersCommand`.  The second is for all bytes of a read (`neorv_sh.py:240`); above
  11520 bytes the tool gives up and fails at line 250 while it formats what has come,
  and the loader goes on sending.  The tool, started again, takes the next byte of data for
  the answer to its poke, and the answer to the poke for that to its first command.
  In both settings `TypeOK`, `BusyLoaderUndisturbed`, `WritesAreWhole` and
  `LoaderReturns` are violated as well.
* **A refused store is answered again and again.**  After a store to the read-only cache,
  S_ERROR (`neorv32_cache.vhd:509`) leaves `req_buf` set.  The error line pulses in every
  other cycle as long as the request lines show a store, and when they show a read of
  another device the cache takes it for its own, downloads a block and acknowledges.
  The gateway joins the answers of all devices, so either ends an access to another one.
  `cpu.adoc:455-456` wants one cycle of either line for an access;
  `ResponsesAnswerRequests` states that for all cycles but those after a refused store.
  The model (`LinesIn`, `refused`) lets no access follow such a store, and `ReadsFresh` is
  about histories within that limit.  Without it TLC shows it violated: a second store that
  meets the cache in such a spurious access is acknowledged as a hit, but not done.

The read, modify, write of finding 6 is harmless in the read functions, which
`CallsEnd` and `ReadsComplete` show: there the data side stops the clock until the
program has read what it waits for, so nothing rises meanwhile.

Noticed while reading, outside what is modelled: `psoc_dac_fpga.v:85-86` drives
`phone_l` from `accum_r` and `phone_r` from `accum_l`; the two busy bits of `neosd.h` are swapped against `neosd_top.sv:201-202`; `main.cpp:451`
clears CMD_RESP where it means CMD_DONE; `neosd_acmd_commit` is passed the
*status code* NEOSD_TIMEOUT as its time limit (`neosd_app.cpp`, `main.cpp:42,78`);
`neosd_app_card_init` sends CMD7 without waiting for busy (its own FIXME,
`neosd_app.cpp:178`); `neosd_app_read_block` has no time limit and ignores the
checksum; the software reset does not empty the audio FIFO;
a file that ends at the end of a sector has the next sector erased too, the first
one after the last (`neorv_sh.py:198`; `FlashService!Cleared` says so); `psoc-xip-bootloader`'s
README gives the boot window as 5 and as 8 seconds in neighbouring lines (88, 90).

## 5. Proofs

TLC checks the instances of section 3; the theorems here hold for every value of
the constants that the named assumptions allow.  TLC evaluates the assumptions in
the runs.  `PROJECT.json` lists the theorems.

### Sample FIFO (`SFifoProofs`)

| theorem | statement |
|---|---|
| `TypeCorrect` | `Spec => []TypeOK` |
| `FillIsBounded` | `Spec => []FillBounded`: never more words than cells |
| `FifoImplementsQueue` | `Spec => ImplementsQueue`: the FIFO is a bounded queue |

*Assumptions*: `SFifoAssumption` (a depth of at least one, some word).  The
specification itself contains one promise of the environment (`Accepts`): the
ASIC's producer does not write in a cycle that reads.  The FPGA's memory needs
none.  Finding 1 is exactly that the audio block does not keep the promise.

*Argument*.  The code tells full from empty by one extra pointer bit, so pointers
count modulo `2 * Depth`; `Advance` and `Slot` write that out with comparisons,
which keeps the arithmetic linear.  `TypeOK` is inductive (`TypeStep`).
`FillBounded` is not: a fill level says nothing unless the pointers are in range,
so `TypeOK /\ FillBounded` is the inductive invariant (`FillStep`).  `StepKinds`
shows that a clock cycle does one of five things: write, read, read when empty,
reset, nothing.  Under the refinement mapping (`queue` is the memory between the
pointers, `out` the output register) each is a step of the queue:
`WriteAppends` needs that the cell written is none of those stored
(`StoredCells`), `ReadDropsHead` that all others keep their place.

### Audio block (`PsocAudioProofs`)

| theorem | statement | for |
|---|---|---|
| `TypeCorrect` | `[]TypeOK` | all |
| `OnlyTheAddressedSlaveAnswers` | `[]OnlyAddressedAnswers` | all |
| `ChannelClockLeadsTheFrame` | `[]ChannelClockLeads` | all |
| `StallsAreShort` | `StallIsShort` | R |
| `I2sReadsWords` | `[]I2sReadsAWord` | R |
| `CommitsFindSpace` | `[]CommitFindsSpace` | R, T |
| `SamplesStoredInOrder` | `[]StoredInOrder` | all |
| `SamplesSentInOrder` | `[]SentInOrder` | R, F, one output |
| `SamplesConvertedInOrder` | `ConvertedInOrder` | R, F, DAC |
| `ReadsComeFirstOnFpga` | `ReadHasPriority` | F |

*Assumptions*: `AudioAssumption` (sizes; the dividers are at least 2 and 3, the
frame at least 4 bits and even) and `SettingsAssumption` (which registers other
software writes; the two sample registers are the firmware's own).  Some theorems need more:

* R, `ResetToStop`: software stops the transmitter only together with a reset, as
  `main.c:49-50` does.  Finding 3 is what happens otherwise.
* T, `TimeoutVal >= 3`: the gateway waits longer than an access takes (255 at
  `neorv32_top.vhd:101`).
* F, `~SramMacro`: the FPGA's memory.  Finding 1 shows that the ASIC's loses a sample,
  and `audio_asic` violates there what `ReadsComeFirstOnFpga` proves here.
* One output (`OneOutput`): software selects I2S or the DAC, not both, as the firmware
  does; `DacInItsMode`: it does not turn the DAC on in the transmitter's mode.

*Argument*.  `TypeOK` leaves some ranges open; `Shapes` adds them and is inductive.
The rest is built up in layers, each using the ones before.  *Stalls*: a strobe of
either divider is followed by a cycle without (`StrobesAreShort`), and a read
pulse ends at the next strobe or with the reset (`PulseEnds`); so a stall lasts a cycle.
*Space*: the status that the firmware polls is two writes and several cycles old
when the sample is committed.  `AnsweredInTime` says when an access is answered,
`PollAnswer` that a "not full" answer still holds while the read data is on its
way, and `RoomKept` carries the room from there to the commit: only commits take
room, and the firmware has none in flight when it polls.  *Order*: all that was committed is
earlier than the sample the firmware is at (`Earlier`), the words that wait are in
order (`InOrder`), later than the one at the FIFO's port (`PortFirst`), which is later than
the next word of the transmitter (`NextIsOlder`), which is later than the one in the
shift register (`SentIsOlder`).  The transmitter's chain holds only if what it takes was
read for it and in time (`RequestInTime`, `WordsInUse`, `OneOutputOn`); the DAC's
chain is `OutputFirst` and `FoundIsLater`.

### Cache (`NeorvCacheProofs`)

| theorem | statement |
|---|---|
| `TypeCorrect` | `Spec => []TypeOK` |
| `ReadsAreFresh` | `Spec => []ReadsFresh`: an acknowledged read returns what was last stored, or what the memory has held since the last fence, while no access follows a refused store |
| `FenceComesLast` | `Spec => []FenceAfterWriteback`: a fence is passed on when every store is in the memory |
| `AnswersAreAwaited` | `Spec => []ResponsesAnswerRequests` |

*Assumptions*: `CacheAssumption` only (some block, word and tag; who stores, which
addresses are in error, what others change).

*Argument*.  `Handshake` and `Working` say which of the two controllers waits for the
other, and for what: without them a cycle of the bus controller could follow any of
the host's.  `SeenInv` says what the read registers of the three memories show:
the control logic decides on what it addressed a cycle ago.  `BusInv` says which block the
bus controller moves, how many of its words it has moved, and which blocks a flush
has passed.  On these rest the invariants about data: a valid line's words, or
the memory's, are the fresh ones (`MemInv`, `WordInv`), and an open read wants one of them
(`ReadInv`).  They are one induction (`IInv`, `Invariant`): that a write-back reaches the right
words needs the tags, that a tag may be overwritten needs that the block is clean.

### Boot loader and host tool (`NeorvShLoaderProofs`, `NeorvShProofs`)

| theorem | statement |
|---|---|
| `TypeCorrect` | `[]TypeOK`: the page buffer holds no more than was announced, nor than a page |
| `LoaderUndisturbed` | `[]BusyLoaderUndisturbed`: no byte arrives while the flash is busy |
| `RepliesAnswerCommands` | `[]ReplyAnswersCommand` |
| `FilesAreWrittenWhole` | `WritesAreWhole`: seen between the tool's commands, the system implements `FlashService` |

*Assumptions*: `XipAssumption`, and the conditions of the passing run, each of which is
needed as section 4 shows: `~UseAfterWindow`, `~SlowFlash` and `ShortReads`, no read longer
than what the line carries in the tool's second.  The type invariant needs them
too: a loader that takes the wrong words for a command takes their length from them.

*Argument*.  Tool and loader share nothing but two queues, so the invariant must say
where every message is.  It is a disjunction of modes: in step (`Sync`), when the tool's
last message is on its way (`Arriving`: what the loader has parsed and what is in the
queues make it up, `Parsed`, `At`), carried out (`Executing`, `Reading`) or answered
(`Answered`); behind by a read of no bytes, whose reply the tool does not wait for
(`Draining`, `Trailing`, `Lagging`); in the boot window (`InWindow`, `Poking`); and
after the start of the program, when nobody answers (`Away`).  `Latch` ties the
flash's busy bit to the loader's polling.  `NeorvShLoaderProofs` shows that the steps
of the loader and the line keep it, `NeorvShProofs` that the tool's do.

*Refinement* (`FilesAreWrittenWhole`).  `FlashService` knows one variable, the contents of
the flash, and changes it for a whole file or a whole sector at a time.  The mapping
shows it the flash as it was when the command began (`before`), until the command is over;
so every step but the last of a command must be a stutter, and the last must find exactly
what `FlashService` promises.  `WholeInv` says where in between the flash is.  `Ongoing` is a
command that changes it; `Carried` counts the sectors or words of the
message at hand that are done, from where the loader and the queues are.  When `i`
messages of a file are done and `x` words of the next one, the flash is `Stage(before, a,
f, i, x)`: a message erases a sector until all that the file needs are erased, the others
program a page each, so its first words are in their places (`Writing`; `Erasing` is the
one message of an erase).  `Completed` says that the loader
answers only when all of a message is done, so that the tool may forget it.  The
proof is about two counts of the same words: the tool cuts the file into pages, the loader
programs the page buffer word by word, and a word is programmed once and into an erased
cell, or it would be `Garbled`.

### SD controller and driver (`NeoSDInvariant`, `NeoSDControllerProofs`, `NeoSDDriverProofs`, `NeoSDDataProofs`)

| theorem | statement |
|---|---|
| `Invariance` | `[]IInv`, the inductive invariant |
| `TypeCorrect` | `[]TypeOK` |
| `CommandsAligned` | `[]CommandAligned`: the card samples the bit of the command that is due |
| `ResponsesAligned` | `[]ResponseAligned`: the driver reads the whole response, cut at the right bits |
| `CallsStartClean` | `[]CallStartsClean`: no flag of one call is left for the next |
| `BusyIsRespected` | `BusyRespected`: SELECT does not return while the card is busy |
| `DataInvariance` | `[](IInv /\ DataInv)`, the inductive invariant of the data lines |
| `BlocksAligned` | `[]BlockAligned`: the card samples the bit of the block, of its checksum or its end that is due |
| `WordsAreInOrder` | `[]WordsInOrder`: the words read are those of the blocks, none lost, none twice |
| `TokensAligned` | `TokenAligned`: a written block is judged by the whole answer of the card |
| `ReadsAreComplete` | `ReadsComplete`: a read returns with all words and the whole response |

*Assumptions*: `NeoSDAssumption`.  Two of its bounds are there for the proof and hold in the
code with room to spare: the first register of a response has at least 4 bits (16 or 8
at `neosd_cmd_fsm.sv:126-139`; the two before the count starts must not be all of it), and the
clocks after a transfer are no more than the bits of a command (8 and 48), so that a
STOP is still being sent when the data state machine that it aborts has come to rest.  All
theorems suppose `~EarlyData`: data starts when the response is over.  With it,
`neosd_early` violates `ResponseAligned`.  There is no assumption about timing: the driver makes its next
access in any cycle or never, may give up a wait at any time when the card does not answer, and the card
delays responses, blocks and busy phases at will.  `ReadsAreComplete` also supposes that the
clocks after a response (8) are no more than the bits of a block with its checksum
(128 words and 16 bits): the command state machine ignores a command that comes during
those clocks (`command.commit` is gone at the next strobe), and the stop command of a read comes when
the first block is over.

*Argument*.  None of the properties is inductive: that a flag is clear when a call
starts depends on what every loop before has seen and cleared, and a flag rises when
a state machine comes to rest, which depends on what the card answers.
`NeoSDInvariant` states the invariant in two halves.

* `ControllerInv`, of the controller and the card.  `Strobes` and `Commanded` place the shift
  register of the command line against the card's count, before and after each edge of
  its clock; `Answered` does the same for the response, through the stall that waits for
  software to read a register.  `FlagsInv` ties the flags of CTRL to the
  states, and `FirstInv`, `FlowInv`, `AbortInv`, `StopInv`, `SelectInv`, `CidInv` say for each kind of
  command what the data state machine may be doing during and after it.
* `DriverInv`, of the driver in the middle of a function: `During(call, loop, todo, irq, blocks)`
  says what follows for the controller from the loop it is in, the flags it has read and the
  accesses it has still to make.  `Quits` is what a loop that ends must leave
  behind, `Legal` which accesses may wait in `todo`, `RespInv` how many registers of the
  response have been read.

`NeoSDControllerProofs` shows that one clock edge keeps the first half whenever the access is
`Permitted` (`ControllerStep`): no command is written over one that is in progress, no reset meets
a transfer, and a write to CTRL changes no setting.  `NeoSDDriverProofs` shows that the driver makes
permitted accesses only (`PermittedOps`), that what it knows stays true while the hardware
goes on (`DuringStays`), and that its own steps keep the second half
(`DriverProceeds`, `DriverCalls`, `DriverGivesUp`).  The delicate case is the read, modify, write with which the
driver clears a flag: a flag that rises between the two is lost, and one that rises after them
is still there in the next call.  So for every loop the invariant says which flags can still
rise once the loop has seen what ends it (`StopDone`, `ReadBlocksInv`, `WriteBlocksInv`, `SelectLoops`).  That
a lost flag may keep a call from returning (`neosd_stop_hang`) is about liveness, and no
business of these theorems: they hold in that run too.

`NeoSDDataProofs` adds a third layer, `DataInv`, which says of the data lines what `Commanded`
and `Answered` say of the command line.

* *The lines*.  `Lined` ties the outputs of the data state machine to its states.
  `ReadLine`, `WriteLine` and `WriteTask` say that the state machine, its shift register and the
  card count the same bits; they differ by one between an edge of the card clock
  and the strobe that follows (`Moved`, `Seen`).  This survives a program that is late, because
  the clock stops in the states that wait for a word (`LinesStep`), and a word that
  is awaited has not been shifted (`AskedWell`, `Prepared`).
* *The words*.  `DataFlow` relates what the driver has taken or given to where the state
  machine is: whole blocks, and of the current one as many words as the state machine
  has passed (`Due`, `Given`).  It needs the blocks too, for the driver ends
  the transfer by counting them: those it has counted, with those whose flag it has still to
  see (`Uncounted`), are at most those that are whole.  `Fresh` and `Over` are the two ends
  of a transfer, `Single` is the read of one block, `DataOps` says that a word is
  accessed only when it is asked for.  Then `WordsRead` is inductive.
* *The end of a read*.  The driver returns when it has seen the last flag that it waits
  for, with the controller at rest (`LastRound`).  For one block `Single` then gives words and
  response.  For several, `Over` gives the words, and the response is that of two
  commands if the second was sent: `BlocksLater` says that at most as many bits of the
  first block have come as clocks after the response have passed, so the stop command
  finds the command state machine at rest, and `StopAnswered` follows.

### Left to TLC

Every safety invariant, action property and refinement that a passing run checks is
proved.  TLC alone checks

* everything under fairness (`PlaybackGoesOn`, `CallsEnd`, `LoaderReturns`,
  `RequestsAnswered` and the liveness violations), and ENABLED: the prover has
  no rules for them;
* that the code does *not* do what the violation runs ask of it.

What a recursive definition computes for every input would be out of the prover's reach too,
but no module has one.

## 6. Not modelled, and why

* Of modelled parts: the I2S master clock output, the DAC's offset (a bijection)
  and accumulators (see the plan), byte enables, the interrupt masks, the
  high-speed bit, byte order and one-line rotation of the SD data registers,
  the contents of commands and responses, the short commands of the card's
  initialisation beyond CMD2 and select (they make the accesses of CMD2's loop).
  A reset of the chip is taken as one step between two clock edges.
* Of the crossbar: the SD controller's side.  Its answers obey the same rule, but
  the two systems together are out of TLC's reach, and the decoder keeps them apart.
* Of the cache: the bypass for uncached accesses and its bus switch (the SoC's only
  instance, the XIP cache, does not enable them, `neorv32_top.vhd:905-920`), byte enables.
* Of the boot loader: a reset of the board or a power loss in the middle of a command
  (the board is reset between two commands), Ctrl-C in the tool, files that do not start on a page of
  the flash (a program command that crosses a page), and the small loader that only boots.
* Of the tool's timing: it is a count of what has come (`Late`), not a clock.  Bytes left over from an
  earlier command count too, so that a read is given up early then; the user waits with the
  next session until the loader is idle or in the middle of sending a read (`UserActs`), never
  in the last byte times of a read that was given up.
* AC controller bridges and the ASICone serial interface: two other chips, each a
  counter and a shift register.  The hazards found while reading are in
  `PROJECT.json` without a property.
* Data memory of the ASIC, reset synchroniser: no control of their own.
* FatFs layer: calls the driver and keeps no state.
* Vendored: NEORV32 (but for the gateway), picorv32, FatFs, pad and cell models,
  the synthesised netlist.
* Analog submissions, layouts and the DRC workflow: no program to model.

## 7. Plan

Sample FIFO, audio block with crossbar and pin multiplexer, SD controller with driver,
boot loader with host tool, and cache are modelled, and their safety properties and
refinements are proved.  In order of weight, what is left:

1. **AC controller bridges** and **ASICone SPI**: a transfer ends and returns the
   bits that were on the line; the value read is the addressed register's.
2. **The DAC's accumulators**: the carries of a frame add up to the sample.
3. **A reset of the board in the middle of a command** of the boot loader: the next `Begin`
   then finds a flash that is neither the old image nor the new one, and the tool must be able to repeat it.
