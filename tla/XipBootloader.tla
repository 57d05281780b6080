--------------------------- MODULE XipBootloader ----------------------------
(***************************************************************************)
(* The XIP boot loader (bootloader_full/bootloader_xip.c) on its UART and  *)
(* its SPI flash.                                                          *)
(*                                                                         *)
(* Bytes, the fields of a command and the words of its data are numbers; a *)
(* field of several bytes travels and is taken as one.  pc is where the    *)
(* loader waits or what it does next.                                      *)
(***************************************************************************)
EXTENDS Naturals, Sequences

CONSTANTS
  Sectors, SectorWords, Erased, Garbled, Contents,
  RxDepth,  \* bytes in the receive FIFO, 1 in the code
  TxDepth   \* bytes in the transmit FIFO and the transmitter

VARIABLES
  flash, wel, wip,
  rx, tx,      \* what the UART has received and has to send
  pc,
  console_cmd,
  addr, len,
  page,        \* data_page
  data_idx     \* words of the page programmed, or bytes read

flashVars == <<flash, wel, wip>>

Spi == INSTANCE SpiFlash

(* The console commands. *)
POKE == 0
EXECUTE == 1
FLASH_WRITE == 2
FLASH_READ == 3
RESET == 4
ERASE_SECTOR == 6
STATUS_BYTE == 7

-----------------------------------------------------------------------------
(* The UART. *)

(* A byte arrives.  A full FIFO drops it. *)
Receive(v) == rx' = IF Len(rx) < RxDepth THEN Append(rx, v) ELSE rx

(* neorv32_uart0_getc, neorv32_uart0_char_received and neorv32_uart0_putc. *)
Getc == rx # <<>> /\ rx' = Tail(rx)
char_received == rx # <<>>
Putc(v) == Len(tx) < TxDepth /\ tx' = Append(tx, v)

Goto(p) == pc' = p

(* Back to the main loop.  No command reads what an earlier one has left   *)
(* in the variables, so they are cleared here.                             *)
Forget ==
  /\ console_cmd' = 0 /\ addr' = 0 /\ len' = 0
  /\ page' = <<>> /\ data_idx' = 0

-----------------------------------------------------------------------------
(* The auto-boot sequence: a byte within the time limit is answered, but   *)
(* not taken.                                                              *)
Poked ==
  /\ pc = "boot" /\ char_received
  /\ Putc(0)
  /\ Goto("main")
  /\ UNCHANGED <<rx, console_cmd, addr, len, page, data_idx, flashVars>>

AutoBoot ==
  /\ pc = "boot" /\ ~char_received
  /\ Goto("app")
  /\ UNCHANGED <<rx, tx, console_cmd, addr, len, page, data_idx, flashVars>>

-----------------------------------------------------------------------------
(* The main loop. *)

(* Where each command goes on.  Other bytes are ignored. *)
FirstStep(c) == CASE c \in {POKE, EXECUTE, RESET, STATUS_BYTE} -> "reply"
                  [] c \in {FLASH_WRITE, FLASH_READ, ERASE_SECTOR} -> "addr"
                  [] OTHER -> "main"

Command ==
  /\ pc = "main" /\ Getc
  /\ console_cmd' = Head(rx)
  /\ Goto(FirstStep(Head(rx)))
  /\ UNCHANGED <<tx, addr, len, page, data_idx, flashVars>>

TakeAddress ==
  /\ pc = "addr" /\ Getc
  /\ addr' = Head(rx)
  /\ Goto(IF console_cmd = ERASE_SECTOR THEN "wren" ELSE "len")
  /\ UNCHANGED <<tx, console_cmd, len, page, data_idx, flashVars>>

TakeLength ==
  /\ pc = "len" /\ Getc
  /\ len' = Head(rx)
  /\ page' = <<>> /\ data_idx' = 0
  /\ Goto(CASE console_cmd = FLASH_WRITE -> IF len' > 0 THEN "data" ELSE "reply"
            [] console_cmd = FLASH_READ -> IF len' > 0 THEN "read" ELSE "main")
  /\ UNCHANGED <<tx, console_cmd, addr, flashVars>>

(* Mutant: the loop over the data runs once too often. *)
LastDatumLate == Len(page) = len

LastDatum == Len(page) + 1 = len

TakeData ==
  /\ pc = "data" /\ Getc
  /\ page' = Append(page, Head(rx))
  /\ Goto(IF LastDatum THEN "wren" ELSE "data")
  /\ UNCHANGED <<tx, console_cmd, addr, len, data_idx, flashVars>>

-----------------------------------------------------------------------------
(* The flash functions: each erase and each word takes a write enable, the *)
(* command and a wait until the flash is ready.                            *)
Wren ==
  /\ pc = "wren"
  /\ Spi!WriteEnable
  /\ Goto("op")
  /\ UNCHANGED <<rx, tx, console_cmd, addr, len, page, data_idx>>

(* Mutant: the loader does not wait for the flash. *)
AfterOperationAtOnce == "reply"

AfterOperation == "poll"

Operate ==
  /\ pc = "op"
  /\ IF console_cmd = ERASE_SECTOR
     THEN Spi!Erase(addr) /\ UNCHANGED data_idx
     ELSE Spi!Program(addr + data_idx, page[data_idx + 1]) /\ data_idx' = data_idx + 1
  /\ Goto(AfterOperation)
  /\ UNCHANGED <<rx, tx, console_cmd, addr, len, page>>

(* Mutant: one write enable for all words of a page. *)
NextWordUnlatched ==
  IF console_cmd = FLASH_WRITE /\ data_idx < len THEN "op" ELSE "reply"

NextWord == IF console_cmd = FLASH_WRITE /\ data_idx < len THEN "wren" ELSE "reply"

Poll ==
  /\ pc = "poll" /\ ~wip
  /\ Goto(NextWord)
  /\ UNCHANGED <<rx, tx, console_cmd, addr, len, page, data_idx, flashVars>>

ReadAndSend ==
  /\ pc = "read"
  /\ \E v \in Spi!Read(addr + data_idx) : Putc(v)
  /\ IF data_idx + 1 < len
     THEN /\ data_idx' = data_idx + 1 /\ Goto("read")
          /\ UNCHANGED <<console_cmd, addr, len, page>>
     ELSE Forget /\ Goto("main")
  /\ UNCHANGED <<rx, flashVars>>

(* Mutant: an erase is answered like a write. *)
AnswerZero == CASE console_cmd = STATUS_BYTE -> Spi!Status
                [] console_cmd \in {FLASH_WRITE, ERASE_SECTOR} -> 0
                [] OTHER -> console_cmd

Answer == CASE console_cmd = STATUS_BYTE -> Spi!Status
            [] console_cmd = FLASH_WRITE -> 0
            [] OTHER -> console_cmd

Reply ==
  /\ pc = "reply"
  /\ Putc(Answer)
  /\ Goto(CASE console_cmd = EXECUTE -> "app"
            [] console_cmd = RESET -> "reset"
            [] OTHER -> "main")
  /\ Forget
  /\ UNCHANGED <<rx, flashVars>>

(* A start of the loader sets up the UART anew. *)
Restart ==
  /\ rx' = <<>> /\ tx' = <<>>
  /\ Forget
  /\ Goto("boot")

(* The jump to the boot ROM, once the answer has been sent. *)
Jump ==
  /\ pc = "reset" /\ tx = <<>>
  /\ Restart
  /\ UNCHANGED flashVars

Loader ==
  \/ Poked \/ AutoBoot
  \/ Command \/ TakeAddress \/ TakeLength \/ TakeData
  \/ Wren \/ Operate \/ Poll \/ ReadAndSend \/ Reply \/ Jump

-----------------------------------------------------------------------------
Listening == {"boot", "main", "addr", "len", "data"}

(* The loader can only wait: for a byte, the flash or the transmitter. *)
Waits ==
  \/ pc \in Listening /\ rx = <<>>
  \/ pc = "poll" /\ wip
  \/ pc \in {"boot", "read", "reply"} /\ Len(tx) = TxDepth
  \/ pc = "reset" /\ tx # <<>>
  \/ pc = "app"

TypeOK ==
  /\ Spi!TypeOK
  /\ rx \in Seq(Nat) /\ Len(rx) <= RxDepth
  /\ tx \in Seq(Nat) /\ Len(tx) <= TxDepth
  /\ pc \in Listening \cup {"wren", "op", "poll", "read", "reply", "reset", "app"}
  /\ {console_cmd, addr, len, data_idx} \subseteq Nat
  /\ page \in Seq(Nat) /\ Len(page) <= len /\ data_idx <= len
=============================================================================
