------------------------------ MODULE NeorvSh -------------------------------
(***************************************************************************)
(* The command line tool neorv_sh.py on a PC, the serial line and the XIP  *)
(* boot loader: how a file gets into the flash.                            *)
(***************************************************************************)
EXTENDS Naturals, Sequences

CONSTANTS
  Sectors, SectorWords, Erased, Garbled, Contents, RxDepth, TxDepth,
  PageWords,       \* words the tool sends in one go, 64 in the code
  Old, Files, WriteAddrs, EraseAddrs,
  Reads,           \* the <<address, length>> that may be read
  SecondWords,     \* words the line carries while the tool waits: 11520 bytes, 2880 words
  UseAfterWindow,  \* TRUE: commands also follow a poke in the boot window
  SlowFlash        \* TRUE: the flash may take longer than the tool waits

ASSUME XipAssumption ==
  /\ {Sectors, SectorWords, RxDepth, TxDepth, PageWords, SecondWords} \subseteq Nat \ {0}
  /\ {Erased, Garbled} \subseteq Contents /\ Contents \subseteq Nat
  /\ Files \subseteq Seq(Contents)
  /\ WriteAddrs \subseteq Nat /\ EraseAddrs \subseteq Nat /\ Reads \subseteq Nat \X Nat
  /\ Old \in [0 .. Sectors * SectorWords - 1 -> Contents]
  /\ {UseAfterWindow, SlowFlash} \subseteq BOOLEAN

VARIABLES
  flash, wel, wip,
  rx, tx, pc, console_cmd, addr, len, page, data_idx,
  line,    \* bytes on their way to the loader
  ser_in,  \* bytes the tool has received and not read
  host,    \* "closed", "prompt", or what a command does: "send", "wait"
  todo,    \* the messages the command still has to send
  window,  \* the loader was in its boot window during this session
  before   \* the contents of the flash when the command began

hostVars == <<host, todo, window, before>>

Boot == INSTANCE XipBootloader
Spi == INSTANCE SpiFlash

uartVars == <<rx, tx>>
flashVars == <<flash, wel, wip>>
loaderVars == <<pc, console_cmd, addr, len, page, data_idx>>
vars == <<flashVars, uartVars, loaderVars, line, ser_in, hostVars>>

DEMO == 8

-----------------------------------------------------------------------------
(* The messages of the commands. *)

StopSector(a, f) == (a + Len(f)) \div SectorWords

EraseMessages(a, f) ==
  LET start == a \div SectorWords
  IN  [i \in 1 .. StopSector(a, f) + 1 - start |->
         <<Boot!ERASE_SECTOR, (start + i - 1) * SectorWords>>]

(* Mutant: a page takes the first word of the next one with it. *)
PageMessagesOverlap(a, f) ==
  [i \in 1 .. Len(f) \div PageWords + 1 |->
     LET start == (i - 1) * PageWords
         data == SubSeq(f, start + 1,
                        IF start + PageWords < Len(f) THEN start + PageWords + 1 ELSE Len(f))
     IN  <<Boot!FLASH_WRITE, a + start, Len(data)>> \o data]

(* The pages of a file.  The last one may be empty. *)
PageMessages(a, f) ==
  [i \in 1 .. Len(f) \div PageWords + 1 |->
     LET start == (i - 1) * PageWords
         data == SubSeq(f, start + 1,
                        IF start + PageWords <= Len(f) THEN start + PageWords ELSE Len(f))
     IN  <<Boot!FLASH_WRITE, a + start, Len(data)>> \o data]

(* The tool refuses a file that does not fit. *)
Fits(a, f) == a + Len(f) <= Spi!Size

(* The bytes of the reply to a message. *)
Want(m) == IF Head(m) = Boot!FLASH_READ THEN m[3] ELSE 1

(* What the user may ask for. *)
Simple == {Boot!POKE, Boot!EXECUTE, Boot!STATUS_BYTE, Boot!RESET, DEMO}

Requests ==
  {<< <<c>> >> : c \in Simple}
  \cup {<< <<Boot!FLASH_READ, r[1], r[2]>> >> : r \in Reads}
  \cup {<< <<Boot!ERASE_SECTOR, a>> >> : a \in EraseAddrs}
  \cup {EraseMessages(w[1], w[2]) \o PageMessages(w[1], w[2]) :
          w \in {w \in WriteAddrs \X Files : Fits(w[1], w[2])}}

Poke == << <<Boot!POKE>> >>

-----------------------------------------------------------------------------
(* The tool. *)

Quiet == line = <<>> /\ tx = <<>> /\ Boot!Waits

(* The user is slower than the loader, but for a flash that is busy and    *)
(* the rest of a read that the tool has given up.                          *)
UserActs == Quiet \/ (line = <<>> /\ pc = "read")

(* The port is opened, with an empty input buffer, and the loader poked. *)
Open ==
  /\ host = "closed" /\ UserActs
  /\ ser_in' = <<>>
  /\ host' = "send" /\ todo' = Poke
  /\ window' = (pc = "boot")
  /\ before' = flash
  /\ UNCHANGED <<flashVars, uartVars, loaderVars, line>>

(* The user gives a command, once the bytes of the last one are out. *)
Begin(r) ==
  /\ host = "prompt" /\ line = <<>>
  /\ window /\ ~UseAfterWindow => r = Poke
  /\ host' = "send" /\ todo' = r
  /\ window' = (window \/ r[1] = <<Boot!RESET>>)
  /\ before' = flash
  /\ UNCHANGED <<flashVars, uartVars, loaderVars, line, ser_in>>

Send ==
  /\ host = "send"
  /\ line' = line \o Head(todo)
  /\ host' = "wait"
  /\ UNCHANGED <<flashVars, uartVars, loaderVars, ser_in, todo, window, before>>

(* The next message of the command, or the prompt. *)
GoOn ==
  /\ todo' = Tail(todo)
  /\ host' = IF Tail(todo) = <<>> THEN "prompt" ELSE "send"

Replied == host = "wait" /\ Len(ser_in) >= Want(Head(todo))

TakeReply ==
  /\ Replied
  /\ ser_in' = SubSeq(ser_in, Want(Head(todo)) + 1, Len(ser_in))
  /\ GoOn
  /\ UNCHANGED <<flashVars, uartVars, loaderVars, line, window, before>>

(* The second in which the tool waits for a reply is over: nothing comes,  *)
(* with only the flash to make the loader that late, or the reply is too   *)
(* long for the line.                                                      *)
Late ==
  \/ Quiet /\ (pc = "poll" => SlowFlash)
  \/ line = <<>> /\ Len(ser_in) >= SecondWords

(* A missing reply goes unnoticed, or ends the tool with an exception; so  *)
(* does a reply that is too short.  The loader does not learn of it.       *)
Timeout ==
  /\ host = "wait" /\ ~Replied /\ Late
  /\ ser_in' = <<>>
  /\ IF Head(Head(todo)) \in {Boot!STATUS_BYTE, Boot!FLASH_READ}
     THEN host' = "closed" /\ todo' = <<>>
     ELSE GoOn
  /\ UNCHANGED <<flashVars, uartVars, loaderVars, line, window, before>>

Exit ==
  /\ host = "prompt"
  /\ host' = "closed"
  /\ UNCHANGED <<flashVars, uartVars, loaderVars, line, ser_in, todo, window, before>>

-----------------------------------------------------------------------------
(* The serial line, and the reset of the board. *)

(* A byte takes longer than any step of the loader's program, so it        *)
(* arrives only while the loader waits.                                    *)
Arrive ==
  /\ line # <<>> /\ Boot!Waits
  /\ Boot!Receive(Head(line))
  /\ line' = Tail(line)
  /\ UNCHANGED <<flashVars, tx, loaderVars, ser_in, hostVars>>

Transmit ==
  /\ tx # <<>>
  /\ tx' = Tail(tx)
  /\ ser_in' = IF host = "closed" THEN ser_in ELSE Append(ser_in, Head(tx))
  /\ UNCHANGED <<flashVars, rx, loaderVars, line, hostVars>>

(* The user resets the board between two commands, once in a session. *)
ResetBoard ==
  /\ host \in {"closed", "prompt"} /\ UserActs
  /\ host = "prompt" => ~window
  /\ Boot!Restart
  /\ window' = TRUE
  /\ UNCHANGED <<flashVars, line, ser_in, host, todo, before>>

LoaderStep == Boot!Loader /\ UNCHANGED <<line, ser_in, hostVars>>

FlashDone == Spi!Done /\ UNCHANGED <<uartVars, loaderVars, line, ser_in, hostVars>>

(* After a start of the board, or after an earlier session of the tool. *)
Init ==
  /\ flash = Old /\ wel = FALSE /\ wip = FALSE
  /\ rx = <<>> /\ tx = <<>>
  /\ pc \in {"boot", "main"}
  /\ console_cmd = 0 /\ addr = 0 /\ len = 0 /\ page = <<>> /\ data_idx = 0
  /\ line = <<>> /\ ser_in = <<>>
  /\ host = "closed" /\ todo = <<>> /\ window = FALSE /\ before = Old

Next ==
  \/ Open
  \/ \E r \in Requests : Begin(r)
  \/ Send
  \/ TakeReply
  \/ Timeout
  \/ Exit
  \/ Arrive
  \/ Transmit
  \/ LoaderStep
  \/ FlashDone
  \/ ResetBoard

(* Programs go on, bytes arrive and the flash gets done.  What the user    *)
(* does is up to the user.                                                 *)
Fairness ==
  /\ WF_vars(LoaderStep) /\ WF_vars(Arrive) /\ WF_vars(Transmit) /\ WF_vars(FlashDone)
  /\ WF_vars(Send) /\ WF_vars(TakeReply) /\ WF_vars(Timeout)

Spec == Init /\ [][Next]_vars /\ Fairness

-----------------------------------------------------------------------------
(* The registers, buffers and places stay in their ranges; a page is not   *)
(* longer than was announced (bootloader_xip.c:294), nor than the buffer   *)
(* for it (line 244).                                                      *)
TypeOK ==
  /\ Boot!TypeOK /\ Len(page) <= PageWords
  /\ line \in Seq(Nat) /\ ser_in \in Seq(Nat)
  /\ host \in {"closed", "prompt", "send", "wait"}
  /\ todo \in Seq(Seq(Nat)) /\ (todo = <<>> <=> host \in {"closed", "prompt"})
  /\ window \in BOOLEAN
  /\ before \in [Spi!Address -> Contents]

(* While the flash erases or programs (bootloader_xip.c:364 and 438) no    *)
(* byte is on its way to the loader: its receive FIFO would drop all but   *)
(* one, as the line has no flow control.                                   *)
BusyLoaderUndisturbed ==
  wip \/ pc \in {"wren", "op", "poll"} => line = <<>> /\ rx = <<>>

(* A reply that the tool reads (neorv_sh.py:152-296) is the answer to the  *)
(* message it sent last, not to an earlier one.                            *)
AnswerTo(m) ==
  CASE Head(m) \in {Boot!POKE, Boot!EXECUTE, Boot!RESET, Boot!ERASE_SECTOR} -> <<Head(m)>>
    [] Head(m) \in {Boot!FLASH_WRITE, Boot!STATUS_BYTE} -> <<0>>
    [] Head(m) = Boot!FLASH_READ -> [i \in 1 .. m[3] |-> flash[(m[2] + i - 1) % Spi!Size]]
    [] OTHER -> <<>>

ReplyAnswersCommand ==
  Replied => SubSeq(ser_in, 1, Want(Head(todo))) = AnswerTo(Head(todo))

(* Seen between the commands of the tool, the flash changes as promised:   *)
(* a file is written as a whole or, if no loader is there, not at all      *)
(* (neorv_sh.py:170-220 with bootloader_xip.c:338-372 and 405-447).        *)
Service == INSTANCE FlashService WITH
  image <- IF host \in {"send", "wait"} THEN before ELSE flash

WritesAreWhole == Service!Spec

(* The loader never stays in the middle of a command: it comes back to its *)
(* main loop (bootloader_xip.c:249) or starts the program.                 *)
LoaderReturns == (pc \notin {"main", "app"}) ~> (pc \in {"main", "app"})
=============================================================================
