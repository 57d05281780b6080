---------------------------- MODULE NeorvShProofs -----------------------------
(***************************************************************************)
(* What TLC checks of the tool and the boot loader on a flash of three     *)
(* sectors, proved for flashes, FIFOs, files, addresses and pages of any   *)
(* size: the tool never sends while the loader is busy with the flash,     *)
(* every reply that it reads answers the message it sent last, and seen    *)
(* between two commands the flash changes as FlashService says.            *)
(*                                                                         *)
(* The theorems are about the use of the tool that the loader is made for: *)
(* after a poke in the boot window no other command follows before the     *)
(* next reset, no read is longer than what the line carries in the second  *)
(* the tool waits (11520 bytes), and the flash is done within it.          *)
(* NeorvShPoke.cfg shows what happens without the first of them, README.md *)
(* without the others.                                                     *)
(***************************************************************************)
EXTENDS NeorvShLoaderProofs

USE DEF Boot!POKE, Boot!EXECUTE, Boot!FLASH_WRITE, Boot!FLASH_READ, Boot!RESET,
        Boot!ERASE_SECTOR, Boot!STATUS_BYTE, DEMO

(* No read is longer than what the line carries while the tool waits.      *)
ShortReads == \A r \in Reads : r[2] <= SecondWords

-----------------------------------------------------------------------------
(* The steps of the tool. *)

(* The types of what the tool leaves alone. *)
LEMMA LoaderUntouched ==
  ASSUME TypeOK, UNCHANGED <<flashVars, uartVars, loaderVars>>
  PROVE  Boot!TypeOK' /\ Len(page)' <= PageWords
BY DEF TypeOK, Boot!TypeOK, Boot!Spi!TypeOK, flashVars, uartVars, loaderVars, Boot!Listening,
       Boot!Spi!Address, Boot!Spi!Size

(* The latch and the busy bit depend on the flash and on the loader only. *)
LEMMA LatchUntouched ==
  ASSUME Latch, UNCHANGED flashVars, UNCHANGED pc
  PROVE  Latch'
BY DEF Latch, flashVars

(* So does a read of no bytes, and what is on its way. *)
LEMMA DrainingUntouched ==
  ASSUME Draining, UNCHANGED <<rx, line, loaderVars>>
  PROVE  Draining'
<1>1. PICK r \in Reads :
        /\ r[2] = 0
        /\ \/ Arriving(<<Boot!FLASH_READ, r[1], r[2]>>)
           \/ Lagging /\ line = <<Boot!FLASH_READ, r[1], r[2]>>
  BY DEF Draining
<1>2. PICK m : m = <<Boot!FLASH_READ, r[1], r[2]>>
  OBVIOUS
<1>3. Arriving(m) => Arriving(m)'
  BY DEF Arriving, At, Parsed, loaderVars
<1>4. Lagging => Lagging'
  BY DEF Lagging, loaderVars
<1> QED BY <1>1, <1>2, <1>3, <1>4 DEF Draining

(* When nothing is on its way, the last byte of a message has arrived. *)
LEMMA LastByte ==
  ASSUME NEW m, Message(m), Arriving(m), line = <<>>
  PROVE  /\ Parsed(m, Len(m) - 1) /\ rx = <<m[Len(m)]>>
         /\ pc \in {"main", "addr", "len", "data"}
<1>1. PICK k \in 0 .. Len(m) - 1, j \in 0 .. Len(m) : At(m, k, j)
  BY DEF Arriving
<1>2. /\ k \in Nat /\ Len(m) \in Nat /\ m \in Seq(Nat)
      /\ pc \in {"main", "addr", "len", "data"}
  BY <1>1, WhereParsed DEF At
<1>3. j = Len(m)
  BY <1>1, <1>2, RestFacts DEF At
<1>4. k = Len(m) - 1 /\ j = k + 1
  BY <1>1, <1>2, <1>3 DEF At
<1>5. rx = <<m[j]>> /\ Parsed(m, k)
  BY <1>1, <1>2, <1>4 DEF At
<1> QED BY <1>2, <1>3, <1>4, <1>5

(* A read of no bytes, with nothing on its way. *)
LEMMA DrainingEnds ==
  ASSUME Draining, line = <<>>
  PROVE  Lagging
<1>1. PICK r \in Reads :
        /\ r[2] = 0
        /\ \/ Arriving(<<Boot!FLASH_READ, r[1], r[2]>>)
           \/ Lagging /\ line = <<Boot!FLASH_READ, r[1], r[2]>>
  BY DEF Draining
<1> DEFINE m == <<Boot!FLASH_READ, r[1], r[2]>>
<1>2. r[1] \in Nat /\ r[2] \in Nat
  BY XipAssumption
<1>3. m \in Seq(Nat) /\ m # <<>> /\ Len(m) = 3 /\ m[1] = Boot!FLASH_READ /\ m[3] = 0
  BY <1>1, <1>2
<1>4. Message(m)
  BY <1>3 DEF Message
<1> HIDE DEF m
<1>5. Arriving(m)
  BY <1>1, <1>3 DEF m
<1>6. Parsed(m, 2) /\ rx = <<0>>
  <2>1. Len(m) - 1 = 2 /\ m[Len(m)] = 0
    BY <1>3
  <2>2. Parsed(m, Len(m) - 1) /\ rx = <<m[Len(m)]>>
    BY <1>4, <1>5, LastByte
  <2> QED BY <2>1, <2>2
<1> QED BY <1>3, <1>6 DEF Parsed, Lagging

(* Where the loader is during a read of no bytes. *)
LEMMA DrainingPlace ==
  ASSUME Draining
  PROVE  pc \in {"main", "addr", "len", "data"}
<1>1. PICK r \in Reads :
        r[2] = 0 /\ (Arriving(<<Boot!FLASH_READ, r[1], r[2]>>) \/ Lagging)
  BY DEF Draining
<1> DEFINE m == <<Boot!FLASH_READ, r[1], r[2]>>
<1>2. r[1] \in Nat /\ r[2] \in Nat
  BY XipAssumption
<1>3. m \in Seq(Nat) /\ m # <<>>
  BY <1>2
<1>4. Message(m)
  BY <1>3 DEF Message
<1> HIDE DEF m
<1>5. Arriving(m) => pc \in {"main", "addr", "len", "data"}
  BY <1>4, WhereParsed DEF Arriving, At
<1> QED BY <1>1, <1>5 DEF Lagging, m

(* The loader has a byte to take at the end of a read of no bytes. *)
LEMMA LaggingBusy ==
  ASSUME Lagging
  PROVE  ~Boot!Waits
BY DEF Lagging, Boot!Waits

(* While all is quiet, the loader waits for a byte or for the flash, or    *)
(* the program runs.                                                       *)
LEMMA QuietFacts ==
  ASSUME TypeOK, Quiet
  PROVE  /\ (rx = <<>> /\ pc \in Boot!Listening) \/ pc = "poll" \/ pc = "app"
         /\ line = <<>> /\ tx = <<>>
         /\ ~Lagging /\ ~Draining
         /\ \A m \in Seq(Nat) : Message(m) => ~Arriving(m) /\ ~Reading(m)
<1>1. Len(tx) # TxDepth /\ line = <<>> /\ tx = <<>>
  BY XipAssumption, EmptySeq DEF Quiet
<1>2. (rx = <<>> /\ pc \in Boot!Listening) \/ pc = "poll" \/ pc = "app"
  BY <1>1 DEF Quiet, Boot!Waits
<1>3. ~Lagging /\ ~Draining
  BY <1>1, <1>2, DrainingEnds DEF Lagging
<1>4. ASSUME NEW m \in Seq(Nat), Message(m) PROVE ~Arriving(m) /\ ~Reading(m)
  <2>1. Arriving(m) => rx = <<m[Len(m)]>> /\ pc \in {"main", "addr", "len", "data"}
    BY <1>1, <1>4, LastByte
  <2>2. rx = <<m[Len(m)]>> => rx # <<>>
    OBVIOUS
  <2>3. ~Arriving(m)
    BY <1>2, <2>1, <2>2
  <2> QED BY <1>2, <2>3 DEF Reading, Boot!Listening
<1> QED BY <1>1, <1>2, <1>3, <1>4

(* A read that the tool has time for is not given up: when the user acts,  *)
(* the loader has sent it.                                                 *)
LEMMA UserActsQuiet ==
  ASSUME IInv, UserActs, host = "closed" \/ (host = "prompt" /\ ~window)
  PROVE  Quiet
<1>1. CASE host = "closed"
  <2>1. Closed
    BY <1>1 DEF IInv, Modes
  <2>2. pc # "read"
    BY <2>1, DrainingPlace DEF Closed, Poking, Away
  <2> QED BY <2>2 DEF UserActs
<1>2. CASE host = "prompt" /\ ~window
  <2>1. Sync(Current)
    BY <1>2 DEF IInv, Modes, InWindow, InSync
  <2>2. pc # "read"
    BY <1>2, <2>1, DrainingPlace DEF Sync
  <2> QED BY <2>2 DEF UserActs
<1> QED BY <1>1, <1>2

(* A reply is late only when nothing comes any more: none is longer than   *)
(* what the line carries in the second.                                    *)
LEMMA LateFacts ==
  ASSUME ShortReads, ~SlowFlash, IInv, host = "wait", ~Replied, Late
  PROVE  Quiet /\ pc # "poll"
<1>1. TypeOK /\ Legal(todo) /\ todo # <<>>
  BY DEF IInv, Modes, TypeOK
<1>2. PICK m : m = Head(todo)
  OBVIOUS
<1>3. Message(m)
  BY <1>1, <1>2, CurrentMessage
<1>4. Want(m) \in Nat /\ Want(m) <= SecondWords
  <2>1. CASE m[1] = Boot!FLASH_READ
    <3>1. PICK r \in Reads : m = <<Boot!FLASH_READ, r[1], r[2]>>
      BY <1>3, <2>1 DEF Message, Simple
    <3>2. r[2] \in Nat /\ r[2] <= SecondWords
      BY XipAssumption DEF ShortReads
    <3> QED BY <3>1, <3>2 DEF Want
  <2>2. CASE m[1] # Boot!FLASH_READ
    <3>1. Head(m) = m[1]
      BY <1>3 DEF Message
    <3> QED BY <2>2, <3>1, XipAssumption DEF Want
  <2> QED BY <2>1, <2>2
<1>5. ~(Len(ser_in) >= SecondWords)
  <2>1. Len(ser_in) \in Nat /\ ~(Len(ser_in) >= Want(m))
    BY <1>1, <1>2, LenProperties DEF Replied, TypeOK
  <2> QED BY <1>4, <2>1, XipAssumption
<1> QED BY <1>5 DEF Late

(* A session begins: the loader waits for its first poke, in the boot      *)
(* window or in its main loop, or the program runs and nobody answers.     *)
LEMMA OpenStep ==
  ASSUME IInv, Open
  PROVE  IInv'
<1>1. /\ TypeOK /\ Latch /\ Closed /\ Quiet /\ host = "closed"
      /\ ser_in' = <<>> /\ host' = "send" /\ todo' = Poke /\ window' = (pc = "boot")
      /\ before' = flash /\ UNCHANGED <<flashVars, uartVars, loaderVars, line>>
  BY UserActsQuiet DEF IInv, Modes, Open
<1>2. /\ line = <<>> /\ tx = <<>> /\ ~Draining
      /\ (rx = <<>> /\ pc \in Boot!Listening) \/ pc = "poll" \/ pc = "app"
  BY <1>1, QuietFacts
<1>3. UNCHANGED <<rx, tx, pc, line, console_cmd>>
  BY <1>1 DEF uartVars, loaderVars
<1>4. TypeOK'
  <2>1. Boot!TypeOK' /\ Len(page)' <= PageWords
    BY <1>1, LoaderUntouched
  <2>2. before' \in [Spi!Address -> Contents]
    BY <1>1 DEF TypeOK, Boot!TypeOK, Boot!Spi!TypeOK, Boot!Spi!Address, Boot!Spi!Size,
                Spi!Address, Spi!Size
  <2>3. Spi!Address' = Spi!Address
    BY DEF Spi!Address, Spi!Size
  <2>4. window' \in BOOLEAN
    BY <1>1
  <2>5. line' \in Seq(Nat) /\ ser_in' \in Seq(Nat)
    BY <1>1 DEF TypeOK
  <2> QED BY <1>1, <2>1, <2>2, <2>3, <2>4, <2>5, ZerosFacts DEF TypeOK
<1>5. Latch'
  BY <1>1, <1>3, LatchUntouched
<1>6. Legal(todo)'
  <2>1. Message(<<Boot!POKE>>)
    BY DEF Message, Simple
  <2>2. Legal(Poke)
    BY <2>1, ZerosFacts DEF Legal
  <2> QED BY <1>1, <2>2
<1>7. Poking => rx = <<>> /\ pc \in {"boot", "main"}
  BY <1>2 DEF Poking, Boot!Listening
<1>8. InWindow' \/ InSync'
  <2>1. CASE pc = "boot"
    <3>1. Poking'
      BY <1>1, <1>2, <1>3, <2>1 DEF Closed, Away, Poking
    <3>2. window'
      BY <1>1, <2>1
    <3> QED BY <1>1, <3>1, <3>2, ZerosFacts DEF InWindow
  <2>2. CASE pc # "boot"
    <3>1. ~window'
      BY <1>1, <2>2
    <3>2. Clean' /\ (pc' = "app" \/ (pc' = "main" /\ Silent'))
      BY <1>1, <1>2, <1>3, <1>7, <2>2 DEF Closed, Away, Clean, Silent
    <3>3. Working'
      BY <1>1, <3>1, ZerosFacts DEF Working
    <3>4. PICK c \in {Current'} : TRUE
      OBVIOUS
    <3>5. Sync(c)'
      BY <1>1, <3>2 DEF Sync
    <3> QED BY <3>3, <3>4, <3>5 DEF InSync
  <2> QED BY <2>1, <2>2
<1> QED BY <1>1, <1>4, <1>5, <1>6, <1>8 DEF IInv, Modes

(* A command begins. In the boot window it can only be another poke. *)
LEMMA BeginStep ==
  ASSUME ~UseAfterWindow, IInv, NEW r \in Requests, Begin(r)
  PROVE  IInv'
<1>1. /\ TypeOK /\ Latch /\ Legal(todo) /\ (InWindow \/ InSync)
      /\ host = "prompt" /\ line = <<>> /\ (window => r = Poke)
      /\ host' = "send" /\ todo' = r
      /\ window' = (window \/ r[1] = <<Boot!RESET>>)
      /\ before' = flash /\ UNCHANGED <<flashVars, uartVars, loaderVars, line, ser_in>>
  BY DEF IInv, Modes, Begin
<1>2. UNCHANGED <<rx, tx, pc, console_cmd, line, ser_in>>
  BY <1>1 DEF uartVars, loaderVars
<1>3. /\ r \in Seq(Seq(Nat)) /\ r # <<>> /\ Legal(r)
      /\ r[1] = <<Boot!RESET>> => r = << <<Boot!RESET>> >>
  BY RequestsLegal
<1>4. TypeOK'
  <2>1. Boot!TypeOK' /\ Len(page)' <= PageWords
    BY <1>1, LoaderUntouched
  <2>2. before' \in [Spi!Address -> Contents]
    BY <1>1 DEF TypeOK, Boot!TypeOK, Boot!Spi!TypeOK, Boot!Spi!Address, Boot!Spi!Size,
                Spi!Address, Spi!Size
  <2>3. Spi!Address' = Spi!Address
    BY DEF Spi!Address, Spi!Size
  <2>4. window' \in BOOLEAN
    BY <1>1, Zenon DEF TypeOK
  <2> QED BY <1>1, <1>3, <2>1, <2>2, <2>3, <2>4 DEF TypeOK
<1>5. Latch'
  BY <1>1, <1>2, LatchUntouched
<1>6. Legal(todo)'
  BY <1>1, <1>3
<1>7. InWindow' \/ InSync'
  <2>1. CASE window
    <3>1. InWindow
      <4>1. todo = <<>>
        BY <1>1 DEF TypeOK
      <4> QED BY <1>1, <2>1, <4>1 DEF InSync, Resetting, Working
    <3>2. Poking' \/ Away'
      BY <1>2, <3>1 DEF InWindow, Poking, Away
    <3>3. window'
      BY <1>1, <2>1
    <3> QED BY <1>1, <1>2, <2>1, <3>1, <3>2, <3>3 DEF InWindow
  <2>2. CASE ~window
    <3>1. Sync(Current)
      BY <1>1, <2>2 DEF InWindow, InSync
    <3>2. Clean /\ (pc = "app" \/ (pc = "main" /\ Silent) \/ Lagging)
      BY <1>1, <3>1, DrainingEnds DEF Sync
    <3>3. PICK c \in {Current'} : TRUE
      OBVIOUS
    <3>4. Sync(c)'
      BY <1>1, <1>2, <3>2 DEF Sync, Clean, Silent, Lagging, Trailing
    <3>5. Resetting' \/ Working'
      <4>1. Head(r) = r[1]
        BY <1>3
      <4>2. CASE r[1] = <<Boot!RESET>>
        BY <1>1, <1>3, <4>2 DEF Resetting
      <4>3. CASE r[1] # <<Boot!RESET>>
        <5>1. ~window'
          BY <1>1, <2>2, <4>3
        <5> QED BY <1>1, <4>1, <4>3, <5>1 DEF Working
      <4> QED BY <4>2, <4>3
    <3> QED BY <3>3, <3>4, <3>5 DEF InSync
  <2> QED BY <2>1, <2>2
<1> QED BY <1>1, <1>4, <1>5, <1>6, <1>7 DEF IInv, Modes

(* A message is sent: to a loader that waits for it, or that is about to   *)
(* end a read of no bytes.                                                 *)
LEMMA SendStep ==
  ASSUME IInv, Send
  PROVE  IInv'
<1>1. /\ TypeOK /\ Latch /\ Legal(todo) /\ (InWindow \/ InSync)
      /\ host = "send" /\ todo # <<>> /\ line' = line \o Head(todo) /\ host' = "wait"
      /\ UNCHANGED <<flashVars, uartVars, loaderVars, ser_in, todo, window, before>>
  BY DEF IInv, Modes, Send, TypeOK
<1>2. UNCHANGED <<rx, tx, pc, console_cmd, ser_in>>
  BY <1>1 DEF uartVars, loaderVars
<1>3. /\ Current = Head(todo) /\ Message(Current) /\ Current \in Seq(Nat) /\ Current' = Current
  BY <1>1, CurrentMessage DEF Current
<1>4. TypeOK'
  <2>1. Boot!TypeOK' /\ Len(page)' <= PageWords
    BY <1>1, LoaderUntouched
  <2>2. Spi!Address' = Spi!Address
    BY DEF Spi!Address, Spi!Size
  <2>3. line' \in Seq(Nat)
    BY <1>1, <1>3, ConcatProperties DEF TypeOK
  <2> QED BY <1>1, <2>1, <2>2, <2>3 DEF TypeOK
<1>5. Latch'
  BY <1>1, <1>2, LatchUntouched
<1>6. CASE InWindow
  <2>1. todo = Poke /\ line' = line \o <<Boot!POKE>>
    BY <1>1, <1>6, ZerosFacts DEF InWindow
  <2>2. Poking' \/ Away'
    BY <1>2, <1>6, <2>1, ZerosFacts DEF InWindow, Poking, Away
  <2>3. InWindow'
    BY <1>1, <1>6, <2>2 DEF InWindow
  <2> QED BY <1>1, <1>4, <1>5, <2>3 DEF IInv, Modes
<1>7. CASE InSync
  <2>1. PICK m \in {Current} : Sync(m) /\ Message(m)
    BY <1>3, <1>7 DEF InSync
  <2>2. m \in Seq(Nat) /\ line' = line \o m
    BY <1>1, <1>3, <2>1
  <2>3. line = <<>> => line' = Rest(m, 0) /\ line' = m
    BY <2>2, ConcatEmptySeq, RestFacts, MessageShape
  <2>4. ASSUME Clean, pc = "app" PROVE Sync(m)'
    BY <1>2, <2>4 DEF Sync, Clean
  <2>5. ASSUME Clean, pc = "main", Silent PROVE Sync(m)'
    <3>1. Parsed(m, 0)'
      BY <1>2, <2>5 DEF Parsed
    <3>2. At(m, 0, 0)'
      BY <1>2, <2>3, <2>5, <3>1 DEF At, Silent, Rest
    <3>3. 0 \in 0 .. Len(m) - 1 /\ 0 \in 0 .. Len(m)
      BY <2>1, MessageShape
    <3>4. Arriving(m)'
      BY <3>2, <3>3 DEF Arriving
    <3> QED BY <1>1, <1>2, <2>5, <3>4 DEF Sync, Busy, Clean
  <2>6. ASSUME Clean, Trailing(m) PROVE Sync(m)'
    <3>1. Trailing(m)'
      BY <1>1, <1>2, <2>3, <2>6 DEF Trailing, Lagging
    <3> QED BY <1>1, <1>2, <2>6, <3>1 DEF Sync, Clean
  <2>7. Sync(m)'
    BY <1>1, <2>1, <2>4, <2>5, <2>6 DEF Sync
  <2>8. InSync'
    BY <1>1, <1>3, <1>7, <2>1, <2>7 DEF InSync, Resetting, Working
  <2> QED BY <1>1, <1>4, <1>5, <2>8 DEF IInv, Modes
<1> QED BY <1>1, <1>6, <1>7

(* The answer is taken as a whole, with nothing after it. *)
LEMMA AnswerTaken ==
  ASSUME TypeOK, NEW m, Message(m), Answered(m), Len(ser_in) >= Want(m)
  PROVE  ser_in = AnswerTo(m) /\ Len(ser_in) = Want(m) /\ tx = <<>>
<1>1. /\ ser_in \in Seq(Nat) /\ tx \in Seq(Nat) /\ Len(ser_in) \in Nat /\ Len(tx) \in Nat
      /\ ser_in \o tx = AnswerTo(m)
  BY LenProperties DEF TypeOK, Boot!TypeOK, Answered
<1>2. Len(ser_in) + Len(tx) = Len(AnswerTo(m))
  BY <1>1, ConcatProperties
<1>3. Len(AnswerTo(m)) <= Want(m) /\ Want(m) \in Nat /\ Len(AnswerTo(m)) \in Nat
  BY AnswerLength, LenProperties
<1>4. Len(tx) = 0 /\ Len(ser_in) = Want(m)
  BY <1>1, <1>2, <1>3
<1>5. tx = <<>>
  BY <1>1, <1>4, EmptySeq
<1>6. ser_in = AnswerTo(m)
  BY <1>1, <1>5, ConcatEmptySeq
<1> QED BY <1>4, <1>5, <1>6

(* A reply that the tool takes while it is in step with the loader ends a  *)
(* message that has been answered, or a read of no bytes.                  *)
LEMMA ReplyInSync ==
  ASSUME TypeOK, NEW m, Message(m), Sync(m), host = "wait", Len(ser_in) >= Want(m)
  PROVE  \/ Answered(m)
         \/ /\ Clean /\ Want(m) = 0 /\ m[1] = Boot!FLASH_READ
            /\ pc = "app" \/ Trailing(m) \/ Arriving(m)
<1>1. /\ Want(m) \in Nat
      /\ m[1] # Boot!FLASH_READ => Want(m) = 1
  BY AnswerLength
<1>2. Len(<<>>) = 0
  BY EmptySeq
<1>3. Clean => Want(m) = 0 /\ m[1] = Boot!FLASH_READ
  BY <1>1, <1>2 DEF Clean
<1>4. ~Reading(m)
  <2>1. SUFFICES ASSUME Reading(m) PROVE FALSE
    OBVIOUS
  <2>2. /\ ser_in \in Seq(Nat) /\ tx \in Seq(Nat) /\ Len(ser_in) \in Nat /\ Len(tx) \in Nat
        /\ data_idx \in Nat /\ len \in Nat
    BY LenProperties DEF TypeOK, Boot!TypeOK
  <2>3. data_idx < len /\ len = m[3] /\ ser_in \o tx = SubSeq(AnswerTo(m), 1, data_idx)
    BY <2>1 DEF Reading
  <2>4. AnswerTo(m) \in Seq(Nat) /\ Len(AnswerTo(m)) = m[3] /\ Want(m) = m[3]
    BY <2>1, AnswerLength DEF Reading
  <2>5. \A i \in 1 .. data_idx : AnswerTo(m)[i] \in Nat
    <3>1. \A i \in 1 .. Len(AnswerTo(m)) : AnswerTo(m)[i] \in Nat
      BY <2>4, ElementOfSeq
    <3>2. Len(AnswerTo(m)) = len
      BY <2>3, <2>4
    <3> QED BY <2>2, <2>3, <3>1, <3>2
  <2>6. Len(SubSeq(AnswerTo(m), 1, data_idx)) = IF 1 <= data_idx THEN data_idx - 1 + 1 ELSE 0
    BY <2>2, <2>5, SubSeqProperties
  <2>7. Len(ser_in) + Len(tx) = data_idx
    <3>1. Len(ser_in \o tx) = Len(ser_in) + Len(tx)
      BY <2>2, ConcatProperties
    <3> QED BY <2>2, <2>3, <2>6, <3>1
  <2>8. Len(ser_in) >= len
    BY <2>3, <2>4
  <2> QED BY <2>2, <2>3, <2>7, <2>8
<1>5. ~(Clean /\ Executing(m))
  BY <1>3 DEF Executing
<1> QED BY <1>3, <1>4, <1>5 DEF Sync, Busy

(* Another command than a reset. *)
LEMMA NotReset ==
  ASSUME NEW m, m[1] # Boot!RESET
  PROVE  m # <<Boot!RESET>>
OBVIOUS

(* The messages after the first one are legal, and none of them a reset. *)
LEMMA LegalTail ==
  ASSUME TypeOK, Legal(todo), todo # <<>>
  PROVE  /\ Legal(Tail(todo))
         /\ Tail(todo) # <<>> => Len(todo) > 1 /\ Head(Tail(todo)) # <<Boot!RESET>>
         /\ Len(todo) = 1 => Tail(todo) = <<>>
<1>1. Len(todo) \in Nat /\ Len(todo) >= 1
  BY CurrentMessage
<1>2. /\ Tail(todo) \in Seq(Seq(Nat)) /\ Len(Tail(todo)) = Len(todo) - 1
      /\ \A i \in 1 .. Len(Tail(todo)) : Tail(todo)[i] = todo[i + 1]
  BY HeadTailProperties DEF TypeOK
<1>3. ASSUME NEW i \in 1 .. Len(Tail(todo))
      PROVE  /\ Message(Tail(todo)[i])
             /\ Len(todo) > 1 => Tail(todo)[i][1] \in {Boot!FLASH_WRITE, Boot!ERASE_SECTOR}
  <2>1. i + 1 \in 1 .. Len(todo) /\ Tail(todo)[i] = todo[i + 1]
    BY <1>1, <1>2
  <2> QED BY <2>1 DEF Legal
<1>4. Len(Tail(todo)) > 1 => Len(todo) > 1
  BY <1>1, <1>2
<1>5. Legal(Tail(todo))
  BY <1>3, <1>4 DEF Legal
<1>6. Len(todo) = 1 => Tail(todo) = <<>>
  <2>1. Tail(todo) # <<>> => Len(Tail(todo)) # 0
    BY <1>2, EmptySeq
  <2> QED BY <1>2, <2>1
<1>7. Tail(todo) # <<>> => Len(todo) > 1 /\ Head(Tail(todo)) # <<Boot!RESET>>
  <2>1. SUFFICES ASSUME Tail(todo) # <<>>
                 PROVE  Len(todo) > 1 /\ Head(Tail(todo)) # <<Boot!RESET>>
    OBVIOUS
  <2>2. Len(todo) > 1 /\ 1 \in 1 .. Len(Tail(todo)) /\ Head(Tail(todo)) = Tail(todo)[1]
    BY <2>1, <1>1, <1>2, <1>6
  <2>3. Tail(todo)[1][1] \in {Boot!FLASH_WRITE, Boot!ERASE_SECTOR}
    BY <1>3, <2>2
  <2>4. Tail(todo)[1] # <<Boot!RESET>>
    <3>1. \A x \in {Boot!FLASH_WRITE, Boot!ERASE_SECTOR} : x # Boot!RESET
      OBVIOUS
    <3>2. Tail(todo)[1][1] # Boot!RESET
      BY <2>3, <3>1, Zenon
    <3> QED BY <3>2, NotReset
  <2> QED BY <2>2, <2>4
<1> QED BY <1>5, <1>6, <1>7

(* A reply ends its message, and after the last one the command. *)
LEMMA TakeReplyStep ==
  ASSUME IInv, TakeReply
  PROVE  IInv'
<1>1. /\ TypeOK /\ Latch /\ Legal(todo) /\ (InWindow \/ InSync)
      /\ host = "wait" /\ todo # <<>> /\ Len(ser_in) >= Want(Head(todo))
      /\ ser_in' = SubSeq(ser_in, Want(Head(todo)) + 1, Len(ser_in))
      /\ todo' = Tail(todo) /\ host' = (IF Tail(todo) = <<>> THEN "prompt" ELSE "send")
      /\ UNCHANGED <<flashVars, uartVars, loaderVars, line, window, before>>
  BY DEF IInv, Modes, TakeReply, Replied, GoOn, TypeOK
<1>2. UNCHANGED <<rx, tx, pc, console_cmd, line>>
  BY <1>1 DEF uartVars, loaderVars
<1>3. /\ Current = Head(todo) /\ Current = todo[1] /\ Message(Current) /\ Current \in Seq(Nat)
      /\ Len(todo) \in Nat /\ Len(todo) >= 1
  BY <1>1, CurrentMessage
<1>4. /\ Tail(todo) \in Seq(Seq(Nat)) /\ Len(Tail(todo)) = Len(todo) - 1
      /\ \A i \in 1 .. Len(Tail(todo)) : Tail(todo)[i] = todo[i + 1]
  BY <1>1, HeadTailProperties DEF TypeOK
<1>5. Want(Current) \in Nat /\ ser_in \in Seq(Nat) /\ Len(ser_in) \in Nat
  BY <1>1, <1>3, AnswerLength, LenProperties DEF TypeOK
<1>6. ser_in' \in Seq(Nat)
  <2>1. \A i \in Want(Current) + 1 .. Len(ser_in) : ser_in[i] \in Nat
    BY <1>5, ElementOfSeq
  <2> QED BY <1>1, <1>3, <1>5, <2>1, SubSeqProperties
<1>7. TypeOK'
  <2>1. Boot!TypeOK' /\ Len(page)' <= PageWords
    BY <1>1, LoaderUntouched
  <2>2. Spi!Address' = Spi!Address
    BY DEF Spi!Address, Spi!Size
  <2> QED BY <1>1, <1>4, <1>6, <2>1, <2>2 DEF TypeOK
<1>8. Latch'
  BY <1>1, <1>2, LatchUntouched
<1>9. /\ Legal(todo)'
      /\ todo' # <<>> => Len(todo) > 1 /\ Head(todo') # <<Boot!RESET>>
      /\ Len(todo) = 1 => todo' = <<>>
  <2>1. /\ Legal(Tail(todo))
        /\ Tail(todo) # <<>> => Len(todo) > 1 /\ Head(Tail(todo)) # <<Boot!RESET>>
        /\ Len(todo) = 1 => Tail(todo) = <<>>
    BY <1>1, LegalTail
  <2> QED BY <1>1, <2>1
<1>10. ASSUME InWindow PROVE InWindow'
  <2>1. todo = Poke /\ todo' = <<>> /\ ser_in \in Zeros
    BY <1>1, <1>10, ZerosFacts DEF InWindow
  <2>2. ser_in' \in Zeros
    <3>1. \A i \in Want(Current) + 1 .. Len(ser_in) : ser_in[i] \in {Boot!POKE}
      BY <1>5, <2>1, ElementOfSeq DEF Zeros
    <3> QED BY <1>1, <1>3, <1>5, <3>1, SubSeqProperties DEF Zeros
  <2>3. Poking' \/ Away'
    BY <1>2, <1>10 DEF InWindow, Poking, Away
  <2> QED BY <1>1, <1>10, <2>1, <2>2, <2>3 DEF InWindow
<1>11. ASSUME InSync PROVE InWindow' \/ InSync'
  <2>1. PICK m \in {Current} : Sync(m)
    BY <1>11 DEF InSync
  <2>2. m = Current /\ m = Head(todo) /\ Message(m) /\ Len(ser_in) >= Want(m)
    BY <1>1, <1>3, <2>1
  <2>3. PICK c \in {Current'} : TRUE
    OBVIOUS
  <2>4. CASE Answered(m)
    <3>1. Len(ser_in) = Want(m) /\ tx = <<>> /\ Silent
      BY <1>1, <2>2, <2>4, AnswerTaken DEF Answered
    <3>2. Clean' /\ Silent'
      <4>1. SubSeq(ser_in, Want(m) + 1, Len(ser_in)) = <<>>
        BY <1>5, <2>2, <3>1, SubSeqEmpty
      <4> QED BY <1>1, <1>2, <2>2, <3>1, <4>1 DEF Clean, Silent
    <3>3. host' # "wait" /\ host' # "closed"
      BY <1>1
    <3>4. CASE Resetting
      <4>1. m = <<Boot!RESET>> /\ m[1] = Boot!RESET /\ Len(todo) = 1
        <5>1. Head(<< <<Boot!RESET>> >>) = <<Boot!RESET>> /\ Len(<< <<Boot!RESET>> >>) = 1
          OBVIOUS
        <5>2. todo = << <<Boot!RESET>> >>
          BY <3>4 DEF Resetting
        <5>3. Len(todo) = 1 /\ Head(todo) = <<Boot!RESET>>
          BY <5>1, <5>2, Zenon
        <5> QED BY <2>2, <5>3
      <4>2. pc \in {"reset", "boot", "app"}
        BY <2>4, <4>1 DEF Answered
      <4>3. Poking' \/ Away'
        BY <1>2, <3>2, <4>2, ZerosFacts DEF Poking, Away, Clean, Silent
      <4>4. window' /\ todo' = <<>>
        BY <1>1, <1>9, <3>4, <4>1 DEF Resetting
      <4> QED BY <3>2, <4>3, <4>4, ZerosFacts DEF InWindow, Clean
    <3>5. CASE Working
      <4>1. m[1] # Boot!RESET
        <5>1. SUFFICES ASSUME m[1] = Boot!RESET PROVE FALSE
          OBVIOUS
        <5>2. Len(m) = 1 /\ m \in Seq(Nat)
          BY <2>2, <5>1, MessageShape DEF Fields
        <5>3. m = <<Boot!RESET>>
          BY <5>1, <5>2
        <5> QED BY <1>1, <2>2, <3>5, <5>3 DEF Working
      <4>2. pc' \in {"app", "main"}
        BY <1>2, <2>4, <4>1 DEF Answered
      <4>3. Sync(c)'
        BY <3>2, <3>3, <4>2 DEF Sync
      <4>4. Working'
        BY <1>1, <1>9, <3>5 DEF Working
      <4> QED BY <2>3, <4>3, <4>4 DEF InSync
    <3> QED BY <1>11, <3>4, <3>5 DEF InSync
  <2>5. CASE /\ Clean /\ Want(m) = 0 /\ m[1] = Boot!FLASH_READ
             /\ pc = "app" \/ Trailing(m) \/ Arriving(m)
    <3>1. Len(todo) = 1
      <4>1. 1 \in 1 .. Len(todo) /\ todo[1][1] = Boot!FLASH_READ
        BY <1>3, <2>2, <2>5
      <4>2. ~(Len(todo) > 1)
        BY <1>1, <4>1 DEF Legal
      <4>3. Len(todo) \in Nat /\ Len(todo) >= 1
        BY <1>3
      <4>4. \A n \in Nat : n >= 1 /\ ~(n > 1) => n = 1
        OBVIOUS
      <4> QED BY <4>2, <4>3, <4>4, Zenon
    <3>2. todo' = <<>> /\ host' = "prompt"
      BY <1>1, <1>9, <3>1
    <3>3. Clean'
      <4>1. Len(<<>>) = 0 /\ SubSeq(<<>>, 1, 0) = <<>>
        BY EmptySeq, SubSeqEmpty
      <4>2. ser_in' = SubSeq(<<>>, 0 + 1, 0)
        BY <1>1, <2>2, <2>5, <4>1 DEF Clean
      <4> QED BY <1>2, <2>5, <4>1, <4>2 DEF Clean
    <3>4. Working'
      <4>1. m # <<Boot!RESET>>
        BY <2>5
      <4>2. Working
        BY <1>11, <2>2, <4>1 DEF InSync, Resetting
      <4> QED BY <1>1, <3>2, <4>2 DEF Working
    <3>5. PICK r \in Reads : m = <<Boot!FLASH_READ, r[1], r[2]>> /\ r[2] = 0
      BY <1>1, <2>2, <2>5, AnswerLength
    <3>6. ASSUME Trailing(m) \/ Arriving(m) PROVE Draining'
      <4>1. Trailing(m) => Lagging' /\ line' = <<Boot!FLASH_READ, r[1], r[2]>>
        BY <1>1, <1>2, <3>5 DEF Trailing, Lagging
      <4>2. Arriving(m) => Arriving(m)'
        BY <1>1, <1>2 DEF Arriving, At, Parsed, loaderVars
      <4> QED BY <3>5, <3>6, <4>1, <4>2 DEF Draining
    <3>7. Sync(c)'
      BY <1>2, <2>5, <3>2, <3>3, <3>6 DEF Sync
    <3> QED BY <2>3, <3>4, <3>7 DEF InSync
  <2> QED BY <1>1, <2>1, <2>2, <2>4, <2>5, ReplyInSync
<1>12. host' # "closed"
  BY <1>1
<1> QED BY <1>1, <1>7, <1>8, <1>9, <1>10, <1>11, <1>12 DEF IInv, Modes

(* The tool gives a reply up only when no one is there to send it, or when *)
(* the loader does not know the command: the loader has gone quiet, and    *)
(* the flash is not what it waits for.                                     *)
LEMMA TimeoutStep ==
  ASSUME ShortReads, ~SlowFlash, IInv, Timeout
  PROVE  IInv'
<1> DEFINE ends == Head(Head(todo)) \in {Boot!STATUS_BYTE, Boot!FLASH_READ}
<1>1. /\ TypeOK /\ Latch /\ Legal(todo) /\ (InWindow \/ InSync)
      /\ host = "wait" /\ todo # <<>> /\ ~(Len(ser_in) >= Want(Head(todo)))
      /\ Quiet /\ pc # "poll" /\ ser_in' = <<>>
      /\ UNCHANGED <<flashVars, uartVars, loaderVars, line, window, before>>
  BY LateFacts DEF IInv, Modes, Timeout, Replied, TypeOK
<1>2. UNCHANGED <<rx, tx, pc, console_cmd, line>>
  BY <1>1 DEF uartVars, loaderVars
<1>3. /\ Current = Head(todo) /\ Message(Current) /\ Current \in Seq(Nat)
      /\ Len(todo) \in Nat /\ Len(todo) >= 1
  BY <1>1, CurrentMessage
<1>4. /\ (rx = <<>> /\ pc \in Boot!Listening) \/ pc = "app"
      /\ line = <<>> /\ tx = <<>> /\ ~Lagging /\ ~Draining
      /\ ~Arriving(Current) /\ ~Reading(Current)
  BY <1>1, <1>3, QuietFacts
<1>5. /\ ends => host' = "closed" /\ todo' = <<>>
      /\ ~ends => todo' = Tail(todo) /\ host' = (IF Tail(todo) = <<>> THEN "prompt" ELSE "send")
  BY DEF Timeout, GoOn
<1> HIDE DEF ends
<1>6. Tail(todo) \in Seq(Seq(Nat)) /\ todo' \in Seq(Seq(Nat))
  <2>1. Tail(todo) \in Seq(Seq(Nat)) /\ <<>> \in Seq(Seq(Nat))
    BY <1>1, HeadTailProperties DEF TypeOK
  <2> QED BY <1>5, <2>1
<1>7. TypeOK'
  <2>1. Boot!TypeOK' /\ Len(page)' <= PageWords
    BY <1>1, LoaderUntouched
  <2>2. Spi!Address' = Spi!Address
    BY DEF Spi!Address, Spi!Size
  <2>3. line' \in Seq(Nat) /\ ser_in' \in Seq(Nat) /\ window' \in BOOLEAN
        /\ before' \in [Spi!Address -> Contents]
    BY <1>1 DEF TypeOK
  <2>4. /\ host' \in {"closed", "prompt", "send", "wait"}
        /\ todo' = <<>> <=> host' \in {"closed", "prompt"}
    BY <1>5
  <2> QED BY <1>6, <2>1, <2>2, <2>3, <2>4 DEF TypeOK
<1>8. Latch'
  BY <1>1, <1>2, LatchUntouched
<1>9. /\ Legal(todo)'
      /\ todo' # <<>> => Head(todo') # <<Boot!RESET>>
      /\ todo \in {Poke, << <<Boot!RESET>> >>} => todo' = <<>>
  <2>1. CASE ends
    <3>1. Legal(<<>>) /\ Legal(todo)'
      BY <1>5, <2>1 DEF Legal
    <3> QED BY <1>5, <2>1, <3>1
  <2>2. CASE ~ends
    <3>1. todo \in {Poke, << <<Boot!RESET>> >>} => Tail(todo) = <<>>
      BY ZerosFacts
    <3>2. Legal(Tail(todo)) /\ (Tail(todo) # <<>> => Head(Tail(todo)) # <<Boot!RESET>>)
      BY <1>1, LegalTail
    <3> QED BY <1>5, <2>2, <3>1, <3>2
  <2> QED BY <2>1, <2>2
<1>10. (Poking \/ Away => Poking' \/ Away') /\ (pc = "app" => Away')
  BY <1>2, <1>4 DEF Poking, Away
<1>11. ASSUME InWindow PROVE Modes'
  <2>1. todo = Poke /\ todo' = <<>> /\ (Poking' \/ Away') /\ window'
    BY <1>1, <1>9, <1>10, <1>11 DEF InWindow
  <2>2. InWindow'
    BY <1>1, <2>1, ZerosFacts DEF InWindow
  <2> QED BY <1>9, <2>1, <2>2 DEF Modes, Closed
<1>12. ASSUME InSync PROVE Modes'
  <2>1. PICK m \in {Current} : Sync(m)
    BY <1>12 DEF InSync
  <2>2. m = Current /\ m = Head(todo) /\ Message(m)
    BY <1>3, <2>1
  <2>3. PICK c \in {Current'} : TRUE
    OBVIOUS
  <2>4. (Clean /\ pc = "app") \/ Answered(m)
    <3>1. ~Executing(m)
      BY <1>1, <1>4 DEF Executing, Boot!Listening
    <3> QED BY <1>1, <1>4, <2>1, <2>2, <3>1 DEF Sync, Busy, Trailing
  <2>5. Clean'
    BY <1>1, <1>2, <1>4 DEF Clean
  <2>6. CASE Answered(m) /\ pc # "app"
    <3>1. m[1] = DEMO /\ pc = "main" /\ Silent
      <4>1. m[1] = DEMO
        <5>1. /\ ser_in = AnswerTo(m)
          <6>1. ser_in \in Seq(Nat) /\ ser_in \o tx = AnswerTo(m)
            BY <1>1, <2>6 DEF TypeOK, Answered
          <6> QED BY <1>4, <6>1, ConcatEmptySeq
        <5>2. Len(AnswerTo(m)) = IF m[1] = DEMO THEN 0 ELSE Want(m)
          BY <1>1, <2>2, AnswerLength
        <5>3. Want(m) \in Nat
          BY <1>1, <2>2, AnswerLength
        <5> QED BY <1>1, <2>2, <5>1, <5>2, <5>3
      <4> QED BY <2>6, <4>1 DEF Answered
    <3>2. ~ends
      BY <1>1, <2>2, <3>1, AnswerLength DEF ends
    <3>3. host' \in {"prompt", "send"}
      BY <1>5, <3>2
    <3>4. Sync(c)'
      BY <1>2, <2>5, <3>1, <3>3 DEF Sync, Silent
    <3>5. Working
      <4>1. m # <<Boot!RESET>>
        BY <3>1
      <4>2. Head(<< <<Boot!RESET>> >>) = <<Boot!RESET>>
        OBVIOUS
      <4> QED BY <1>12, <2>2, <4>1, <4>2 DEF InSync, Resetting
    <3>6. Working'
      BY <1>1, <1>9, <3>5 DEF Working
    <3>7. InSync'
      BY <2>3, <3>4, <3>6 DEF InSync
    <3> QED BY <1>9, <3>3, <3>7 DEF Modes
  <2>7. CASE pc = "app"
    <3>1. Away'
      BY <1>10, <2>7
    <3>2. Sync(c)'
      BY <1>2, <2>5, <2>7 DEF Sync
    <3>3. CASE Resetting
      <4>1. window' /\ todo' = <<>>
        BY <1>1, <1>9, <3>3 DEF Resetting
      <4>2. InWindow'
        BY <1>1, <3>1, <4>1, ZerosFacts DEF InWindow
      <4> QED BY <1>9, <3>1, <4>2 DEF Modes, Closed
    <3>4. CASE Working
      <4>1. Working'
        BY <1>1, <1>9, <3>4 DEF Working
      <4>2. InSync'
        BY <2>3, <3>2, <4>1 DEF InSync
      <4> QED BY <1>9, <3>1, <4>2 DEF Modes, Closed
    <3> QED BY <1>12, <3>3, <3>4 DEF InSync
  <2> QED BY <2>4, <2>6, <2>7
<1> QED BY <1>1, <1>7, <1>8, <1>11, <1>12 DEF IInv

(* The session ends with nothing on its way, except the end of a read of   *)
(* no bytes or what pokes have left.                                       *)
LEMMA ExitStep ==
  ASSUME IInv, Exit
  PROVE  IInv'
<1>1. /\ TypeOK /\ Latch /\ (InWindow \/ InSync)
      /\ host = "prompt" /\ todo = <<>> /\ host' = "closed"
      /\ UNCHANGED <<flashVars, uartVars, loaderVars, line, ser_in, todo, window, before>>
  BY DEF IInv, Modes, Exit, TypeOK
<1>2. UNCHANGED <<rx, tx, pc, console_cmd, line>> /\ UNCHANGED loaderVars
  BY <1>1 DEF uartVars, loaderVars
<1>3. TypeOK'
  <2>1. Boot!TypeOK' /\ Len(page)' <= PageWords
    BY <1>1, LoaderUntouched
  <2>2. Spi!Address' = Spi!Address
    BY DEF Spi!Address, Spi!Size
  <2> QED BY <1>1, <2>1, <2>2 DEF TypeOK
<1>4. Latch'
  BY <1>1, <1>2, LatchUntouched
<1>5. Closed
  <2>1. ASSUME InSync PROVE Closed
    <3>1. Sync(Current)
      BY <2>1 DEF InSync
    <3>2. Clean /\ (pc = "app" \/ (pc = "main" /\ Silent) \/ Draining)
      BY <1>1, <3>1 DEF Sync
    <3> QED BY <3>2, ZerosFacts DEF Closed, Away, Poking, Clean, Silent
  <2> QED BY <1>1, <2>1 DEF InWindow, Closed
<1>6. Closed'
  <2>1. Draining => Draining'
    BY <1>2, DrainingUntouched
  <2> QED BY <1>2, <1>5, <2>1 DEF Closed, Poking, Away
<1> QED BY <1>1, <1>3, <1>4, <1>6 DEF IInv, Modes

-----------------------------------------------------------------------------
(* The serial line, the flash and the reset of the board. *)

(* A byte arrives where the loader waits for it. *)
LEMMA ArriveStep ==
  ASSUME IInv, Arrive
  PROVE  IInv'
<1>1. /\ TypeOK /\ Latch /\ Modes /\ line # <<>> /\ Boot!Waits
      /\ rx' = (IF Len(rx) < RxDepth THEN Append(rx, Head(line)) ELSE rx) /\ line' = Tail(line)
      /\ UNCHANGED <<flashVars, tx, loaderVars, ser_in, host, todo, window, before>>
  BY DEF IInv, Arrive, Boot!Receive, hostVars
<1>2. UNCHANGED <<tx, pc, console_cmd>> /\ UNCHANGED loaderVars
  BY <1>1 DEF loaderVars
<1>3. /\ rx \in Seq(Nat) /\ Len(rx) \in Nat /\ Len(rx) <= RxDepth /\ RxDepth \in Nat
      /\ Head(line) \in Nat /\ Tail(line) \in Seq(Nat)
  BY <1>1, HeadTailProperties, LenProperties, XipAssumption DEF TypeOK, Boot!TypeOK
<1>4. TypeOK'
  <2>1. rx' \in Seq(Nat) /\ Len(rx') <= RxDepth
    <3>1. Append(rx, Head(line)) \in Seq(Nat) /\ Len(Append(rx, Head(line))) = Len(rx) + 1
      BY <1>3, AppendProperties
    <3> QED BY <1>1, <1>3, <3>1
  <2>2. Boot!TypeOK' /\ Len(page)' <= PageWords
    BY <1>1, <2>1 DEF TypeOK, Boot!TypeOK, Boot!Spi!TypeOK, Boot!Spi!Address, Boot!Spi!Size,
                      Boot!Listening, flashVars, loaderVars
  <2>3. Spi!Address' = Spi!Address
    BY DEF Spi!Address, Spi!Size
  <2> QED BY <1>1, <1>3, <2>2, <2>3 DEF TypeOK
<1>5. Latch'
  BY <1>1, <1>2, LatchUntouched
<1>6. Legal(todo)' = Legal(todo) /\ Current' = Current
  BY <1>1 DEF Current
<1>7. Poking \/ Away => Poking' \/ Away'
  <2>1. Away => Away'
    BY <1>2 DEF Away
  <2>2. ASSUME Poking PROVE Poking'
    <3>1. Head(line) = Boot!POKE /\ line' \in Zeros
      BY <1>1, <2>2, ZerosFacts DEF Poking
    <3>2. rx' \in Zeros
      BY <1>1, <2>2, <3>1, ZerosFacts DEF Poking
    <3> QED BY <1>2, <2>2, <3>1, <3>2 DEF Poking
  <2> QED BY <2>1, <2>2
<1>8. ASSUME Draining PROVE Draining'
  <2>1. PICK r \in Reads :
          /\ r[2] = 0
          /\ \/ Arriving(<<Boot!FLASH_READ, r[1], r[2]>>)
             \/ Lagging /\ line = <<Boot!FLASH_READ, r[1], r[2]>>
    BY <1>8 DEF Draining
  <2> DEFINE m == <<Boot!FLASH_READ, r[1], r[2]>>
  <2>2. r[1] \in Nat /\ r[2] \in Nat
    BY XipAssumption
  <2>3. m \in Seq(Nat) /\ m # <<>>
    BY <2>2
  <2>4. Message(m)
    BY <2>3 DEF Message
  <2> HIDE DEF m
  <2>5. CASE Arriving(m)
    <3>1. Arriving(m)'
      BY <1>1, <2>4, <2>5, ReceiveNext
    <3> QED BY <2>1, <3>1 DEF Draining, m
  <2>6. CASE Lagging
    BY <1>1, <2>6, LaggingBusy
  <2> QED BY <2>1, <2>5, <2>6 DEF m
<1>9. ASSUME host = "closed" PROVE Modes'
  <2>1. Closed
    BY <1>1, <1>9 DEF Modes
  <2>2. Closed'
    BY <1>2, <1>7, <1>8, <2>1 DEF Closed
  <2> QED BY <1>1, <1>9, <2>2 DEF Modes
<1>10. ASSUME host # "closed", InWindow PROVE Modes'
  <2>1. InWindow'
    BY <1>1, <1>7, <1>10 DEF InWindow
  <2> QED BY <1>1, <1>6, <1>10, <2>1 DEF Modes
<1>11. ASSUME host # "closed", InSync PROVE Modes'
  <2>1. PICK m \in {Current} : Sync(m)
    BY <1>11 DEF InSync
  <2>2. ~Silent /\ ~Lagging
    BY <1>1, LaggingBusy DEF Silent
  <2>3. Clean => Clean'
    BY <1>1 DEF Clean
  <2>4. ASSUME host = "wait", Clean, Arriving(m) PROVE Sync(m)'
    <3>1. Message(m)
      <4>1. todo # <<>>
        BY <1>1, <2>4 DEF TypeOK
      <4> QED BY <1>1, <1>11, <2>1, <4>1, CurrentMessage DEF Modes
    <3>2. Arriving(m)'
      BY <1>1, <2>4, <3>1, ReceiveNext
    <3> QED BY <1>1, <2>3, <2>4, <3>2 DEF Sync, Busy
  <2>5. Sync(m)'
    <3>1. CASE Clean /\ pc = "app"
      BY <1>2, <2>3, <3>1 DEF Sync
    <3>2. CASE Clean /\ Draining /\ host = "prompt"
      BY <1>1, <1>8, <2>3, <3>2 DEF Sync
    <3> QED BY <2>1, <2>2, <2>4, <3>1, <3>2
            DEF Sync, Busy, Trailing, Executing, Reading, Answered
  <2>6. InSync'
    BY <1>1, <1>6, <1>11, <2>1, <2>5 DEF InSync, Resetting, Working
  <2> QED BY <1>1, <1>6, <1>11, <2>6 DEF Modes
<1> QED BY <1>1, <1>4, <1>5, <1>9, <1>10, <1>11 DEF IInv, Modes

(* A byte of an answer reaches the tool, in its order. *)
LEMMA TransmitStep ==
  ASSUME IInv, Transmit
  PROVE  IInv'
<1>1. /\ TypeOK /\ Latch /\ Modes /\ tx # <<>> /\ tx' = Tail(tx)
      /\ ser_in' = (IF host = "closed" THEN ser_in ELSE Append(ser_in, Head(tx)))
      /\ UNCHANGED <<flashVars, rx, loaderVars, line, host, todo, window, before>>
  BY DEF IInv, Transmit, hostVars
<1>2. UNCHANGED <<rx, pc, console_cmd, addr, len, data_idx, flash>>
  BY <1>1 DEF loaderVars, flashVars
<1>3. /\ tx \in Seq(Nat) /\ ser_in \in Seq(Nat) /\ Len(tx) <= TxDepth /\ TxDepth \in Nat
      /\ Head(tx) \in Nat /\ Tail(tx) \in Seq(Nat) /\ Len(Tail(tx)) = Len(tx) - 1
      /\ Len(tx) \in Nat
  BY <1>1, HeadTailProperties, LenProperties, XipAssumption DEF TypeOK, Boot!TypeOK
<1>4. TypeOK'
  <2>1. tx' \in Seq(Nat) /\ Len(tx') <= TxDepth
    BY <1>1, <1>3
  <2>2. Boot!TypeOK' /\ Len(page)' <= PageWords
    BY <1>1, <2>1 DEF TypeOK, Boot!TypeOK, Boot!Spi!TypeOK, Boot!Spi!Address, Boot!Spi!Size,
                      Boot!Listening, flashVars, loaderVars
  <2>3. Spi!Address' = Spi!Address
    BY DEF Spi!Address, Spi!Size
  <2>4. ser_in' \in Seq(Nat)
    BY <1>1, <1>3, AppendProperties
  <2> QED BY <1>1, <2>2, <2>3, <2>4 DEF TypeOK
<1>5. Latch'
  BY <1>1, <1>2, LatchUntouched
<1>6. Legal(todo)' = Legal(todo) /\ Current' = Current
  BY <1>1 DEF Current
<1>7. ~Away
  BY <1>1 DEF Away
<1>8. ASSUME Poking PROVE Poking' /\ Head(tx) = Boot!POKE
  <2>1. Head(tx) = Boot!POKE /\ tx' \in Zeros
    BY <1>1, <1>8, ZerosFacts DEF Poking
  <2> QED BY <1>1, <1>2, <1>8, <2>1 DEF Poking
<1>9. ASSUME host = "closed" PROVE Modes'
  <2>1. Poking
    BY <1>1, <1>7, <1>9 DEF Modes, Closed
  <2> QED BY <1>1, <1>8, <1>9, <2>1 DEF Modes, Closed
<1>10. ASSUME host # "closed", InWindow PROVE Modes'
  <2>1. Poking /\ ser_in \in Zeros
    BY <1>7, <1>10 DEF InWindow
  <2>2. ser_in' \in Zeros
    BY <1>1, <1>8, <1>10, <2>1, ZerosFacts
  <2>3. InWindow'
    BY <1>1, <1>8, <1>10, <2>1, <2>2 DEF InWindow
  <2> QED BY <1>1, <1>6, <1>10, <2>3 DEF Modes
<1>11. ASSUME host # "closed", InSync PROVE Modes'
  <2>1. PICK m \in {Current} : Sync(m)
    BY <1>11 DEF InSync
  <2>2. ~Clean
    BY <1>1 DEF Clean
  <2>3. ser_in' \o tx' = ser_in \o tx
    BY <1>1, <1>3, <1>11, PassedOn
  <2>4. AnswerTo(m)' = AnswerTo(m)
    BY <1>2 DEF AnswerTo
  <2>5. Silent => Silent'
    BY <1>1, <1>2 DEF Silent
  <2>6. Reading(m) => Reading(m)'
    BY <1>2, <2>3, <2>4, <2>5 DEF Reading
  <2>7. Answered(m) => Answered(m)'
    BY <1>1, <1>2, <2>3, <2>4, <2>5 DEF Answered
  <2>8. Sync(m)'
    BY <1>1, <2>1, <2>2, <2>6, <2>7 DEF Sync, Busy
  <2>9. InSync'
    BY <1>1, <1>6, <1>11, <2>1, <2>8 DEF InSync, Resetting, Working
  <2> QED BY <1>1, <1>6, <1>11, <2>9 DEF Modes
<1> QED BY <1>1, <1>4, <1>5, <1>9, <1>10, <1>11 DEF IInv, Modes

(* The flash gets done while the loader polls it. *)
LEMMA FlashDoneStep ==
  ASSUME IInv, FlashDone
  PROVE  IInv'
<1>1. /\ TypeOK /\ Latch /\ Modes /\ wip /\ wip' = FALSE /\ wel' = FALSE /\ flash' = flash
      /\ UNCHANGED <<uartVars, loaderVars, line, ser_in, host, todo, window, before>>
  BY DEF IInv, FlashDone, Spi!Done, hostVars
<1>2. UNCHANGED <<rx, tx, pc, console_cmd, addr, len, page, data_idx>> /\ pc = "poll"
  BY <1>1 DEF uartVars, loaderVars, Latch
<1>3. TypeOK'
  <2>1. Boot!TypeOK' /\ Len(page)' <= PageWords
    BY <1>1, <1>2 DEF TypeOK, Boot!TypeOK, Boot!Spi!TypeOK, Boot!Spi!Address, Boot!Spi!Size,
                      Boot!Listening
  <2>2. Spi!Address' = Spi!Address
    BY DEF Spi!Address, Spi!Size
  <2> QED BY <1>1, <2>1, <2>2 DEF TypeOK
<1>4. Latch'
  BY <1>1, <1>2 DEF Latch
<1>5. ~Poking /\ ~Away /\ ~Draining /\ ~Lagging
  <2>1. ~Poking /\ ~Away /\ ~Lagging
    BY <1>2 DEF Poking, Away, Lagging
  <2>2. ~Draining
    BY <1>2, DrainingPlace
  <2> QED BY <2>1, <2>2
<1>6. host # "closed" /\ Legal(todo) /\ InSync
  BY <1>1, <1>5 DEF Modes, Closed, InWindow
<1>7. PICK m \in {Current} : Sync(m)
  BY <1>6 DEF InSync
<1>8. host = "wait" /\ Busy(m)
  BY <1>2, <1>5, <1>7 DEF Sync, Trailing
<1>9. Message(m)
  <2>1. todo # <<>>
    BY <1>1, <1>8 DEF TypeOK
  <2> QED BY <1>1, <1>6, <1>7, <2>1, CurrentMessage
<1>10. Clean /\ Executing(m)
  <2>1. ~Arriving(m)
    BY <1>2, <1>9, WhereParsed DEF Arriving, At
  <2> QED BY <1>2, <1>8, <2>1 DEF Busy, Reading, Answered
<1>11. Clean' /\ Executing(m)'
  BY <1>1, <1>2, <1>10 DEF Clean, Executing, Silent
<1>12. Legal(todo)' = Legal(todo) /\ Current' = Current
  BY <1>1 DEF Current
<1>13. InSync'
  BY <1>1, <1>6, <1>7, <1>8, <1>11, <1>12 DEF InSync, Sync, Busy, Resetting, Working
<1> QED BY <1>1, <1>3, <1>4, <1>6, <1>12, <1>13 DEF IInv, Modes

(* The board is reset while all is quiet; the session goes on in the boot  *)
(* window.                                                                 *)
LEMMA ResetBoardStep ==
  ASSUME IInv, ResetBoard
  PROVE  IInv'
<1>1. /\ TypeOK /\ Latch /\ Modes /\ Quiet
      /\ host = "closed" \/ (host = "prompt" /\ ~window)
      /\ rx' = <<>> /\ tx' = <<>> /\ pc' = "boot" /\ Boot!Forget /\ window' = TRUE
      /\ UNCHANGED <<flashVars, line, ser_in, host, todo, before>>
  BY UserActsQuiet DEF IInv, ResetBoard, Boot!Restart, Boot!Goto
<1>2. line = <<>> /\ tx = <<>> /\ ~Draining
  BY <1>1, QuietFacts
<1>3. TypeOK'
  <2>1. <<>> \in Seq(Nat) /\ Len(<<>>) = 0
    BY EmptySeq
  <2>2. Boot!TypeOK' /\ Len(page)' <= PageWords
    BY <1>1, <2>1, XipAssumption
       DEF TypeOK, Boot!TypeOK, Boot!Spi!TypeOK, Boot!Spi!Address, Boot!Spi!Size,
           Boot!Listening, Boot!Forget, flashVars
  <2>3. Spi!Address' = Spi!Address
    BY DEF Spi!Address, Spi!Size
  <2> QED BY <1>1, <2>2, <2>3 DEF TypeOK
<1>4. host = "prompt" => todo = <<>> /\ Clean /\ (pc = "app" \/ pc = "main")
  <2>1. SUFFICES ASSUME host = "prompt"
                 PROVE  todo = <<>> /\ Clean /\ (pc = "app" \/ pc = "main")
    OBVIOUS
  <2>2. todo = <<>>
    BY <1>1, <2>1 DEF TypeOK
  <2>3. InSync
    BY <1>1, <2>1 DEF Modes, InWindow
  <2>4. Sync(Current)
    BY <2>3 DEF InSync
  <2> QED BY <1>2, <2>1, <2>2, <2>4 DEF Sync
<1>5. Latch'
  <2>1. pc # "poll" /\ pc # "op"
    BY <1>1, <1>2, <1>4 DEF Modes, Closed, Poking, Away
  <2> QED BY <1>1, <2>1 DEF Latch, flashVars
<1>6. Poking'
  BY <1>1, <1>2, ZerosFacts DEF Poking
<1>7. CASE host = "closed"
  BY <1>1, <1>3, <1>5, <1>6, <1>7 DEF IInv, Modes, Closed
<1>8. CASE host = "prompt"
  <2>1. InWindow'
    BY <1>1, <1>4, <1>6, <1>8, ZerosFacts DEF InWindow, Clean
  <2>2. Legal(todo)'
    BY <1>1, <1>8 DEF Modes
  <2> QED BY <1>1, <1>3, <1>5, <1>8, <2>1, <2>2 DEF IInv, Modes
<1> QED BY <1>1, <1>7, <1>8

-----------------------------------------------------------------------------
(* The theorems. *)

(* At the start nothing is on its way and no session is open. *)
LEMMA InitInv == Init => IInv
<1> SUFFICES ASSUME Init PROVE IInv
  OBVIOUS
<1>1. <<>> \in Seq(Nat) /\ Len(<<>>) = 0 /\ <<>> \in Seq(Seq(Nat))
  BY EmptySeq
<1>2. Boot!Spi!TypeOK /\ before \in [Spi!Address -> Contents]
  BY XipAssumption DEF Init, Boot!Spi!TypeOK, Boot!Spi!Address, Boot!Spi!Size, Spi!Address, Spi!Size
<1>3. Boot!TypeOK
  BY <1>1, <1>2, XipAssumption DEF Init, Boot!TypeOK, Boot!Listening
<1>4. TypeOK
  <2>1. Len(page) <= PageWords
    BY <1>1, XipAssumption DEF Init
  <2> QED BY <1>1, <1>2, <1>3, <2>1 DEF Init, TypeOK
<1>5. Latch
  BY DEF Init, Latch
<1>6. Poking
  BY ZerosFacts DEF Init, Poking
<1> QED BY <1>4, <1>5, <1>6 DEF Init, IInv, Modes, Closed

(* Every step of the tool, the line, the loader and the flash keeps them   *)
(* together.                                                               *)
LEMMA NextInv ==
  ASSUME ~UseAfterWindow, ShortReads, ~SlowFlash, IInv, [Next]_vars
  PROVE  IInv'
<1>1. CASE Open
  BY <1>1, OpenStep
<1>2. ASSUME NEW r \in Requests, Begin(r) PROVE IInv'
  BY <1>2, BeginStep
<1>3. CASE Send
  BY <1>3, SendStep
<1>4. CASE TakeReply
  BY <1>4, TakeReplyStep
<1>5. CASE Timeout
  BY <1>5, TimeoutStep
<1>6. CASE Exit
  BY <1>6, ExitStep
<1>7. CASE Arrive
  BY <1>7, ArriveStep
<1>8. CASE Transmit
  BY <1>8, TransmitStep
<1>9. CASE LoaderStep
  BY <1>9, LoaderTypes, LoaderLatch, LoaderModes DEF IInv
<1>10. CASE FlashDone
  BY <1>10, FlashDoneStep
<1>11. CASE ResetBoard
  BY <1>11, ResetBoardStep
<1>12. CASE UNCHANGED vars
  <2>1. /\ UNCHANGED <<flash, wel, wip, rx, tx, pc, console_cmd, addr, len, page, data_idx>>
        /\ UNCHANGED <<line, ser_in, host, todo, window, before>>
        /\ UNCHANGED <<flashVars, uartVars, loaderVars>>
    BY <1>12 DEF vars, flashVars, uartVars, loaderVars, hostVars
  <2>2. TypeOK'
    <3>1. Boot!TypeOK' /\ Len(page)' <= PageWords
      BY <2>1, LoaderUntouched DEF IInv
    <3>2. Spi!Address' = Spi!Address
      BY DEF Spi!Address, Spi!Size
    <3> QED BY <2>1, <3>1, <3>2 DEF IInv, TypeOK
  <2>3. Latch'
    BY <2>1 DEF IInv, Latch
  <2>4. Modes' = Modes
    <3>1. /\ Poking' = Poking /\ Away' = Away /\ Draining' = Draining /\ Clean' = Clean
          /\ Silent' = Silent /\ Legal(todo)' = Legal(todo) /\ Current' = Current
          /\ \A m : /\ Arriving(m)' = Arriving(m) /\ Executing(m)' = Executing(m)
                    /\ Reading(m)' = Reading(m) /\ Answered(m)' = Answered(m)
                    /\ Trailing(m)' = Trailing(m)
      BY <2>1 DEF Poking, Away, Draining, Clean, Silent, Current, Arriving, At, Parsed, Executing,
                  Reading, Answered, Trailing, Lagging, AnswerTo
    <3>2. Closed' = Closed /\ InWindow' = InWindow
      BY <2>1, <3>1 DEF Closed, InWindow
    <3>3. \A m : Sync(m)' = Sync(m)
      BY <2>1, <3>1 DEF Sync, Busy
    <3>4. InSync' = InSync
      BY <2>1, <3>1, <3>3 DEF InSync, Resetting, Working
    <3> QED BY <2>1, <3>1, <3>2, <3>4 DEF Modes
  <2> QED BY <2>2, <2>3, <2>4 DEF IInv
<1> QED BY <1>1, <1>2, <1>3, <1>4, <1>5, <1>6, <1>7, <1>8, <1>9, <1>10, <1>11, <1>12 DEF Next

(* The invariant holds as long as the tool gives no other command in the   *)
(* boot window than a poke, and the flash and every read are done within   *)
(* the second the tool waits.                                              *)
THEOREM Invariance ==
  ASSUME ~UseAfterWindow, ShortReads, ~SlowFlash
  PROVE  Spec => []IInv
<1>1. Init => IInv
  BY InitInv
<1>2. IInv /\ [Next]_vars => IInv'
  BY NextInv
<1> QED BY <1>1, <1>2, PTL DEF Spec

(* The registers, buffers and places stay in their ranges, and the loader  *)
(* never takes more of a page than was announced nor than its buffer holds *)
(* (data_page, bootloader_xip.c:244 and 292-297).                          *)
THEOREM TypeCorrect ==
  ASSUME ~UseAfterWindow, ShortReads, ~SlowFlash
  PROVE  Spec => []TypeOK
<1>1. IInv => TypeOK
  BY DEF IInv
<1> QED BY <1>1, Invariance, PTL

(* While the loader erases or programs (bootloader_xip.c:364 and 438), no  *)
(* byte is on its way to its receive FIFO, for any depth of the FIFOs, any *)
(* files, addresses and page size of the tool, and any reads of a second.  *)
THEOREM LoaderUndisturbed ==
  ASSUME ~UseAfterWindow, ShortReads, ~SlowFlash
  PROVE  Spec => []BusyLoaderUndisturbed
<1>1. IInv => BusyLoaderUndisturbed
  <2>1. IInv => (wip => pc = "poll")
    BY DEF IInv, Latch
  <2> QED BY <2>1, Reach DEF BusyLoaderUndisturbed, Silent
<1> QED BY <1>1, Invariance, PTL

(* The tool takes the answer to its message, or nothing for a read of no   *)
(* bytes.                                                                  *)
LEMMA AnswersFit ==
  ASSUME IInv, Replied
  PROVE  SubSeq(ser_in, 1, Want(Head(todo))) = AnswerTo(Head(todo))
<1>1. /\ TypeOK /\ Legal(todo) /\ (InWindow \/ InSync)
      /\ host = "wait" /\ todo # <<>> /\ Len(ser_in) >= Want(Head(todo))
  BY DEF IInv, Modes, Replied, TypeOK
<1>2. Current = Head(todo) /\ Message(Current)
  BY <1>1, CurrentMessage
<1>3. ser_in \in Seq(Nat) /\ Len(ser_in) \in Nat
  BY <1>1, LenProperties DEF TypeOK
<1>4. CASE InWindow
  <2>1. Head(todo) = <<Boot!POKE>> /\ ser_in \in Seq({Boot!POKE})
    BY <1>1, <1>4, ZerosFacts DEF InWindow, Zeros
  <2>2. Want(Head(todo)) = 1 /\ AnswerTo(Head(todo)) = <<Boot!POKE>>
    BY <2>1 DEF Want, AnswerTo
  <2>3. Len(ser_in) >= 1 /\ ser_in[1] = Boot!POKE
    <3>1. Len(ser_in) >= 1
      BY <1>1, <2>2
    <3>2. \A i \in 1 .. Len(ser_in) : ser_in[i] \in {Boot!POKE}
      BY <2>1, ElementOfSeq
    <3> QED BY <1>3, <3>1, <3>2
  <2>4. SubSeq(ser_in, 1, 1) = <<ser_in[1]>>
    <3>1. SubSeq(ser_in, 1, 1) = <<ser_in[1]>> \o SubSeq(ser_in, 1 + 1, 1)
      <4>1. 1 \in 1 .. Len(ser_in)
        BY <1>3, <2>3
      <4> QED BY <1>3, <4>1, SubSeqRecursiveFirst
    <3>2. SubSeq(ser_in, 1 + 1, 1) = <<>>
      BY SubSeqEmpty
    <3>3. <<ser_in[1]>> \in Seq(Nat)
      BY <2>3
    <3> QED BY <3>1, <3>2, <3>3, ConcatEmptySeq
  <2> QED BY <2>2, <2>3, <2>4
<1>5. CASE InSync
  <2>1. PICK m \in {Current} : Sync(m)
    BY <1>5 DEF InSync
  <2>2. m = Head(todo) /\ Message(m)
    BY <1>2, <2>1
  <2>3. CASE Answered(m)
    <3>1. ser_in = AnswerTo(m) /\ Len(ser_in) = Want(m)
      BY <1>1, <2>2, <2>3, AnswerTaken
    <3>2. SubSeq(ser_in, 1, Len(ser_in)) = ser_in
      BY <1>3, SubSeqFull
    <3> QED BY <2>2, <3>1, <3>2
  <2>4. CASE Clean /\ Want(m) = 0 /\ m[1] = Boot!FLASH_READ
    <3>1. AnswerTo(m) \in Seq(Nat) /\ Len(AnswerTo(m)) = 0
      BY <1>1, <2>2, <2>4, AnswerLength
    <3>2. AnswerTo(m) = <<>>
      BY <3>1, EmptySeq
    <3>3. SubSeq(ser_in, 1, 0) = <<>>
      BY SubSeqEmpty
    <3> QED BY <2>2, <2>4, <3>2, <3>3
  <2> QED BY <1>1, <2>1, <2>2, <2>3, <2>4, ReplyInSync
<1> QED BY <1>1, <1>4, <1>5

(* Every reply that the tool reads (neorv_sh.py:152-296) is the answer to  *)
(* the message it sent last, with the contents of the flash where these    *)
(* are asked for, as long as no read is given up (line 240).               *)
THEOREM RepliesAnswerCommands ==
  ASSUME ~UseAfterWindow, ShortReads, ~SlowFlash
  PROVE  Spec => []ReplyAnswersCommand
<1>1. IInv => ReplyAnswersCommand
  BY AnswersFit DEF ReplyAnswersCommand
<1> QED BY <1>1, Invariance, PTL

-----------------------------------------------------------------------------
(* Seen between two commands, the flash changes as a whole. *)

(* A command that changes the flash is under way, and somebody answers. *)
Ongoing ==
  host \in {"send", "wait"} /\ pc # "app" /\ Head(todo)[1] \in {Boot!ERASE_SECTOR, Boot!FLASH_WRITE}

(* The sectors or words of the first message of todo that have been erased *)
(* or programmed.                                                          *)
Carried ==
  IF host # "wait" THEN 0
  ELSE IF pc = "main" /\ Silent THEN Units(Head(todo))
  ELSE IF pc \in {"wren", "op", "poll", "reply"}
       THEN IF Head(todo)[1] = Boot!FLASH_WRITE THEN data_idx
            ELSE IF pc \in {"poll", "reply"} THEN 1 ELSE 0
  ELSE 0

(* What is left of such a command, and the flash.                          *)
Erasing ==
  \E a \in EraseAddrs :
    /\ todo = << <<Boot!ERASE_SECTOR, a>> >>
    /\ flash = IF Carried = 0 THEN before ELSE Spi!EraseAt(before, a)

Writing ==
  \E a \in WriteAddrs, f \in Files :
    /\ Fits(a, f)
    /\ \E i \in 0 .. Len(FileMessages(a, f)) - 1 :
         /\ todo = SubSeq(FileMessages(a, f), i + 1, Len(FileMessages(a, f)))
         /\ flash = Stage(before, a, f, i, Carried)

(* Before it answers, the loader has carried out the whole message. *)
Completed == Ongoing /\ host = "wait" /\ pc = "reply" => Carried = Units(Head(todo))

WholeInv ==
  /\ host \in {"send", "wait"} => IF Ongoing THEN Erasing \/ Writing ELSE flash = before
  /\ Completed

(* What is left of a sequence of messages. *)
LEMMA Remaining ==
  ASSUME NEW s \in Seq(Seq(Nat)), NEW i \in 0 .. Len(s) - 1
  PROVE  LET r == SubSeq(s, i + 1, Len(s))
         IN  /\ i \in Nat /\ Len(s) \in Nat /\ i + 1 <= Len(s)
             /\ r # <<>> /\ Head(r) = s[i + 1]
             /\ Tail(r) = SubSeq(s, (i + 1) + 1, Len(s))
             /\ Tail(r) = <<>> <=> i + 1 = Len(s)
<1> DEFINE k == i + 1
           n == Len(s)
           r == SubSeq(s, k, n)
           t == SubSeq(s, k + 1, n)
<1>1. n \in Nat /\ k \in Nat /\ k <= n /\ i \in Nat /\ k >= 1
  BY LenProperties
<1> HIDE DEF k, n
<1>2. \A x \in 1 .. n : s[x] \in Seq(Nat)
  BY ElementOfSeq DEF n
<1>3. Len(r) = n - k + 1 /\ r \in Seq(Seq(Nat))
  <2>1. \A x \in k .. n : s[x] \in Seq(Nat)
    BY <1>1, <1>2
  <2>2. r \in Seq(Seq(Nat)) /\ Len(r) = IF k <= n THEN n - k + 1 ELSE 0
    BY <1>1, <2>1, SubSeqProperties
  <2> QED BY <1>1, <2>2
<1>4. Head(r) = s[k] /\ Tail(r) = t
  BY <1>1, HeadTailOfSubSeq
<1>5. t \in Seq(Seq(Nat)) /\ Len(t) = IF k + 1 <= n THEN n - (k + 1) + 1 ELSE 0
  <2> DEFINE l == k + 1
  <2>1. l \in Nat /\ \A x \in l .. n : s[x] \in Seq(Nat)
    BY <1>1, <1>2
  <2> HIDE DEF l
  <2>2. SubSeq(s, l, n) \in Seq(Seq(Nat)) /\ Len(SubSeq(s, l, n)) = IF l <= n THEN n - l + 1 ELSE 0
    BY <1>1, <2>1, SubSeqProperties
  <2> QED BY <2>2 DEF l
<1> HIDE DEF r, t
<1>6. r # <<>>
  <2>1. Len(r) # 0
    BY <1>1, <1>3
  <2> QED BY <2>1, EmptySeq
<1>7. t = <<>> <=> k = n
  <2>1. Len(t) = 0 <=> k = n
    BY <1>1, <1>5
  <2>2. Len(t) = 0 <=> t = <<>>
    BY <1>5, EmptySeq
  <2> QED BY <2>1, <2>2
<1> QED BY <1>1, <1>4, <1>6, <1>7 DEF k, n, r, t

(* A message that is arriving is somewhere. *)
LEMMA ArrivingNotSilent ==
  ASSUME NEW m, Message(m), Arriving(m)
  PROVE  ~Silent /\ pc \in {"main", "addr", "len", "data"}
<1>1. PICK k \in 0 .. Len(m) - 1, j \in 0 .. Len(m) : At(m, k, j)
  BY DEF Arriving
<1>2. /\ k \in Nat /\ Len(m) \in Nat /\ m \in Seq(Nat) /\ pc \in {"main", "addr", "len", "data"}
  BY <1>1, WhereParsed DEF At
<1>3. Rest(m, j) = <<>> <=> j = Len(m)
  BY <1>2, RestFacts
<1>4. j = k => Rest(m, j) # <<>>
  BY <1>1, <1>2, <1>3
<1>5. rx = <<>> => j = k
  BY <1>1 DEF At
<1> QED BY <1>1, <1>2, <1>4, <1>5 DEF At, Silent

(* While such a command is under way, its first message is about to be     *)
(* sent, on its way, carried out or answered, and so much of it has been   *)
(* carried out.                                                            *)
LEMMA OngoingCases ==
  ASSUME IInv, Ongoing, NEW m, m = Head(todo)
  PROVE  /\ todo # <<>> /\ Message(m) /\ Head(m) = m[1] /\ m[1] \in Fields /\ m[1] # Boot!FLASH_READ
         /\ Sync(m)
         /\ host = "send" => (pc = "main" /\ Silent) \/ Lagging
         /\ host = "wait" =>
              \/ Clean /\ Arriving(m) /\ Carried = 0
              \/ Clean /\ Trailing(m) /\ Carried = 0
              \/ /\ Clean /\ Executing(m) /\ pc \in {"wren", "op", "poll", "reply"}
                 /\ Carried = IF m[1] = Boot!FLASH_WRITE THEN data_idx
                              ELSE IF pc \in {"poll", "reply"} THEN 1 ELSE 0
              \/ Answered(m) /\ pc = "main" /\ Silent /\ Carried = Units(m)
<1>1. /\ TypeOK /\ host \in {"send", "wait"} /\ pc # "app" /\ Legal(todo) /\ (InWindow \/ InSync)
      /\ todo # <<>> /\ m[1] \in {Boot!ERASE_SECTOR, Boot!FLASH_WRITE}
  BY DEF IInv, Modes, TypeOK, Ongoing
<1>2. Current = m /\ Message(m) /\ m \in Seq(Nat)
  BY <1>1, CurrentMessage
<1>3. Head(m) = m[1] /\ m[1] \in Fields /\ m[1] # Boot!FLASH_READ
  BY <1>1, <1>2, AnswerLength DEF Fields
<1>4. ~InWindow
  <2>1. todo = Poke => m = <<Boot!POKE>>
    BY ZerosFacts
  <2>2. todo = Poke => m[1] = Boot!POKE
    BY <2>1
  <2> QED BY <1>1, <2>2 DEF InWindow
<1>5. Sync(m)
  BY <1>1, <1>2, <1>4 DEF InSync
<1>6. host = "send" => (pc = "main" /\ Silent) \/ Lagging
  BY <1>1, <1>5 DEF Sync, Trailing
<1>7. ASSUME host = "wait"
      PROVE  \/ Clean /\ Arriving(m) /\ Carried = 0
             \/ Clean /\ Trailing(m) /\ Carried = 0
             \/ /\ Clean /\ Executing(m) /\ pc \in {"wren", "op", "poll", "reply"}
                /\ Carried = IF m[1] = Boot!FLASH_WRITE THEN data_idx
                             ELSE IF pc \in {"poll", "reply"} THEN 1 ELSE 0
             \/ Answered(m) /\ pc = "main" /\ Silent /\ Carried = Units(m)
  <2>1. CASE Clean /\ Trailing(m)
    <3>1. Carried = 0
      BY <2>1 DEF Carried, Trailing, Lagging
    <3> QED BY <2>1, <3>1
  <2>2. CASE Clean /\ Arriving(m)
    <3>1. Carried = 0
      BY <1>2, <2>2, ArrivingNotSilent DEF Carried
    <3> QED BY <2>2, <3>1
  <2>3. CASE Clean /\ Executing(m)
    <3>1. pc \in {"wren", "op", "poll", "reply"}
      BY <2>3 DEF Executing
    <3>2. Carried = IF m[1] = Boot!FLASH_WRITE THEN data_idx
                    ELSE IF pc \in {"poll", "reply"} THEN 1 ELSE 0
      BY <1>7, <3>1 DEF Carried
    <3> QED BY <2>3, <3>1, <3>2
  <2>4. CASE Answered(m)
    <3>1. pc = "main" /\ Silent
      BY <1>1, <2>4 DEF Answered
    <3>2. Carried = Units(m)
      BY <1>7, <3>1 DEF Carried
    <3> QED BY <2>4, <3>1, <3>2
  <2>5. ~Reading(m)
    BY <1>3 DEF Reading
  <2> QED BY <1>1, <1>5, <1>7, <2>1, <2>2, <2>3, <2>4, <2>5 DEF Sync, Busy
<1> QED BY <1>1, <1>2, <1>3, <1>5, <1>6, <1>7

(* The flash changes only for such a command. *)
LEMMA OperatingFacts ==
  ASSUME IInv, pc = "op"
  PROVE  Ongoing /\ host = "wait" /\ Executing(Head(todo)) /\ wel /\ ~wip
<1>1. /\ wel /\ ~wip
  BY DEF IInv, Latch
<1>2. ~Poking /\ ~Away /\ ~Draining /\ ~Lagging
  BY DrainingPlace DEF Poking, Away, Lagging
<1>3. host # "closed" /\ Legal(todo) /\ InSync /\ TypeOK
  BY <1>2 DEF IInv, Modes, Closed, InWindow
<1>4. Busy(Current) /\ host = "wait"
  BY <1>2, <1>3 DEF InSync, Sync, Trailing
<1>5. todo # <<>>
  BY <1>3, <1>4 DEF TypeOK
<1>6. Current = Head(todo) /\ Message(Current)
  BY <1>3, <1>5, CurrentMessage
<1>7. Executing(Current)
  BY <1>4, <1>6, ArrivingNotSilent DEF Busy, Reading, Answered
<1>8. Head(todo)[1] \in {Boot!ERASE_SECTOR, Boot!FLASH_WRITE}
  BY <1>6, <1>7 DEF Executing
<1> QED BY <1>1, <1>4, <1>6, <1>7, <1>8 DEF Ongoing

(* The loader takes the bytes of a message and leaves the flash alone. *)
LEMMA ArrivingCarriesNothing ==
  ASSUME TypeOK, NEW m, Message(m), m[1] \in Fields, m[1] # Boot!FLASH_READ,
         m = Head(todo), host = "wait", Arriving(m), LoaderStep
  PROVE  pc' # "app" /\ Carried' = 0 /\ (pc' = "reply" => Units(m) = 0)
<1>1. /\ UNCHANGED <<line, host, todo>> /\ Boot!Loader
      /\ pc \in {"main", "addr", "len", "data"}
  BY ArrivingNotSilent DEF LoaderStep, hostVars
<1>2. Boot!Getc
  BY <1>1, LoaderCases DEF Boot!Command, Boot!TakeAddress, Boot!TakeLength, Boot!TakeData
<1>3. PICK k \in 0 .. Len(m) - 1 : Parsed(m, k) /\ Head(rx) = m[k + 1]
  BY <1>1, <1>2, TakeNext
<1>4. /\ k \in Nat
      /\ pc = "main" <=> k = 0
      /\ pc = "addr" <=> k = 1
      /\ pc = "len" <=> k = 2
      /\ pc = "data" <=> k >= 3
  BY <1>3, WhereParsed
<1>5. m[1] = Boot!FLASH_WRITE \/ m[1] = Boot!ERASE_SECTOR
  BY DEF Fields
<1>6. CASE pc = "main"
  <2>1. pc' = Boot!FirstStep(m[1])
    BY <1>1, <1>3, <1>4, <1>6, LoaderCases DEF Boot!Command, Boot!Goto
  <2>2. pc' = "addr"
    BY <1>5, <2>1 DEF Boot!FirstStep
  <2> QED BY <2>2 DEF Carried
<1>7. CASE pc = "addr"
  <2>1. console_cmd = m[1] /\ pc' = IF console_cmd = Boot!ERASE_SECTOR THEN "wren" ELSE "len"
    BY <1>1, <1>3, <1>4, <1>7, LoaderCases DEF Boot!TakeAddress, Boot!Goto, Parsed
  <2>2. pc' = "wren" => Head(todo')[1] # Boot!FLASH_WRITE
    BY <1>1, <2>1
  <2> QED BY <2>1, <2>2 DEF Carried
<1>8. CASE pc = "len"
  <2>1. console_cmd = m[1] /\ m[1] = Boot!FLASH_WRITE /\ Head(rx) = m[3]
    BY <1>3, <1>4, <1>5, <1>8 DEF Parsed
  <2>2. len' = m[3] /\ data_idx' = 0 /\ pc' = IF m[3] > 0 THEN "data" ELSE "reply"
    BY <1>1, <1>8, <2>1, LoaderCases DEF Boot!TakeLength, Boot!Goto
  <2>3. Head(todo')[1] = Boot!FLASH_WRITE
    BY <1>1, <2>1
  <2>4. Carried' = 0 /\ pc' # "app"
    BY <2>2, <2>3 DEF Carried
  <2>5. m[3] \in Nat /\ Units(m) = m[3]
    BY <2>1, MessageShape DEF Units
  <2>6. pc' = "reply" => m[3] = 0
    BY <2>2, <2>5
  <2> QED BY <2>4, <2>5, <2>6
<1>9. CASE pc = "data"
  <2>1. data_idx = 0 /\ m[1] = Boot!FLASH_WRITE
    BY <1>3, <1>4, <1>9 DEF Parsed
  <2>2. data_idx' = 0 /\ pc' \in {"wren", "data"}
    BY <1>1, <1>9, <2>1, LoaderCases DEF Boot!TakeData, Boot!Goto
  <2> QED BY <1>1, <2>1, <2>2 DEF Carried
<1> QED BY <1>1, <1>6, <1>7, <1>8, <1>9

(* A message that is being carried out, but for its operations. *)
LEMMA ExecutingCarries ==
  ASSUME TypeOK, NEW m, Message(m), m[1] \in Fields, m[1] # Boot!FLASH_READ,
         m = Head(todo), host = "wait", Executing(m), LoaderStep, pc # "op",
         Carried = IF m[1] = Boot!FLASH_WRITE THEN data_idx
                   ELSE IF pc \in {"poll", "reply"} THEN 1 ELSE 0,
         pc = "reply" => Carried = Units(m)
  PROVE  pc' # "app" /\ Carried' = Carried /\ (pc' = "reply" => Carried' = Units(m))
<1>1. /\ UNCHANGED <<line, host, todo>> /\ Boot!Loader /\ Silent
      /\ console_cmd = m[1] /\ pc \in {"wren", "poll", "reply"}
      /\ m[1] = Boot!FLASH_WRITE \/ m[1] = Boot!ERASE_SECTOR
  BY DEF LoaderStep, hostVars, Executing, Fields
<1>2. CASE pc = "wren"
  <2>1. pc' = "op" /\ data_idx' = data_idx
    BY <1>1, <1>2, LoaderCases DEF Boot!Wren, Boot!Goto
  <2> QED BY <1>1, <1>2, <2>1 DEF Carried
<1>3. CASE pc = "poll"
  <2>1. /\ data_idx' = data_idx
        /\ pc' = IF m[1] = Boot!FLASH_WRITE /\ data_idx < len THEN "wren" ELSE "reply"
    BY <1>1, <1>3, LoaderCases DEF Boot!Poll, Boot!Goto, Boot!NextWord
  <2>2. pc' = "wren" => m[1] = Boot!FLASH_WRITE
    BY <2>1
  <2>3. Carried' = Carried
    BY <1>1, <1>3, <2>1, <2>2 DEF Carried
  <2>4. pc' = "reply" => Carried = Units(m)
    <3>1. CASE m[1] = Boot!FLASH_WRITE
      <4>1. len = m[3] /\ data_idx <= len /\ data_idx \in Nat /\ len \in Nat
        BY <1>1, <1>3, <3>1 DEF Executing, TypeOK, Boot!TypeOK
      <4>2. pc' = "reply" => data_idx = len
        BY <2>1, <3>1, <4>1
      <4> QED BY <3>1, <4>1, <4>2 DEF Units
    <3>2. CASE m[1] = Boot!ERASE_SECTOR
      BY <1>3, <3>2 DEF Units
    <3> QED BY <1>1, <3>1, <3>2
  <2> QED BY <2>1, <2>3, <2>4
<1>4. CASE pc = "reply"
  <2>1. pc' = "main" /\ rx' = rx
    BY <1>1, <1>4, LoaderCases DEF Boot!Reply, Boot!Goto
  <2>2. Silent' /\ Units(Head(todo')) = Units(m)
    BY <1>1, <2>1 DEF Silent
  <2>3. Carried' = Units(m)
    BY <1>1, <2>1, <2>2 DEF Carried, Units
  <2> QED BY <1>4, <2>1, <2>3
<1> QED BY <1>1, <1>2, <1>3, <1>4

(* Between its operations the loader leaves the flash as it is. *)
LEMMA LoaderCarries ==
  ASSUME IInv, Completed, Ongoing, LoaderStep, pc # "op"
  PROVE  Ongoing' /\ Carried' = Carried /\ Completed'
<1>1. PICK m : m = Head(todo)
  OBVIOUS
<1>2. /\ todo # <<>> /\ Message(m) /\ Head(m) = m[1] /\ m[1] \in Fields /\ m[1] # Boot!FLASH_READ
      /\ Sync(m)
      /\ host = "send" => (pc = "main" /\ Silent) \/ Lagging
      /\ host = "wait" =>
           \/ Clean /\ Arriving(m) /\ Carried = 0
           \/ Clean /\ Trailing(m) /\ Carried = 0
           \/ /\ Clean /\ Executing(m) /\ pc \in {"wren", "op", "poll", "reply"}
              /\ Carried = IF m[1] = Boot!FLASH_WRITE THEN data_idx
                           ELSE IF pc \in {"poll", "reply"} THEN 1 ELSE 0
           \/ Answered(m) /\ pc = "main" /\ Silent /\ Carried = Units(m)
  BY <1>1, OngoingCases
<1>3. /\ UNCHANGED <<line, host, todo>> /\ Boot!Loader /\ TypeOK
      /\ host \in {"send", "wait"} /\ Head(todo)[1] \in {Boot!ERASE_SECTOR, Boot!FLASH_WRITE}
  BY DEF LoaderStep, hostVars, IInv, Ongoing
<1>4. ~(pc = "main" /\ Silent)
  BY <1>3, LoaderCases DEF Boot!Command, Boot!Getc, Silent
<1>5. Lagging => pc' = "main"
  BY <1>3, LoaderCases DEF Lagging, Boot!TakeLength, Boot!Goto
<1>6. CASE host = "send"
  <2>1. Carried' = 0 /\ Carried = 0 /\ pc' # "app"
    BY <1>2, <1>3, <1>4, <1>5, <1>6 DEF Carried
  <2> QED BY <1>3, <1>6, <2>1 DEF Ongoing, Completed
<1>7. CASE host = "wait"
  <2>1. CASE Clean /\ Trailing(m)
    <3>1. Lagging /\ line = m /\ m # <<>>
      BY <1>2, <1>7, <2>1 DEF Trailing, Message
    <3>2. ~Silent'
      BY <1>3, <3>1 DEF Silent
    <3>3. Carried' = 0 /\ Carried = 0
      BY <1>5, <3>1, <3>2 DEF Carried, Lagging
    <3> QED BY <1>3, <1>5, <3>1, <3>3 DEF Ongoing, Completed
  <2>2. CASE Clean /\ Arriving(m) /\ Carried = 0
    <3>1. pc' # "app" /\ Carried' = 0 /\ (pc' = "reply" => Units(m) = 0)
      BY <1>1, <1>2, <1>3, <1>7, <2>2, ArrivingCarriesNothing
    <3>2. Units(Head(todo))' = Units(m)
      BY <1>1, <1>3 DEF Units
    <3> QED BY <1>3, <2>2, <3>1, <3>2 DEF Ongoing, Completed
  <2>3. CASE Clean /\ Executing(m) /\ pc \in {"wren", "op", "poll", "reply"}
             /\ Carried = IF m[1] = Boot!FLASH_WRITE THEN data_idx
                          ELSE IF pc \in {"poll", "reply"} THEN 1 ELSE 0
    <3>1. pc = "reply" => Carried = Units(m)
      BY <1>1, <1>7 DEF Completed
    <3>2. pc' # "app" /\ Carried' = Carried /\ (pc' = "reply" => Carried' = Units(m))
      BY <1>1, <1>2, <1>3, <1>7, <2>3, <3>1, ExecutingCarries
    <3>3. Units(Head(todo))' = Units(m)
      BY <1>1, <1>3 DEF Units
    <3> QED BY <1>3, <3>2, <3>3 DEF Ongoing, Completed
  <2> QED BY <1>2, <1>4, <1>7, <2>1, <2>2, <2>3
<1> QED BY <1>3, <1>6, <1>7

(* What is left of a command stays, while neither the flash nor the tool   *)
(* moves on.                                                               *)
LEMMA StillUnderWay ==
  ASSUME UNCHANGED <<flash, before, todo>>, Carried' = Carried, Erasing \/ Writing
  PROVE  Erasing' \/ Writing'
BY DEF Erasing, Writing

(* The messages of a file by their commands. *)
LEMMA WritingFacts ==
  ASSUME NEW a \in WriteAddrs, NEW f \in Files, NEW i \in 0 .. Len(FileMessages(a, f)) - 1,
         NEW m, m = Head(todo),
         todo = SubSeq(FileMessages(a, f), i + 1, Len(FileMessages(a, f)))
  PROVE  /\ a \in Nat /\ m = FileMessages(a, f)[i + 1]
         /\ i < Erases(a, f) <=> m[1] = Boot!ERASE_SECTOR
         /\ m[1] # Boot!ERASE_SECTOR <=> m[1] = Boot!FLASH_WRITE
<1>1. a \in Nat
  BY XipAssumption
<1>2. FileMessages(a, f) \in Seq(Seq(Nat))
  BY <1>1, FileMessage
<1>3. m = FileMessages(a, f)[i + 1]
  BY <1>2, Remaining
<1>4. CASE i < Erases(a, f)
  <2>1. m = <<Boot!ERASE_SECTOR, (a \div SectorWords + i) * SectorWords>>
    BY <1>1, <1>3, <1>4, FileMessage
  <2>2. m[1] = Boot!ERASE_SECTOR
    BY <2>1
  <2> QED BY <1>1, <1>3, <1>4, <2>2
<1>5. CASE ~(i < Erases(a, f))
  <2> DEFINE p == i - Erases(a, f)
  <2>1. p \in 0 .. LastPage(f) /\ m = PageMessage(a, f, p)
    BY <1>1, <1>3, <1>5, FileMessage
  <2> HIDE DEF p
  <2>2. PageMessage(a, f, p)[1] = Boot!FLASH_WRITE
    BY <1>1, <2>1, PageFacts, Zenon
  <2> QED BY <1>1, <1>3, <1>5, <2>1, <2>2
<1> QED BY <1>4, <1>5

(* An operation of the loader takes the flash on by one sector or word. *)
LEMMA OperateTakesOn ==
  ASSUME IInv, pc = "op", LoaderStep, Erasing \/ Writing
  PROVE  Ongoing' /\ Completed' /\ (Erasing' \/ Writing')
<1>1. PICK m : m = Head(todo)
  OBVIOUS
<1>2. /\ Ongoing /\ host = "wait" /\ Executing(m) /\ wel /\ ~wip /\ Silent /\ console_cmd = m[1]
      /\ UNCHANGED <<host, todo, before>> /\ Boot!Operate
  BY <1>1, OperatingFacts, LoaderCases DEF Executing, LoaderStep, hostVars
<1>3. pc' = "poll" /\ Ongoing' /\ Completed'
  BY <1>2 DEF Boot!Operate, Boot!Goto, Boot!AfterOperation, Ongoing, Completed
<1>4. CASE m[1] = Boot!ERASE_SECTOR
  <2>1. addr = m[2]
    BY <1>2, <1>4 DEF Executing
  <2>2. flash' = Spi!EraseAt(flash, m[2])
    BY <1>2, <1>4, <2>1 DEF Boot!Operate, Boot!Spi!Erase, Boot!Spi!Modify, Boot!Spi!EraseAt,
          Boot!Spi!Address, Boot!Spi!SectorOf, Boot!Spi!Size, Spi!EraseAt, Spi!Address,
          Spi!SectorOf, Spi!Size
  <2>3. Carried = 0 /\ Carried' = 1
    BY <1>1, <1>2, <1>3, <1>4 DEF Carried
  <2>4. ASSUME Erasing PROVE Erasing'
    <3>1. PICK a \in EraseAddrs : todo = << <<Boot!ERASE_SECTOR, a>> >> /\ flash = before
      BY <2>3, <2>4 DEF Erasing
    <3>2. m = <<Boot!ERASE_SECTOR, a>> /\ m[2] = a
      BY <1>1, <3>1
    <3>3. flash' = Spi!EraseAt(before', a)
      BY <1>2, <2>2, <3>1, <3>2
    <3> QED BY <1>2, <2>3, <3>1, <3>3 DEF Erasing
  <2>5. ASSUME Writing PROVE Writing'
    <3>1. PICK a \in WriteAddrs, f \in Files :
            /\ Fits(a, f)
            /\ \E i \in 0 .. Len(FileMessages(a, f)) - 1 :
                 /\ todo = SubSeq(FileMessages(a, f), i + 1, Len(FileMessages(a, f)))
                 /\ flash = Stage(before, a, f, i, 0)
      BY <2>3, <2>5 DEF Writing
    <3>2. PICK i \in 0 .. Len(FileMessages(a, f)) - 1 :
            /\ todo = SubSeq(FileMessages(a, f), i + 1, Len(FileMessages(a, f)))
            /\ flash = Stage(before, a, f, i, 0)
      BY <3>1
    <3>3. a \in Nat /\ m = FileMessages(a, f)[i + 1] /\ i < Erases(a, f)
      BY <1>1, <1>4, <3>2, WritingFacts
    <3>4. Spi!EraseAt(Stage(before, a, f, i, 0), m[2]) = Stage(before, a, f, i, 1)
      BY <3>3, StageErases
    <3>5. flash' = Stage(before', a, f, i, Carried')
      BY <1>2, <2>2, <2>3, <3>2, <3>4
    <3> QED BY <1>2, <3>1, <3>2, <3>5 DEF Writing
  <2> QED BY <1>3, <2>4, <2>5
<1>5. CASE m[1] # Boot!ERASE_SECTOR
  <2>1. /\ m[1] = Boot!FLASH_WRITE /\ addr = m[2] /\ len = m[3] /\ page = Payload(m)
        /\ data_idx < len
    BY <1>2, <1>5 DEF Executing, Payload
  <2>2. data_idx \in Nat
    BY DEF IInv, TypeOK, Boot!TypeOK
  <2>3. /\ data_idx' = data_idx + 1
        /\ flash' = Spi!ProgramAt(flash, m[2] + data_idx, Payload(m)[data_idx + 1])
    BY <1>2, <1>5, <2>1 DEF Boot!Operate, Boot!Spi!Program, Boot!Spi!Modify, Boot!Spi!ProgramAt,
          Boot!Spi!Size, Spi!ProgramAt, Spi!Size
  <2>4. Carried = data_idx /\ Carried' = data_idx + 1
    BY <1>1, <1>2, <1>3, <2>1, <2>3 DEF Carried
  <2>5. ~Erasing
    <3>1. ASSUME NEW a, todo = << <<Boot!ERASE_SECTOR, a>> >> PROVE m[1] = Boot!ERASE_SECTOR
      BY <1>1, <3>1
    <3> QED BY <1>5, <3>1 DEF Erasing
  <2>6. PICK a \in WriteAddrs, f \in Files :
          /\ Fits(a, f)
          /\ \E i \in 0 .. Len(FileMessages(a, f)) - 1 :
               /\ todo = SubSeq(FileMessages(a, f), i + 1, Len(FileMessages(a, f)))
               /\ flash = Stage(before, a, f, i, data_idx)
    BY <2>4, <2>5 DEF Writing
  <2>7. PICK i \in 0 .. Len(FileMessages(a, f)) - 1 :
          /\ todo = SubSeq(FileMessages(a, f), i + 1, Len(FileMessages(a, f)))
          /\ flash = Stage(before, a, f, i, data_idx)
    BY <2>6
  <2>8. a \in Nat /\ m = FileMessages(a, f)[i + 1] /\ ~(i < Erases(a, f))
    BY <1>1, <1>5, <2>7, WritingFacts
  <2>9. Spi!ProgramAt(Stage(before, a, f, i, data_idx), m[2] + data_idx, Payload(m)[data_idx + 1])
          = Stage(before, a, f, i, data_idx + 1)
    <3>1. data_idx < m[3]
      BY <2>1
    <3> QED BY <2>2, <2>6, <2>8, <3>1, StagePrograms
  <2>10. flash' = Stage(before', a, f, i, Carried')
    BY <1>2, <2>3, <2>4, <2>7, <2>9
  <2>11. Writing'
    BY <1>2, <2>6, <2>7, <2>10 DEF Writing
  <2> QED BY <1>3, <2>11
<1> QED BY <1>4, <1>5

(* Elsewhere the loader does not change the flash. *)
LEMMA FlashKept ==
  ASSUME LoaderStep, pc # "op"
  PROVE  flash' = flash
<1>1. Boot!Loader
  BY DEF LoaderStep
<1> QED BY <1>1, LoaderCases DEF Boot!Poked, Boot!AutoBoot, Boot!Command, Boot!TakeAddress,
          Boot!TakeLength, Boot!TakeData, Boot!Wren, Boot!Spi!WriteEnable, Boot!Poll,
          Boot!ReadAndSend, Boot!Reply, Boot!Jump, Boot!flashVars

(* The steps of the loader. *)
LEMMA LoaderWhole ==
  ASSUME IInv, WholeInv, LoaderStep
  PROVE  WholeInv'
<1>1. UNCHANGED <<host, todo, before>> /\ Boot!Loader
  BY DEF LoaderStep, hostVars
<1>2. CASE pc = "op"
  <2>1. Ongoing /\ host = "wait"
    BY <1>2, OperatingFacts
  <2>2. Erasing \/ Writing
    BY <2>1 DEF WholeInv
  <2>3. Ongoing' /\ Completed' /\ (Erasing' \/ Writing')
    BY <1>2, <2>2, OperateTakesOn
  <2> QED BY <2>3 DEF WholeInv
<1>3. CASE pc # "op" /\ Ongoing
  <2>1. Ongoing' /\ Carried' = Carried /\ Completed'
    BY <1>3, LoaderCarries DEF WholeInv
  <2>2. Erasing \/ Writing
    BY <1>3 DEF WholeInv, Ongoing
  <2>3. flash' = flash
    BY <1>3, FlashKept
  <2>4. Erasing' \/ Writing'
    BY <1>1, <2>1, <2>2, <2>3, StillUnderWay
  <2> QED BY <2>1, <2>4 DEF WholeInv
<1>4. CASE pc # "op" /\ ~Ongoing
  <2>1. ~Ongoing'
    BY <1>1, <1>4, LoaderCases DEF Ongoing
  <2>2. flash' = flash
    BY <1>4, FlashKept
  <2> QED BY <1>1, <1>4, <2>1, <2>2 DEF WholeInv, Completed
<1> QED BY <1>2, <1>3, <1>4

(* At the start, no command is under way. *)
LEMMA InitWhole ==
  ASSUME Init
  PROVE  WholeInv
BY DEF Init, WholeInv, Completed, Ongoing

(* Nor is one when the tool is closed or waits for the user. *)
LEMMA RestWhole ==
  ASSUME host' \notin {"send", "wait"}
  PROVE  WholeInv'
BY DEF WholeInv, Completed, Ongoing

(* Neither the flash nor the tool moves on. *)
LEMMA StillWhole ==
  ASSUME WholeInv, UNCHANGED <<flash, before, todo, pc>>,
         host' = host \/ (host = "send" /\ host' = "wait"),
         Ongoing => Carried' = Carried /\ Completed'
  PROVE  WholeInv'
<1>1. CASE Ongoing
  <2>1. Erasing \/ Writing
    BY <1>1 DEF WholeInv, Ongoing
  <2>2. Erasing' \/ Writing'
    BY <1>1, <2>1, StillUnderWay
  <2>3. Ongoing'
    BY <1>1 DEF Ongoing
  <2> QED BY <1>1, <2>2, <2>3 DEF WholeInv
<1>2. CASE ~Ongoing
  <2>1. ~Ongoing' \/ host \notin {"send", "wait"}
    BY <1>2 DEF Ongoing
  <2>2. host \notin {"send", "wait"} => host' \notin {"send", "wait"}
    OBVIOUS
  <2>3. CASE host \notin {"send", "wait"}
    BY <2>2, <2>3, RestWhole
  <2>4. CASE host \in {"send", "wait"}
    BY <1>2, <2>1, <2>4 DEF WholeInv, Completed
  <2> QED BY <2>3, <2>4
<1> QED BY <1>1, <1>2

(* A session begins with a poke. *)
LEMMA OpenWhole ==
  ASSUME Open
  PROVE  WholeInv'
<1>1. host' = "send" /\ todo' = Poke /\ before' = flash /\ flash' = flash
  BY DEF Open, flashVars
<1>2. Head(Poke)[1] = Boot!POKE
  BY ZerosFacts
<1>3. ~Ongoing'
  BY <1>1, <1>2 DEF Ongoing
<1> QED BY <1>1, <1>3 DEF WholeInv, Completed

(* A command begins: nothing of it has been carried out. *)
LEMMA BeginWhole ==
  ASSUME TypeOK, NEW r \in Requests, Begin(r)
  PROVE  WholeInv'
<1>1. /\ host' = "send" /\ todo' = r /\ before' = flash /\ flash' = flash /\ Carried' = 0
      /\ before' = flash'
  BY DEF Begin, flashVars, Carried
<1>2. Completed'
  BY <1>1 DEF Completed
<1>3. SUFFICES ASSUME Ongoing' PROVE Erasing' \/ Writing'
  BY <1>1, <1>2 DEF WholeInv
<1>4. r[1][1] \in {Boot!ERASE_SECTOR, Boot!FLASH_WRITE}
  <2>1. Head(r) = r[1]
    BY RequestsLegal, HeadTailProperties
  <2> QED BY <1>1, <1>3, <2>1 DEF Ongoing
<1>5. CASE r \in {<< <<c>> >> : c \in Simple}
  BY <1>4, <1>5 DEF Simple
<1>6. CASE r \in {<< <<Boot!FLASH_READ, q[1], q[2]>> >> : q \in Reads}
  BY <1>4, <1>6
<1>7. CASE r \in {<< <<Boot!ERASE_SECTOR, a>> >> : a \in EraseAddrs}
  BY <1>1, <1>7 DEF Erasing
<1>8. CASE r \in {EraseMessages(w[1], w[2]) \o PageMessages(w[1], w[2]) :
                    w \in {w \in WriteAddrs \X Files : Fits(w[1], w[2])}}
  <2>1. PICK w \in WriteAddrs \X Files :
          Fits(w[1], w[2]) /\ r = EraseMessages(w[1], w[2]) \o PageMessages(w[1], w[2])
    BY <1>8
  <2> DEFINE a == w[1]
             f == w[2]
             F == FileMessages(a, f)
  <2>2. a \in WriteAddrs /\ a \in Nat /\ f \in Files /\ Fits(a, f) /\ r = F
    BY <2>1, XipAssumption DEF FileMessages
  <2> HIDE DEF a, f
  <2>3. F \in Seq(Seq(Nat)) /\ Len(F) = Erases(a, f) + LastPage(f) + 1 /\ LastPage(f) \in Nat
    BY <2>2, FileMessage
  <2>4. Erases(a, f) \in Nat
    BY <2>2, FileSectors
  <2> HIDE DEF F
  <2>5. 0 \in 0 .. Len(F) - 1
    BY <2>3, <2>4
  <2>6. SubSeq(F, 0 + 1, Len(F)) = F
    BY <2>3, SubSeqFull
  <2>7. Stage(before', a, f, 0, 0) = before'
    <3>1. before' \in [Spi!Address -> Contents]
      BY <1>1 DEF TypeOK, Boot!TypeOK, Boot!Spi!TypeOK, Boot!Spi!Address, Boot!Spi!Size,
                  Spi!Address, Spi!Size
    <3> QED BY <2>2, <3>1, StageBegins
  <2>8. flash' = Stage(before', a, f, 0, Carried')
    BY <1>1, <2>7
  <2>9. todo' = SubSeq(F, 0 + 1, Len(F))
    BY <1>1, <2>2, <2>6
  <2>10. \E i \in 0 .. Len(F) - 1 :
           todo' = SubSeq(F, i + 1, Len(F)) /\ flash' = Stage(before', a, f, i, Carried')
    BY <2>5, <2>8, <2>9
  <2> QED BY <2>2, <2>10 DEF Writing, F
<1> QED BY <1>5, <1>6, <1>7, <1>8 DEF Requests

(* A message is sent. *)
LEMMA SendWhole ==
  ASSUME IInv, WholeInv, Send
  PROVE  WholeInv'
<1>1. /\ host = "send" /\ host' = "wait" /\ UNCHANGED <<flash, before, todo, pc, rx>>
      /\ line' = line \o Head(todo)
  BY DEF Send, flashVars, uartVars, loaderVars
<1>2. ASSUME Ongoing PROVE Carried' = Carried /\ Completed'
  <2>1. PICK m : m = Head(todo)
    OBVIOUS
  <2>2. Message(m) /\ ((pc = "main" /\ Silent) \/ Lagging)
    BY <1>1, <1>2, <2>1, OngoingCases
  <2>3. m \in Seq(Nat) /\ m # <<>> /\ line \in Seq(Nat)
    BY <2>2 DEF Message, IInv, TypeOK
  <2>4. line' # <<>>
    BY <1>1, <2>1, <2>3, ConcatEqualIffEmpty, ConcatProperties, EmptySeq
  <2>5. ~Silent'
    BY <2>4 DEF Silent
  <2>6. Carried' = 0 /\ Carried = 0 /\ pc' # "reply"
    BY <1>1, <2>2, <2>5 DEF Carried, Lagging
  <2> QED BY <2>6 DEF Completed
<1> QED BY <1>1, <1>2, StillWhole

(* A byte arrives, leaves, or the flash gets done. *)
LEMMA LineWhole ==
  ASSUME IInv, WholeInv, Arrive \/ Transmit \/ FlashDone
  PROVE  WholeInv'
<1>1. UNCHANGED <<flash, before, todo, pc, data_idx, host>>
  BY DEF Arrive, Transmit, FlashDone, Spi!Done, flashVars, uartVars, loaderVars, hostVars
<1>2. pc = "main" => (Silent' <=> Silent)
  <2>1. CASE Arrive
    <3>1. SUFFICES ASSUME pc = "main" PROVE ~Silent /\ ~Silent'
      OBVIOUS
    <3>2. rx = <<>> /\ line # <<>> /\ rx' = IF Len(rx) < RxDepth THEN Append(rx, Head(line)) ELSE rx
      BY <2>1, <3>1 DEF Arrive, Boot!Waits, Boot!Listening, Boot!Receive
    <3>3. Len(rx) < RxDepth
      BY <3>2, XipAssumption
    <3>4. rx' # <<>>
      BY <3>2, <3>3
    <3> QED BY <3>2, <3>4 DEF Silent
  <2>2. CASE Transmit \/ FlashDone
    <3>1. rx' = rx /\ line' = line
      BY <2>2 DEF Transmit, FlashDone, uartVars
    <3> QED BY <3>1 DEF Silent
  <2> QED BY <2>1, <2>2
<1>3. Carried' = Carried
  <2>1. Units(Head(todo))' = Units(Head(todo))
    BY <1>1 DEF Units
  <2> QED BY <1>1, <1>2, <2>1 DEF Carried
<1>4. Completed'
  <2>1. Units(Head(todo))' = Units(Head(todo))
    BY <1>1 DEF Units
  <2>2. Ongoing' => Ongoing
    BY <1>1 DEF Ongoing
  <2> QED BY <1>1, <1>3, <2>1, <2>2 DEF WholeInv, Completed
<1> QED BY <1>1, <1>3, <1>4, StillWhole

(* When the tool takes a reply, the loader has carried out the message. *)
LEMMA ReplyCarried ==
  ASSUME IInv, Ongoing, TakeReply
  PROVE  Carried = Units(Head(todo))
<1>1. PICK m : m = Head(todo)
  OBVIOUS
<1>2. host = "wait" /\ Len(ser_in) >= Want(m) /\ TypeOK /\ pc # "app"
  BY <1>1 DEF TakeReply, Replied, IInv, Ongoing
<1>3. /\ Message(m) /\ m[1] # Boot!FLASH_READ /\ Sync(m)
      /\ \/ Clean /\ Arriving(m) /\ Carried = 0
         \/ Clean /\ Trailing(m) /\ Carried = 0
         \/ Clean /\ Executing(m)
         \/ Answered(m) /\ Carried = Units(m)
  BY <1>1, <1>2, OngoingCases
<1>4. ~Clean
  <2>1. Want(m) = 1 /\ Len(<<>>) = 0
    BY <1>2, <1>3, AnswerLength, EmptySeq
  <2> QED BY <1>2, <2>1 DEF Clean
<1> QED BY <1>1, <1>3, <1>4

(* No reply goes missing while such a command is under way. *)
LEMMA OngoingNotLate ==
  ASSUME ShortReads, ~SlowFlash, IInv, Ongoing, host = "wait", ~Replied
  PROVE  ~Late
<1> SUFFICES ASSUME Late PROVE FALSE
  OBVIOUS
<1>1. PICK m : m = Head(todo)
  OBVIOUS
<1>2. TypeOK /\ Quiet /\ pc # "poll" /\ pc # "app"
  BY LateFacts DEF IInv, Ongoing
<1>3. /\ Message(m) /\ m \in Seq(Nat) /\ m[1] \in Fields
      /\ \/ Clean /\ Arriving(m)
         \/ Clean /\ Trailing(m)
         \/ Clean /\ Executing(m)
         \/ Answered(m)
  BY <1>1, OngoingCases DEF Message
<1>4. /\ pc \in Boot!Listening /\ tx = <<>> /\ ~Lagging /\ ~Arriving(m)
  BY <1>2, <1>3, QuietFacts
<1>5. Answered(m)
  BY <1>3, <1>4 DEF Trailing, Executing, Boot!Listening
<1>6. ser_in = AnswerTo(m)
  <2>1. ser_in \in Seq(Nat) /\ ser_in \o tx = AnswerTo(m)
    BY <1>2, <1>5 DEF TypeOK, Answered
  <2> QED BY <1>4, <2>1, ConcatEmptySeq
<1>7. Len(AnswerTo(m)) = Want(m) /\ Want(m) \in Nat
  BY <1>2, <1>3, AnswerLength DEF Fields
<1> QED BY <1>1, <1>6, <1>7 DEF Replied

(* The next message of a command, or its end. *)
LEMMA GoOnWhole ==
  ASSUME IInv, WholeInv, GoOn, host = "wait", UNCHANGED <<flash, before, pc>>,
         Ongoing => Carried = Units(Head(todo))
  PROVE  /\ WholeInv'
         /\ host' = "prompt" =>
              \/ flash = before
              \/ \E a \in EraseAddrs : flash = Spi!EraseAt(before, a)
              \/ \E a \in WriteAddrs, f \in Files :
                   Fits(a, f) /\ flash = Written(before, a, f, Len(f))
<1> DEFINE Result ==
             \/ flash = before
             \/ \E a \in EraseAddrs : flash = Spi!EraseAt(before, a)
             \/ \E a \in WriteAddrs, f \in Files :
                  Fits(a, f) /\ flash = Written(before, a, f, Len(f))
<1>1. /\ todo' = Tail(todo) /\ host' = IF Tail(todo) = <<>> THEN "prompt" ELSE "send"
  BY DEF GoOn
<1>2. Completed' /\ Carried' = 0
  BY <1>1 DEF Completed, Carried
<1>3. CASE ~Ongoing
  <2>1. flash = before
    BY <1>3 DEF WholeInv
  <2>2. ~Ongoing'
    <3>1. TypeOK /\ Legal(todo) /\ todo # <<>>
      BY DEF IInv, Modes, TypeOK
    <3>2. SUFFICES ASSUME Tail(todo) # <<>>, pc # "app"
                   PROVE  FALSE
      BY <1>1 DEF Ongoing
    <3>3. Len(todo) > 1
      BY <3>1, <3>2, LegalTail
    <3>4. Head(todo) = todo[1] /\ 1 \in 1 .. Len(todo)
      BY <3>1, CurrentMessage
    <3>5. Head(todo)[1] \in {Boot!FLASH_WRITE, Boot!ERASE_SECTOR}
      BY <3>1, <3>3, <3>4 DEF Legal
    <3> QED BY <1>3, <3>2, <3>5 DEF Ongoing
  <2> QED BY <1>2, <2>1, <2>2 DEF WholeInv
<1>4. CASE Ongoing
  <2>1. Erasing \/ Writing
    BY <1>4 DEF WholeInv
  <2>2. ASSUME Erasing PROVE Tail(todo) = <<>> /\ Result
    <3>1. PICK a \in EraseAddrs :
            /\ todo = << <<Boot!ERASE_SECTOR, a>> >>
            /\ flash = IF Carried = 0 THEN before ELSE Spi!EraseAt(before, a)
      BY <2>2 DEF Erasing
    <3> QED BY <3>1
  <2>3. ASSUME Writing PROVE IF Tail(todo) = <<>> THEN Result ELSE Writing'
    <3>1. PICK a \in WriteAddrs, f \in Files :
            /\ Fits(a, f)
            /\ \E i \in 0 .. Len(FileMessages(a, f)) - 1 :
                 /\ todo = SubSeq(FileMessages(a, f), i + 1, Len(FileMessages(a, f)))
                 /\ flash = Stage(before, a, f, i, Carried)
      BY <2>3 DEF Writing
    <3>2. PICK i \in 0 .. Len(FileMessages(a, f)) - 1 :
            /\ todo = SubSeq(FileMessages(a, f), i + 1, Len(FileMessages(a, f)))
            /\ flash = Stage(before, a, f, i, Carried)
      BY <3>1
    <3> DEFINE F == FileMessages(a, f)
               m == F[i + 1]
    <3>3. a \in Nat /\ F \in Seq(Seq(Nat))
      BY XipAssumption, FileMessage
    <3>4. /\ i \in Nat /\ Len(F) \in Nat /\ i + 1 <= Len(F)
          /\ Head(todo) = m /\ Tail(todo) = SubSeq(F, (i + 1) + 1, Len(F))
          /\ Tail(todo) = <<>> <=> i + 1 = Len(F)
      BY <3>2, <3>3, Remaining
    <3>5. flash = Stage(before, a, f, i, Units(m))
      BY <1>4, <3>2, <3>4
    <3>6. CASE i + 1 = Len(F)
      <4>1. flash = Written(before, a, f, Len(f))
        BY <3>3, <3>5, <3>6, StageGoesOn
      <4> QED BY <3>1, <3>4, <3>6, <4>1
    <3>7. CASE i + 1 # Len(F)
      <4>1. i + 1 < Len(F) /\ i + 1 \in 0 .. Len(F) - 1
        <5> HIDE DEF F
        <5> QED BY <3>4, <3>7
      <4>2. flash = Stage(before, a, f, i + 1, 0)
        BY <3>3, <3>5, <4>1, StageGoesOn
      <4>3. flash' = Stage(before', a, f, i + 1, Carried')
        BY <1>2, <4>2
      <4> DEFINE k == i + 1
      <4>4. k \in 0 .. Len(F) - 1 /\ todo' = SubSeq(F, k + 1, Len(F))
            /\ flash' = Stage(before', a, f, k, Carried')
        BY <1>1, <3>4, <4>1, <4>3
      <4> HIDE DEF k
      <4>5. Writing'
        BY <3>1, <4>4 DEF Writing
      <4> QED BY <3>4, <3>7, <4>5
    <3> QED BY <3>6, <3>7
  <2> HIDE DEF Result
  <2>4. host' = "prompt" => Result
    BY <1>1, <2>1, <2>2, <2>3
  <2>5. WholeInv'
    <3>1. CASE Tail(todo) = <<>>
      BY <1>1, <3>1, RestWhole
    <3>2. CASE Tail(todo) # <<>>
      <4>1. Writing'
        BY <2>1, <2>2, <2>3, <3>2
      <4>2. Ongoing'
        <5>1. TypeOK /\ Legal(todo) /\ todo # <<>> /\ Len(todo) \in Nat
          BY LenProperties DEF IInv, Modes, TypeOK
        <5>2. Len(todo) > 1
          BY <3>2, <5>1, LegalTail
        <5>3. Head(Tail(todo)) = todo[2] /\ 2 \in 1 .. Len(todo)
          <6>1. /\ Tail(todo) \in Seq(Seq(Nat)) /\ Len(Tail(todo)) = Len(todo) - 1
                /\ \A x \in 1 .. Len(Tail(todo)) : Tail(todo)[x] = todo[x + 1]
            BY <5>1, HeadTailProperties DEF TypeOK
          <6>2. 1 \in 1 .. Len(Tail(todo)) /\ 1 + 1 = 2
            BY <5>1, <5>2, <6>1
          <6>3. Head(Tail(todo)) = Tail(todo)[1]
            BY <3>2, <6>1, HeadTailProperties
          <6> QED BY <5>1, <5>2, <6>1, <6>2, <6>3
        <5>4. Head(todo')[1] \in {Boot!FLASH_WRITE, Boot!ERASE_SECTOR}
          BY <1>1, <5>1, <5>2, <5>3 DEF Legal
        <5> QED BY <1>1, <1>4, <3>2, <5>4 DEF Ongoing
      <4> QED BY <1>2, <4>1, <4>2 DEF WholeInv
    <3> QED BY <3>1, <3>2
  <2> QED BY <2>4, <2>5 DEF Result
<1> QED BY <1>3, <1>4

(* The flash as it is seen between two commands. *)
Image == IF host \in {"send", "wait"} THEN before ELSE flash

(* The end of a command, with or without a reply. *)
LEMMA EndWhole ==
  ASSUME ShortReads, ~SlowFlash, IInv, WholeInv, TakeReply \/ Timeout
  PROVE  WholeInv' /\ [Service!Next]_Image
<1>1. /\ host = "wait" /\ UNCHANGED <<flash, before, pc>>
      /\ host' \in {"closed", "prompt", "send"}
  BY DEF TakeReply, Timeout, Replied, GoOn, flashVars, loaderVars
<1>2. Ongoing => Carried = Units(Head(todo)) /\ TakeReply
  <2>1. Ongoing /\ TakeReply => Carried = Units(Head(todo))
    BY ReplyCarried
  <2>2. Timeout => ~Ongoing
    BY OngoingNotLate DEF Timeout
  <2> QED BY <2>1, <2>2
<1>3. CASE GoOn
  <2>1. /\ WholeInv'
        /\ host' = "prompt" =>
             \/ flash = before
             \/ \E a \in EraseAddrs : flash = Spi!EraseAt(before, a)
             \/ \E a \in WriteAddrs, f \in Files :
                  Fits(a, f) /\ flash = Written(before, a, f, Len(f))
    BY <1>1, <1>2, <1>3, GoOnWhole
  <2>2. CASE host' = "send"
    <3>1. Image' = Image
      BY <1>1, <2>2 DEF Image
    <3> QED BY <2>1, <3>1
  <2>3. CASE host' = "prompt"
    <3>1. Image = before /\ Image' = flash
      BY <1>1, <2>3 DEF Image
    <3>2. CASE flash = before
      BY <2>1, <3>1, <3>2
    <3>3. ASSUME NEW a \in EraseAddrs, flash = Spi!EraseAt(before, a) PROVE Service!Next
      <4>1. Service!EraseSector(a)
        BY <3>1, <3>3, AddressSector DEF Service!EraseSector, Spi!EraseAt, Image, Service!Address,
              Service!SectorOf, Spi!Address, Spi!SectorOf, Spi!Size
      <4> QED BY <4>1 DEF Service!Next
    <3>4. ASSUME NEW a \in WriteAddrs, NEW f \in Files, Fits(a, f),
                 flash = Written(before, a, f, Len(f))
          PROVE  Service!Next
      <4>1. Service!Write(a, f)
        BY <3>1, <3>4 DEF Service!Write, Written, Image, Service!Address, Spi!Address, Spi!Size
      <4>2. Service!Fits(a, f)
        BY <3>4 DEF Service!Fits, Fits, Spi!Size
      <4> QED BY <4>1, <4>2 DEF Service!Next
    <3> QED BY <2>1, <2>3, <3>2, <3>3, <3>4
  <2> QED BY <1>3, <2>2, <2>3 DEF GoOn
<1>4. CASE ~GoOn
  <2>1. Timeout /\ host' = "closed" /\ ~Ongoing
    BY <1>2, <1>4 DEF TakeReply, Timeout
  <2>2. flash = before
    BY <1>1, <2>1 DEF WholeInv
  <2>3. Image' = Image
    BY <1>1, <2>1, <2>2 DEF Image
  <2> QED BY <2>1, <2>3, RestWhole
<1> QED BY <1>3, <1>4

(* Every other step leaves that image alone. *)
LEMMA ImageKept ==
  ASSUME IInv, Open \/ (\E r \in Requests : Begin(r)) \/ Send \/ Exit \/ Arrive \/ Transmit
                 \/ LoaderStep \/ FlashDone \/ ResetBoard \/ UNCHANGED vars
  PROVE  Image' = Image
<1>1. CASE Open
  BY <1>1 DEF Open, Image, flashVars
<1>2. ASSUME NEW r \in Requests, Begin(r) PROVE Image' = Image
  BY <1>2 DEF Begin, Image, flashVars
<1>3. CASE Send
  BY <1>3 DEF Send, Image
<1>4. CASE Exit
  BY <1>4 DEF Exit, Image, flashVars
<1>5. CASE Arrive \/ Transmit \/ FlashDone \/ ResetBoard \/ UNCHANGED vars
  <2>1. flash' = flash
    BY <1>5 DEF Arrive, Transmit, FlashDone, ResetBoard, Spi!Done, flashVars, vars
  <2>2. host' = host /\ (host \in {"send", "wait"} => before' = before)
    BY <1>5 DEF Arrive, Transmit, FlashDone, ResetBoard, hostVars, vars
  <2> QED BY <2>1, <2>2 DEF Image
<1>6. CASE LoaderStep
  <2>1. host' = host /\ before' = before
    BY <1>6 DEF LoaderStep, hostVars
  <2>2. pc = "op" => host = "wait"
    BY OperatingFacts
  <2>3. pc # "op" => flash' = flash
    BY <1>6, FlashKept
  <2> QED BY <2>1, <2>2, <2>3 DEF Image
<1> QED BY <1>1, <1>2, <1>3, <1>4, <1>5, <1>6

(* Every step keeps the invariant, and is one of the service or changes    *)
(* nothing that the service shows.                                         *)
LEMMA NextWhole ==
  ASSUME ShortReads, ~SlowFlash, IInv, WholeInv, [Next]_vars
  PROVE  WholeInv' /\ [Service!Next]_Image
<1>1. CASE TakeReply \/ Timeout
  BY <1>1, EndWhole
<1>2. CASE Open \/ (\E r \in Requests : Begin(r)) \/ Send \/ Exit \/ Arrive \/ Transmit
           \/ LoaderStep \/ FlashDone \/ ResetBoard \/ UNCHANGED vars
  <2>1. Image' = Image
    BY <1>2, ImageKept
  <2>2. WholeInv'
    <3>1. CASE Open
      BY <3>1, OpenWhole
    <3>2. ASSUME NEW r \in Requests, Begin(r) PROVE WholeInv'
      BY <3>2, BeginWhole DEF IInv
    <3>3. CASE Send
      BY <3>3, SendWhole
    <3>4. CASE Exit \/ ResetBoard
      <4>1. host' \notin {"send", "wait"}
        BY <3>4 DEF Exit, ResetBoard
      <4> QED BY <4>1, RestWhole
    <3>5. CASE Arrive \/ Transmit \/ FlashDone
      BY <3>5, LineWhole
    <3>6. CASE LoaderStep
      BY <3>6, LoaderWhole
    <3>7. CASE UNCHANGED vars
      <4>1. UNCHANGED <<flash, before, todo, pc, host, rx, line, data_idx>>
        BY <3>7 DEF vars, flashVars, uartVars, loaderVars, hostVars
      <4>2. Carried' = Carried
        BY <4>1 DEF Carried, Silent, Units
      <4>3. Completed'
        BY <4>1, <4>2 DEF WholeInv, Completed, Ongoing, Units
      <4> QED BY <4>1, <4>2, <4>3, StillWhole
    <3> QED BY <1>2, <3>1, <3>2, <3>3, <3>4, <3>5, <3>6, <3>7
  <2> QED BY <2>1, <2>2
<1> QED BY <1>1, <1>2 DEF Next

(* Seen between the commands of the tool, a file is written as a whole or  *)
(* not at all, whatever its length and its place (neorv_sh.py:170-220 with *)
(* bootloader_xip.c:338-372 and 405-447), as long as no read before it was *)
(* given up.                                                               *)
THEOREM FilesAreWrittenWhole ==
  ASSUME ~UseAfterWindow, ShortReads, ~SlowFlash
  PROVE  Spec => WritesAreWhole
<1>1. Init => WholeInv /\ Service!Init
  <2>1. Init => Service!Init
    BY DEF Init, Service!Init
  <2> QED BY <2>1, InitWhole
<1>2. IInv /\ WholeInv /\ [Next]_vars =>
        WholeInv' /\ [Service!Next]_(IF host \in {"send", "wait"} THEN before ELSE flash)
  BY NextWhole DEF Image
<1> QED BY <1>1, <1>2, Invariance, PTL DEF Spec, WritesAreWhole, Service!Spec
=============================================================================
