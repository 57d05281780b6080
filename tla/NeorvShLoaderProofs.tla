------------------------- MODULE NeorvShLoaderProofs --------------------------
(***************************************************************************)
(* The invariant of the command line tool and the boot loader, and its     *)
(* proof for the steps of the loader.                                      *)
(*                                                                         *)
(* The tool and the loader are in one of a few modes. In step (Sync), the  *)
(* message that the tool waits for is on its way to the loader (Arriving), *)
(* carried out (Executing, Reading) or answered (Answered). A read of no   *)
(* bytes is over for the tool before the loader has taken it (Draining,    *)
(* Trailing). In the boot window only pokes and their zeros are about      *)
(* (Poking), and after the start of the program nobody answers (Away). The *)
(* flash is busy only while the loader polls it (Latch).                   *)
(*                                                                         *)
(* The last two sections are for the refinement of FlashService: facts on  *)
(* quotients and remainders, and what the flash holds when so many         *)
(* messages of a file are carried out, and so much of the next one         *)
(* (Stage).                                                                *)
(***************************************************************************)
EXTENDS NeorvSh, SequenceTheorems, TLAPS

USE DEF Boot!POKE, Boot!EXECUTE, Boot!FLASH_WRITE, Boot!FLASH_READ, Boot!RESET,
        Boot!ERASE_SECTOR, Boot!STATUS_BYTE, DEMO

(* A message of the tool. *)
Message(m) ==
  /\ m \in Seq(Nat) /\ m # <<>>
  /\ \/ Len(m) = 1 /\ m[1] \in Simple
     \/ \E r \in Reads : m = <<Boot!FLASH_READ, r[1], r[2]>>
     \/ Len(m) = 2 /\ m[1] = Boot!ERASE_SECTOR
     \/ /\ Len(m) >= 3 /\ m[1] = Boot!FLASH_WRITE /\ Len(m) = m[3] + 3 /\ m[3] <= PageWords
        /\ \A i \in 4 .. Len(m) : m[i] \in Contents

(* The messages of a command.  Only writing a file takes several. *)
Legal(t) ==
  /\ \A i \in 1 .. Len(t) : Message(t[i])
  /\ Len(t) > 1 => \A i \in 1 .. Len(t) : t[i][1] \in {Boot!FLASH_WRITE, Boot!ERASE_SECTOR}

Clean == tx = <<>> /\ ser_in = <<>>
Silent == rx = <<>> /\ line = <<>>

Fields == {Boot!FLASH_WRITE, Boot!FLASH_READ, Boot!ERASE_SECTOR}

(* The loader has taken the first k bytes of m. *)
Parsed(m, k) ==
  /\ k = 0 => pc = "main"
  /\ k >= 1 => console_cmd = m[1] /\ m[1] \in Fields
  /\ k = 1 => pc = "addr"
  /\ k >= 2 => addr = m[2] /\ m[1] # Boot!ERASE_SECTOR
  /\ k = 2 => pc = "len"
  /\ k >= 3 => /\ pc = "data" /\ len = m[3] /\ m[1] = Boot!FLASH_WRITE
               /\ page = SubSeq(m, 4, k) /\ data_idx = 0

(* What is left of m after j bytes. *)
Rest(m, j) == SubSeq(m, j + 1, Len(m))

(* The loader has taken k bytes of m and received j. *)
At(m, k, j) ==
  /\ Parsed(m, k)
  /\ \/ j = k /\ rx = <<>>
     \/ j = k + 1 /\ rx = <<m[j]>>
  /\ line = Rest(m, j)

Arriving(m) == \E k \in 0 .. Len(m) - 1, j \in 0 .. Len(m) : At(m, k, j)

(* The loader has taken the whole of m. *)
Executing(m) ==
  /\ Silent
  /\ console_cmd = m[1]
  /\ \/ pc = "reply" /\ m[1] # Boot!FLASH_READ /\ m[1] # DEMO
     \/ pc \in {"wren", "op", "poll"} /\ m[1] = Boot!ERASE_SECTOR /\ addr = m[2]
     \/ /\ pc \in {"wren", "op", "poll"} /\ m[1] = Boot!FLASH_WRITE
        /\ addr = m[2] /\ len = m[3] /\ page = SubSeq(m, 4, Len(m))
        /\ pc \in {"wren", "op"} => data_idx < len

Reading(m) ==
  /\ Silent
  /\ pc = "read" /\ m[1] = Boot!FLASH_READ
  /\ console_cmd = m[1] /\ addr = m[2] /\ len = m[3]
  /\ data_idx < len
  /\ ser_in \o tx = SubSeq(AnswerTo(m), 1, data_idx)

Answered(m) ==
  /\ Silent
  /\ m[1] = Boot!EXECUTE => pc = "app"
  /\ m[1] = Boot!RESET => pc = "reset" \/ (pc \in {"boot", "app"} /\ tx = <<>>)
  /\ m[1] \notin {Boot!EXECUTE, Boot!RESET} => pc = "main"
  /\ ser_in \o tx = AnswerTo(m)

(* The tool does not wait for the answer to a read of no bytes: it goes on *)
(* while the loader still has to take the last byte.                       *)
Lagging == pc = "len" /\ console_cmd = Boot!FLASH_READ /\ rx = <<0>>

Draining ==
  \E r \in Reads :
    /\ r[2] = 0
    /\ \/ Arriving(<<Boot!FLASH_READ, r[1], r[2]>>)
       \/ Lagging /\ line = <<Boot!FLASH_READ, r[1], r[2]>>

Trailing(m) == Lagging /\ line = (IF host = "wait" THEN m ELSE <<>>)

(* The loader works on message m. *)
Busy(m) ==
  \/ Clean /\ (Arriving(m) \/ Executing(m))
  \/ Reading(m)
  \/ Answered(m)

(* The tool and the loader agree on the message m to be answered next. *)
Sync(m) ==
  \/ Clean /\ pc = "app"
  \/ Clean /\ pc = "main" /\ Silent /\ host # "wait"
  \/ Clean /\ Draining /\ host = "prompt"
  \/ Clean /\ Trailing(m) /\ host \in {"send", "wait"}
  \/ Busy(m) /\ host = "wait"

Zeros == Seq({Boot!POKE})

(* In the boot window: pokes on their way and zeros on their way back. *)
Poking ==
  /\ rx \in Zeros /\ line \in Zeros /\ tx \in Zeros
  /\ pc \in {"boot", "main", "reply", "reset"}
  /\ pc = "reply" => console_cmd = Boot!POKE
  /\ pc = "boot" => tx = <<>>

Away == pc = "app" /\ tx = <<>>

Closed == Poking \/ Away \/ (Draining /\ tx = <<>>)

InWindow ==
  /\ window /\ todo \in {<<>>, Poke} /\ ser_in \in Zeros
  /\ Poking \/ Away

Resetting == window /\ todo = << <<Boot!RESET>> >>
Working == ~window /\ (todo # <<>> => Head(todo) # <<Boot!RESET>>)

(* The message the tool works on. *)
Current == IF todo = <<>> THEN <<>> ELSE Head(todo)

InSync ==
  /\ Resetting \/ Working
  /\ \E m \in {Current} : Sync(m)

Modes ==
  IF host = "closed" THEN Closed ELSE Legal(todo) /\ (InWindow \/ InSync)

(* The flash is busy only while the loader polls it, and the write-enable  *)
(* latch is set only for an operation.                                     *)
Latch ==
  /\ wip => wel /\ pc = "poll"
  /\ wel => wip \/ pc = "op"
  /\ pc = "op" => wel

IInv == TypeOK /\ Latch /\ Modes

-----------------------------------------------------------------------------
(* Sequences. *)

(* What is left of a message: nothing after its last byte, else the next   *)
(* byte comes first.                                                       *)
LEMMA RestFacts ==
  ASSUME NEW m \in Seq(Nat), NEW j \in 0 .. Len(m)
  PROVE  /\ Rest(m, j) \in Seq(Nat)
         /\ Rest(m, j) = <<>> <=> j = Len(m)
         /\ j < Len(m) => Head(Rest(m, j)) = m[j + 1] /\ Tail(Rest(m, j)) = Rest(m, j + 1)
         /\ Rest(m, 0) = m
<1> DEFINE s == SubSeq(m, j + 1, Len(m))
<1>1. s \in Seq(Nat) /\ Len(s) = IF j + 1 <= Len(m) THEN Len(m) - j ELSE 0
  BY SubSeqProperties
<1>2. s = <<>> <=> j = Len(m)
  <2>1. Len(m) \in Nat /\ Len(<<>>) = 0
    BY LenProperties, EmptySeq
  <2>2. j = Len(m) => s = <<>>
    BY <2>1, SubSeqEmpty
  <2>3. j < Len(m) => Len(s) # 0
    BY <2>1, <1>1
  <2> HIDE DEF s
  <2>4. s = <<>> => ~(j < Len(m))
    BY <2>1, <2>3
  <2>5. ~(j < Len(m)) => j = Len(m)
    BY <2>1
  <2> QED BY <2>2, <2>4, <2>5
<1>3. j < Len(m) => Head(s) = m[j + 1] /\ Tail(s) = SubSeq(m, j + 1 + 1, Len(m))
  BY HeadTailOfSubSeq
<1>4. SubSeq(m, 0 + 1, Len(m)) = m
  BY SubSeqFull
<1> QED BY <1>1, <1>2, <1>3, <1>4 DEF Rest

(* Zeros. *)
LEMMA ZerosFacts ==
  /\ <<>> \in Zeros
  /\ Poke \in Seq(Seq(Nat)) /\ Poke # <<>> /\ Len(Poke) = 1
  /\ Poke[1] = <<Boot!POKE>> /\ Head(Poke) = <<Boot!POKE>> /\ Tail(Poke) = <<>>
  /\ <<Boot!POKE>> \in Zeros
  /\ \A s \in Zeros : /\ s \in Seq(Nat)
                      /\ Append(s, Boot!POKE) \in Zeros
                      /\ s \o <<Boot!POKE>> \in Zeros
                      /\ s # <<>> => Head(s) = Boot!POKE /\ Tail(s) \in Zeros
BY DEF Zeros, Poke

(* A byte on its way to the tool keeps its place among the others. *)
LEMMA PassedOn ==
  ASSUME NEW s \in Seq(Nat), NEW t \in Seq(Nat), t # <<>>
  PROVE  Append(s, Head(t)) \o Tail(t) = s \o t
<1>1. Head(t) \in Nat /\ Tail(t) \in Seq(Nat) /\ <<Head(t)>> \in Seq(Nat)
  BY HeadTailProperties
<1>2. Head(t) = t[1] /\ 1 \in 1 .. Len(t) /\ Len(t) \in 1 .. Len(t)
  BY EmptySeq, LenProperties
<1>3. t = <<Head(t)>> \o Tail(t)
  <2>1. SubSeq(t, 1, Len(t)) = <<t[1]>> \o SubSeq(t, 1 + 1, Len(t))
    BY <1>2, SubSeqRecursiveFirst
  <2>2. SubSeq(t, 1, Len(t)) = t
    BY SubSeqFull
  <2>3. SubSeq(t, 1 + 1, Len(t)) = Tail(t)
    BY TailIsSubSeq
  <2> QED BY <1>2, <2>1, <2>2, <2>3
<1>4. Append(s, Head(t)) = s \o <<Head(t)>>
  BY <1>1, AppendIsConcat
<1>5. (s \o <<Head(t)>>) \o Tail(t) = s \o (<<Head(t)>> \o Tail(t))
  BY <1>1, ConcatAssociative
<1> QED BY <1>3, <1>4, <1>5

-----------------------------------------------------------------------------
(* The messages of the commands. *)

(* The length of an answer is what the tool waits for; only a command      *)
(* which the loader does not know has none.                                *)
LEMMA AnswerLength ==
  ASSUME TypeOK, NEW m, Message(m)
  PROVE  /\ Len(m) \in Nat \ {0} /\ m[1] \in Nat /\ Head(m) = m[1] /\ Want(m) \in Nat
         /\ m[1] \in {Boot!POKE, Boot!EXECUTE, Boot!FLASH_WRITE, Boot!FLASH_READ,
                      Boot!RESET, Boot!ERASE_SECTOR, Boot!STATUS_BYTE, DEMO}
         /\ AnswerTo(m) \in Seq(Nat)
         /\ Len(AnswerTo(m)) = IF m[1] = DEMO THEN 0 ELSE Want(m)
         /\ m[1] # Boot!FLASH_READ => Want(m) = 1
         /\ m[1] = Boot!FLASH_READ =>
              \E r \in Reads : /\ m = <<Boot!FLASH_READ, r[1], r[2]>>
                               /\ r[2] = m[3] /\ Want(m) = r[2] /\ r[1] \in Nat /\ r[2] \in Nat
<1>1. Len(m) \in Nat \ {0} /\ Head(m) = m[1] /\ m[1] \in Nat /\ m \in Seq(Nat)
  BY EmptySeq, ElementOfSeq, LenProperties DEF Message
<1>2. m[1] \in {Boot!POKE, Boot!EXECUTE, Boot!FLASH_WRITE, Boot!FLASH_READ,
                Boot!RESET, Boot!ERASE_SECTOR, Boot!STATUS_BYTE, DEMO}
  BY DEF Message, Simple
<1>3. CASE m[1] = Boot!FLASH_READ
  <2>1. PICK r \in Reads : m = <<Boot!FLASH_READ, r[1], r[2]>>
    BY <1>3 DEF Message, Simple
  <2>2. r[1] \in Nat /\ r[2] \in Nat /\ m[3] = r[2] /\ m[2] = r[1]
    BY <2>1, XipAssumption
  <2>3. Want(m) = r[2]
    BY <1>1, <1>3, <2>2 DEF Want
  <2>4. AnswerTo(m) = [i \in 1 .. r[2] |-> flash[(r[1] + i - 1) % Spi!Size]]
    BY <1>1, <1>3, <2>2 DEF AnswerTo
  <2>5. ASSUME NEW i \in 1 .. r[2]
        PROVE  flash[(r[1] + i - 1) % Spi!Size] \in Nat
    <3>1. Spi!Size \in Nat \ {0}
      BY XipAssumption DEF Spi!Size
    <3>2. r[1] + i - 1 \in Nat
      BY <2>2
    <3>3. (r[1] + i - 1) % Spi!Size \in 0 .. Spi!Size - 1
      BY <3>1, <3>2
    <3>4. flash \in [0 .. Spi!Size - 1 -> Contents]
      BY DEF TypeOK, Boot!TypeOK, Boot!Spi!TypeOK, Boot!Spi!Address, Boot!Spi!Size, Spi!Size
    <3> QED BY <3>3, <3>4, XipAssumption
  <2>6. AnswerTo(m) \in [1 .. r[2] -> Nat]
    BY <2>4, <2>5
  <2>7. AnswerTo(m) \in Seq(Nat) /\ Len(AnswerTo(m)) = r[2]
    BY <2>2, <2>6
  <2> QED BY <1>1, <1>2, <1>3, <2>1, <2>2, <2>3, <2>7
<1>4. CASE m[1] # Boot!FLASH_READ
  <2>1. Want(m) = 1
    BY <1>1, <1>4 DEF Want
  <2>2. CASE m[1] = DEMO
    BY <1>1, <2>1, <2>2 DEF AnswerTo
  <2>3. CASE m[1] \in {Boot!FLASH_WRITE, Boot!STATUS_BYTE}
    BY <1>1, <2>1, <2>3 DEF AnswerTo
  <2>4. CASE m[1] \in {Boot!POKE, Boot!EXECUTE, Boot!RESET, Boot!ERASE_SECTOR}
    BY <1>1, <2>1, <2>4 DEF AnswerTo
  <2> QED BY <1>1, <1>2, <1>4, <2>1, <2>2, <2>3, <2>4
<1> QED BY <1>3, <1>4

(* Quotients. *)
LEMMA QuotientIsNatural ==
  ASSUME NEW a \in Nat, NEW b \in Nat \ {0}
  PROVE  a \div b \in Nat
OBVIOUS

(* The words of a file travel as they are. *)
LEMMA PageMessageLegal ==
  ASSUME NEW f \in Files, NEW a \in Nat, NEW i \in Nat, i >= 1,
         NEW s \in Nat,
         NEW e \in Nat, e <= Len(f), e <= s + PageWords
  PROVE  LET data == SubSeq(f, s + 1, e)
             m == <<Boot!FLASH_WRITE, a + s, Len(data)>> \o data
         IN  Message(m) /\ m[1] = Boot!FLASH_WRITE
<1> DEFINE data == SubSeq(f, s + 1, e)
           head == <<Boot!FLASH_WRITE, a + s, Len(data)>>
           m == head \o data
<1>1. f \in Seq(Contents)
  BY XipAssumption
<1>2. \A k \in s + 1 .. e : f[k] \in Contents
  BY <1>1, ElementOfSeq, LenProperties
<1>3. data \in Seq(Contents)
  BY <1>2, SubSeqProperties
<1>4. data \in Seq(Nat)
  BY <1>3, XipAssumption, SeqMonotonic
<1>5. /\ Len(data) \in Nat /\ Len(data) <= PageWords
      /\ \A k \in 1 .. Len(data) : data[k] \in Contents
  <2>1. Len(data) = IF s + 1 <= e THEN e - (s + 1) + 1 ELSE 0
    BY <1>2, SubSeqProperties
  <2>2. Len(data) <= PageWords
    <3> HIDE DEF data
    <3> QED BY <2>1, XipAssumption
  <2> QED BY <1>3, <2>2, ElementOfSeq, LenProperties
<1> HIDE DEF data
<1>6. /\ head \in Seq(Nat) /\ Len(head) = 3
      /\ head[1] = Boot!FLASH_WRITE /\ head[3] = Len(data)
  BY <1>5
<1> HIDE DEF head
<1>7. /\ m \in Seq(Nat) /\ Len(m) = 3 + Len(data)
      /\ \A k \in 1 .. 3 + Len(data) : m[k] = IF k <= 3 THEN head[k] ELSE data[k - 3]
  <2>1. /\ m \in Seq(Nat) /\ Len(m) = Len(head) + Len(data)
        /\ \A k \in 1 .. Len(head) + Len(data) :
             m[k] = IF k <= Len(head) THEN head[k] ELSE data[k - Len(head)]
    BY <1>4, <1>6, ConcatProperties
  <2> QED BY <2>1, <1>6
<1> HIDE DEF m
<1>8. m[1] = Boot!FLASH_WRITE /\ m[3] = Len(data)
  BY <1>5, <1>6, <1>7
<1>9. ASSUME NEW k \in 4 .. Len(m) PROVE m[k] \in Contents
  <2>1. k \in 1 .. 3 + Len(data) /\ ~(k <= 3) /\ k - 3 \in 1 .. Len(data)
    BY <1>5, <1>7
  <2> QED BY <2>1, <1>5, <1>7
<1>10. m # <<>> /\ Len(m) >= 3
  BY <1>5, <1>7
<1>11. Message(m) /\ m[1] = Boot!FLASH_WRITE
  BY <1>5, <1>7, <1>8, <1>9, <1>10 DEF Message
<1> QED BY <1>11 DEF m, head, data

(* The messages of writing a file. *)
LEMMA WriteLegal ==
  ASSUME NEW a \in Nat, NEW f \in Files
  PROVE  LET r == EraseMessages(a, f) \o PageMessages(a, f)
         IN  /\ r \in Seq(Seq(Nat)) /\ r # <<>> /\ Legal(r)
             /\ r[1] # <<Boot!RESET>>
<1> DEFINE n == StopSector(a, f) + 1 - a \div SectorWords
           E == EraseMessages(a, f)
           k == Len(f) \div PageWords + 1
           P == PageMessages(a, f)
           r == E \o P
<1>1. Len(f) \in Nat
  BY XipAssumption, LenProperties
<1>2. n \in Int /\ a \div SectorWords \in Int
  BY <1>1, XipAssumption DEF StopSector
<1>3. k \in Nat /\ k >= 1
  <2>1. Len(f) \div PageWords \in Nat
    BY <1>1, XipAssumption, QuotientIsNatural
  <2> QED BY <2>1
<1>4. /\ E \in Seq(Seq(Nat))
      /\ \A i \in 1 .. Len(E) : Message(E[i]) /\ E[i][1] = Boot!ERASE_SECTOR
  <2> DEFINE e(i) == <<Boot!ERASE_SECTOR, (a \div SectorWords + i - 1) * SectorWords>>
  <2>1. E = [i \in 1 .. n |-> e(i)]
    BY DEF EraseMessages
  <2>2. ASSUME NEW i \in 1 .. n
        PROVE  e(i) \in Seq(Nat) /\ Message(e(i)) /\ e(i)[1] = Boot!ERASE_SECTOR
    <3>1. (a \div SectorWords + i - 1) * SectorWords \in Nat
      <4>1. a \div SectorWords \in Nat
        BY XipAssumption, QuotientIsNatural
      <4>2. a \div SectorWords + i - 1 \in Nat
        BY <4>1, <1>2
      <4> QED BY <4>2, XipAssumption
    <3>2. e(i) \in Seq(Nat) /\ Len(e(i)) = 2 /\ e(i) # <<>> /\ e(i)[1] = Boot!ERASE_SECTOR
      BY <3>1
    <3> QED BY <3>2 DEF Message
  <2> HIDE DEF e, n, E
  <2>3. CASE n >= 0
    <3>1. n \in Nat
      BY <2>3, <1>2
    <3>2. E \in [1 .. n -> Seq(Nat)]
      BY <2>1, <2>2
    <3>3. E \in Seq(Seq(Nat)) /\ Len(E) = n
      BY <3>1, <3>2
    <3> QED BY <3>3, <2>1, <2>2
  <2>4. CASE n < 0
    <3>1. 1 .. n = {}
      BY <2>4, <1>2
    <3>2. E = <<>>
      BY <3>1, <2>1
    <3> QED BY <3>2
  <2> QED BY <2>3, <2>4, <1>2
<1>5. /\ P \in Seq(Seq(Nat)) /\ Len(P) = k
      /\ \A i \in 1 .. Len(P) : Message(P[i]) /\ P[i][1] = Boot!FLASH_WRITE
  <2> DEFINE s(i) == (i - 1) * PageWords
             z(i) == IF s(i) + PageWords <= Len(f) THEN s(i) + PageWords ELSE Len(f)
             d(i) == SubSeq(f, s(i) + 1, z(i))
             p(i) == <<Boot!FLASH_WRITE, a + s(i), Len(d(i))>> \o d(i)
  <2>1. P = [i \in 1 .. k |-> p(i)]
    BY DEF PageMessages
  <2>2. ASSUME NEW i \in 1 .. k PROVE Message(p(i)) /\ p(i)[1] = Boot!FLASH_WRITE
    <3>1. i \in Nat /\ i >= 1
      BY <1>3
    <3>2. s(i) \in Nat
      <4>1. i - 1 \in Nat
        BY <3>1
      <4> QED BY <4>1, XipAssumption
    <3>3. z(i) \in Nat /\ z(i) <= Len(f) /\ z(i) <= s(i) + PageWords
      <4> HIDE DEF s
      <4> QED BY <3>2, <1>1, XipAssumption
    <3> HIDE DEF s, z
    <3> QED BY <3>1, <3>2, <3>3, PageMessageLegal
  <2> HIDE DEF p, k, P
  <2>3. P \in [1 .. k -> Seq(Nat)]
    BY <2>1, <2>2 DEF Message
  <2>4. P \in Seq(Seq(Nat)) /\ Len(P) = k
    BY <2>3, <1>3
  <2> QED BY <2>1, <2>2, <2>4
<1> HIDE DEF E, P, k, n
<1>6. Len(E) \in Nat /\ Len(P) \in Nat /\ Len(P) >= 1
  BY <1>3, <1>4, <1>5, LenProperties
<1>7. /\ r \in Seq(Seq(Nat)) /\ Len(r) = Len(E) + Len(P)
      /\ \A i \in 1 .. Len(E) + Len(P) : r[i] = IF i <= Len(E) THEN E[i] ELSE P[i - Len(E)]
  BY <1>4, <1>5, ConcatProperties
<1> HIDE DEF r
<1>8. ASSUME NEW i \in 1 .. Len(r)
      PROVE  Message(r[i]) /\ r[i][1] \in {Boot!FLASH_WRITE, Boot!ERASE_SECTOR}
  <2>1. i \in 1 .. Len(E) + Len(P)
    BY <1>7
  <2>2. CASE i <= Len(E)
    <3>1. i \in 1 .. Len(E) /\ r[i] = E[i]
      BY <2>1, <2>2, <1>6, <1>7
    <3> QED BY <3>1, <1>4
  <2>3. CASE ~(i <= Len(E))
    <3>1. i - Len(E) \in 1 .. Len(P)
      BY <2>1, <2>3, <1>6
    <3>2. r[i] = P[i - Len(E)]
      BY <2>1, <2>3, <1>7
    <3> QED BY <3>1, <3>2, <1>5
  <2> QED BY <2>2, <2>3
<1>9. r # <<>> /\ 1 \in 1 .. Len(r)
  BY <1>6, <1>7
<1>10. r[1] # <<Boot!RESET>>
  <2>1. r[1][1] \in {Boot!FLASH_WRITE, Boot!ERASE_SECTOR}
    BY <1>8, <1>9
  <2> QED BY <2>1
<1> QED BY <1>7, <1>8, <1>9, <1>10 DEF Legal, r, E, P

(* What the user may ask for is legal, and a reset stands alone. *)
LEMMA RequestsLegal ==
  ASSUME NEW r \in Requests
  PROVE  /\ r \in Seq(Seq(Nat)) /\ r # <<>> /\ Legal(r)
         /\ r[1] = <<Boot!RESET>> => r = << <<Boot!RESET>> >>
<1>1. CASE r \in {<< <<c>> >> : c \in Simple}
  <2>1. PICK c \in Simple : r = << <<c>> >>
    BY <1>1
  <2>2. c \in Nat
    BY DEF Simple
  <2>3. <<c>> \in Seq(Nat) /\ <<c>> # <<>> /\ Len(<<c>>) = 1 /\ <<c>>[1] = c
    BY <2>2
  <2>4. Message(<<c>>)
    BY <2>3 DEF Message
  <2>5. r \in Seq(Seq(Nat)) /\ Len(r) = 1 /\ r[1] = <<c>> /\ r # <<>>
    BY <2>1, <2>3
  <2> QED BY <2>1, <2>4, <2>5 DEF Legal
<1>2. CASE r \in {<< <<Boot!FLASH_READ, q[1], q[2]>> >> : q \in Reads}
  <2>1. PICK q \in Reads : r = << <<Boot!FLASH_READ, q[1], q[2]>> >>
    BY <1>2
  <2>2. q[1] \in Nat /\ q[2] \in Nat
    BY XipAssumption
  <2> DEFINE m == <<Boot!FLASH_READ, q[1], q[2]>>
  <2>3. m \in Seq(Nat) /\ m # <<>> /\ m[1] = Boot!FLASH_READ
    BY <2>2
  <2>4. Message(m)
    BY <2>3 DEF Message
  <2> HIDE DEF m
  <2>5. r \in Seq(Seq(Nat)) /\ Len(r) = 1 /\ r[1] = m /\ r # <<>>
    BY <2>1, <2>3 DEF m
  <2>6. m # <<Boot!RESET>>
    BY <2>3
  <2> QED BY <2>1, <2>4, <2>5, <2>6 DEF Legal
<1>3. CASE r \in {<< <<Boot!ERASE_SECTOR, a>> >> : a \in EraseAddrs}
  <2>1. PICK a \in EraseAddrs : r = << <<Boot!ERASE_SECTOR, a>> >>
    BY <1>3
  <2>2. a \in Nat
    BY XipAssumption
  <2> DEFINE m == <<Boot!ERASE_SECTOR, a>>
  <2>3. m \in Seq(Nat) /\ m # <<>> /\ Len(m) = 2 /\ m[1] = Boot!ERASE_SECTOR
    BY <2>2
  <2>4. Message(m)
    BY <2>3 DEF Message
  <2> HIDE DEF m
  <2>5. r \in Seq(Seq(Nat)) /\ Len(r) = 1 /\ r[1] = m /\ r # <<>>
    BY <2>1, <2>3 DEF m
  <2>6. m # <<Boot!RESET>>
    BY <2>3
  <2> QED BY <2>1, <2>4, <2>5, <2>6 DEF Legal
<1>4. CASE r \in {EraseMessages(w[1], w[2]) \o PageMessages(w[1], w[2]) :
                    w \in {w \in WriteAddrs \X Files : Fits(w[1], w[2])}}
  <2>1. PICK w \in WriteAddrs \X Files : r = EraseMessages(w[1], w[2]) \o PageMessages(w[1], w[2])
    BY <1>4
  <2>2. w[1] \in Nat /\ w[2] \in Files
    BY XipAssumption
  <2> QED BY <2>1, <2>2, WriteLegal
<1> QED BY <1>1, <1>2, <1>3, <1>4 DEF Requests

-----------------------------------------------------------------------------
(* A message on its way. *)

(* Where the loader is tells how much it has taken. *)
LEMMA WhereParsed ==
  ASSUME NEW m, Message(m), NEW k \in 0 .. Len(m) - 1, Parsed(m, k)
  PROVE  /\ k \in Nat /\ Len(m) \in Nat /\ m \in Seq(Nat)
         /\ pc = "main" <=> k = 0
         /\ pc = "addr" <=> k = 1
         /\ pc = "len" <=> k = 2
         /\ pc = "data" <=> k >= 3
         /\ pc \in {"main", "addr", "len", "data"}
<1>1. m \in Seq(Nat) /\ Len(m) \in Nat
  BY LenProperties DEF Message
<1>2. k = 0 \/ k = 1 \/ k = 2 \/ k >= 3
  BY <1>1
<1> QED BY <1>1, <1>2 DEF Parsed

(* The shape of a message, by its first byte. *)
LEMMA MessageShape ==
  ASSUME NEW m, Message(m)
  PROVE  /\ m \in Seq(Nat) /\ Len(m) \in Nat /\ Len(m) >= 1
         /\ \A i \in 1 .. Len(m) : m[i] \in Nat
         /\ m[1] \notin Fields => Len(m) = 1 /\ m[1] \in Simple
         /\ m[1] = Boot!ERASE_SECTOR => Len(m) = 2
         /\ m[1] = Boot!FLASH_READ => Len(m) = 3 /\ m = <<Boot!FLASH_READ, m[2], m[3]>>
         /\ m[1] = Boot!FLASH_WRITE =>
              /\ Len(m) = m[3] + 3 /\ m[3] \in Nat /\ m[3] <= PageWords
              /\ \A i \in 4 .. Len(m) : m[i] \in Contents
<1>1. m \in Seq(Nat) /\ Len(m) \in Nat /\ Len(m) >= 1 /\ \A i \in 1 .. Len(m) : m[i] \in Nat
  BY EmptySeq, ElementOfSeq, LenProperties DEF Message
<1>2. CASE Len(m) = 1 /\ m[1] \in Simple
  BY <1>1, <1>2 DEF Simple, Fields
<1>3. CASE \E r \in Reads : m = <<Boot!FLASH_READ, r[1], r[2]>>
  BY <1>1, <1>3 DEF Fields
<1>4. CASE Len(m) = 2 /\ m[1] = Boot!ERASE_SECTOR
  BY <1>1, <1>4 DEF Fields
<1>5. CASE /\ Len(m) >= 3 /\ m[1] = Boot!FLASH_WRITE /\ Len(m) = m[3] + 3 /\ m[3] <= PageWords
           /\ \A i \in 4 .. Len(m) : m[i] \in Contents
  BY <1>1, <1>5 DEF Fields
<1> QED BY <1>2, <1>3, <1>4, <1>5 DEF Message

(* The loader waits for the next byte with an empty FIFO, which takes it. *)
LEMMA ReceiveNext ==
  ASSUME TypeOK, NEW m, Message(m), Arriving(m), Arrive
  PROVE  Arriving(m)'
<1>1. PICK k \in 0 .. Len(m) - 1, j \in 0 .. Len(m) : At(m, k, j)
  BY DEF Arriving
<1>2. /\ k \in Nat /\ Len(m) \in Nat /\ m \in Seq(Nat)
      /\ pc \in {"main", "addr", "len", "data"}
  BY <1>1, WhereParsed DEF At
<1>3. rx = <<>> /\ Parsed(m, k) /\ line = Rest(m, j) /\ line # <<>>
  BY <1>1, <1>2 DEF At, Arrive, Boot!Waits, Boot!Listening
<1>4. j = k
  BY <1>1, <1>3 DEF At
<1>5. j < Len(m) /\ Head(line) = m[j + 1] /\ Tail(line) = Rest(m, j + 1)
  <2>1. Rest(m, j) # <<>>
    BY <1>3
  <2>2. j # Len(m)
    BY <1>1, <1>2, <2>1, RestFacts
  <2>3. j < Len(m)
    BY <1>1, <1>2, <2>2
  <2>4. Head(Rest(m, j)) = m[j + 1] /\ Tail(Rest(m, j)) = Rest(m, j + 1)
    BY <1>1, <1>2, <2>3, RestFacts
  <2> QED BY <1>3, <2>3, <2>4
<1>6. rx' = <<m[j + 1]>>
  <2>1. RxDepth \in Nat \ {0}
    BY XipAssumption
  <2>2. Len(rx) < RxDepth
    BY <2>1, <1>3
  <2> QED BY <1>3, <1>5, <2>2 DEF Arrive, Boot!Receive
<1>7. line' = Rest(m, j + 1)
  BY <1>5 DEF Arrive
<1>8. Parsed(m, k)'
  BY <1>3 DEF Parsed, Arrive, loaderVars
<1>9. j + 1 \in 0 .. Len(m) /\ j + 1 = k + 1
  BY <1>2, <1>4, <1>5
<1>10. At(m, k, j + 1)'
  BY <1>6, <1>7, <1>8, <1>9 DEF At, Rest
<1> QED BY <1>9, <1>10 DEF Arriving

(* The next byte, when the loader takes it. *)
LEMMA TakeNext ==
  ASSUME TypeOK, NEW m, Message(m), Arriving(m), Boot!Getc, UNCHANGED line
  PROVE  \E k \in 0 .. Len(m) - 1 :
           /\ Parsed(m, k) /\ Head(rx) = m[k + 1]
           /\ rx' = <<>> /\ line' = Rest(m, k + 1)
           /\ k + 1 = Len(m) <=> line' = <<>>
<1>1. PICK k \in 0 .. Len(m) - 1, j \in 0 .. Len(m) : At(m, k, j)
  BY DEF Arriving
<1>2. /\ k \in Nat /\ Len(m) \in Nat /\ m \in Seq(Nat)
  BY <1>1, WhereParsed DEF At
<1>3. j = k + 1 /\ rx = <<m[j]>> /\ Parsed(m, k) /\ line = Rest(m, j)
  BY <1>1 DEF At, Boot!Getc
<1>4. Head(rx) = m[k + 1] /\ rx' = <<>>
  BY <1>3 DEF Boot!Getc
<1>5. Rest(m, j) = <<>> <=> j = Len(m)
  BY <1>2, RestFacts
<1> QED BY <1>1, <1>3, <1>4, <1>5

(* The first byte: the command. *)
LEMMA TakesCommand ==
  ASSUME TypeOK, NEW m, Message(m), Arriving(m), Boot!Command, UNCHANGED line
  PROVE  /\ m[1] \in Fields => Arriving(m)'
         /\ m[1] \notin Fields => /\ Silent' /\ console_cmd' = m[1]
                                  /\ pc' = IF m[1] = DEMO THEN "main" ELSE "reply"
<1>1. PICK k \in 0 .. Len(m) - 1 :
        /\ Parsed(m, k) /\ Head(rx) = m[k + 1]
        /\ rx' = <<>> /\ line' = Rest(m, k + 1)
        /\ k + 1 = Len(m) <=> line' = <<>>
  BY TakeNext DEF Boot!Command
<1>2. k = 0 /\ console_cmd' = m[1] /\ pc' = Boot!FirstStep(m[1])
  BY <1>1, WhereParsed DEF Boot!Command, Boot!Goto
<1>3. CASE m[1] \in Fields
  <2>1. 1 \in 0 .. Len(m) - 1
    BY <1>3, MessageShape DEF Fields
  <2>2. pc' = "addr"
    BY <1>2, <1>3 DEF Boot!FirstStep, Fields
  <2>3. Parsed(m, 1)'
    BY <1>2, <1>3, <2>2 DEF Parsed
  <2>4. At(m, 1, 1)'
    BY <1>1, <1>2, <2>3 DEF At, Rest
  <2>5. 1 \in 0 .. Len(m)
    BY <2>1, MessageShape
  <2> QED BY <1>3, <2>1, <2>4, <2>5 DEF Arriving
<1>4. CASE m[1] \notin Fields
  <2>1. Len(m) = 1 /\ m[1] \in Simple
    BY <1>4, MessageShape
  <2>2. pc' = IF m[1] = DEMO THEN "main" ELSE "reply"
    BY <1>2, <2>1 DEF Simple, Boot!FirstStep
  <2>3. Silent'
    BY <1>1, <1>2, <2>1 DEF Silent
  <2> QED BY <1>2, <1>4, <2>2, <2>3
<1> QED BY <1>3, <1>4

(* The second: the address. *)
LEMMA TakesAddress ==
  ASSUME TypeOK, NEW m, Message(m), Arriving(m), Boot!TakeAddress, UNCHANGED line
  PROVE  IF m[1] = Boot!ERASE_SECTOR THEN Executing(m)' ELSE Arriving(m)'
<1>1. PICK k \in 0 .. Len(m) - 1 :
        /\ Parsed(m, k) /\ Head(rx) = m[k + 1]
        /\ rx' = <<>> /\ line' = Rest(m, k + 1)
        /\ k + 1 = Len(m) <=> line' = <<>>
  BY TakeNext DEF Boot!TakeAddress
<1>2. k = 1
  BY <1>1, WhereParsed DEF Boot!TakeAddress
<1>3. /\ console_cmd = m[1] /\ console_cmd' = m[1] /\ m[1] \in Fields
      /\ addr' = m[2]
      /\ pc' = IF m[1] = Boot!ERASE_SECTOR THEN "wren" ELSE "len"
  BY <1>1, <1>2 DEF Boot!TakeAddress, Boot!Goto, Parsed
<1>4. CASE m[1] = Boot!ERASE_SECTOR
  <2>1. line' = <<>>
    BY <1>1, <1>2, <1>4, MessageShape
  <2> QED BY <1>1, <1>3, <1>4, <2>1 DEF Executing, Silent
<1>5. CASE m[1] # Boot!ERASE_SECTOR
  <2>1. Len(m) >= 3 /\ 2 \in 0 .. Len(m) - 1 /\ 2 \in 0 .. Len(m)
    <3>1. Len(m) \in Nat /\ (m[1] = Boot!FLASH_READ \/ m[1] = Boot!FLASH_WRITE)
      BY <1>3, <1>5, MessageShape DEF Fields
    <3>2. m[1] = Boot!FLASH_READ => Len(m) = 3
      BY MessageShape
    <3>3. m[1] = Boot!FLASH_WRITE => m[3] \in Nat /\ Len(m) = m[3] + 3
      BY MessageShape
    <3>4. Len(m) >= 3
      BY <3>1, <3>2, <3>3
    <3> QED BY <3>1, <3>4
  <2>2. Parsed(m, 2)'
    BY <1>3, <1>5 DEF Parsed
  <2>3. At(m, 2, 2)'
    BY <1>1, <1>2, <2>2 DEF At, Rest
  <2> QED BY <1>5, <2>1, <2>3 DEF Arriving
<1> QED BY <1>4, <1>5

(* The third: the length. *)
LEMMA TakesLength ==
  ASSUME TypeOK, NEW m, Message(m), Arriving(m), Boot!TakeLength, UNCHANGED line
  PROVE  /\ m[1] = Boot!FLASH_WRITE => Arriving(m)' \/ Executing(m)'
         /\ m[1] = Boot!FLASH_READ =>
              /\ Silent'
              /\ IF m[3] > 0
                 THEN /\ pc' = "read" /\ console_cmd' = m[1] /\ addr' = m[2]
                      /\ len' = m[3] /\ data_idx' = 0
                 ELSE pc' = "main"
         /\ m[1] \in {Boot!FLASH_WRITE, Boot!FLASH_READ}
<1>1. PICK k \in 0 .. Len(m) - 1 :
        /\ Parsed(m, k) /\ Head(rx) = m[k + 1]
        /\ rx' = <<>> /\ line' = Rest(m, k + 1)
        /\ k + 1 = Len(m) <=> line' = <<>>
  BY TakeNext DEF Boot!TakeLength
<1>2. k = 2
  BY <1>1, WhereParsed DEF Boot!TakeLength
<1>3. /\ console_cmd = m[1] /\ console_cmd' = m[1]
      /\ m[1] \in {Boot!FLASH_WRITE, Boot!FLASH_READ}
      /\ addr = m[2] /\ addr' = m[2] /\ len' = m[3] /\ page' = <<>> /\ data_idx' = 0
  BY <1>1, <1>2 DEF Boot!TakeLength, Parsed, Fields
<1>4. /\ m[1] = Boot!FLASH_WRITE => pc' = IF m[3] > 0 THEN "data" ELSE "reply"
      /\ m[1] = Boot!FLASH_READ => pc' = IF m[3] > 0 THEN "read" ELSE "main"
  BY <1>3 DEF Boot!TakeLength, Boot!Goto
<1>5. CASE m[1] = Boot!FLASH_WRITE
  <2>1. Len(m) = m[3] + 3 /\ m[3] \in Nat /\ Len(m) \in Nat
    BY <1>5, MessageShape
  <2>2. CASE m[3] > 0
    <3>1. 3 \in 0 .. Len(m) - 1 /\ 3 \in 0 .. Len(m)
      BY <2>1, <2>2
    <3>2. SubSeq(m, 4, 3) = <<>>
      BY SubSeqEmpty
    <3>3. Parsed(m, 3)'
      BY <1>3, <1>4, <1>5, <2>2, <3>2 DEF Parsed, Fields
    <3>4. At(m, 3, 3)'
      BY <1>1, <1>2, <3>3 DEF At, Rest
    <3> QED BY <1>5, <3>1, <3>4 DEF Arriving
  <2>3. CASE ~(m[3] > 0)
    <3>1. Silent'
      BY <1>1, <1>2, <2>1, <2>3 DEF Silent
    <3>2. pc' = "reply"
      BY <1>4, <1>5, <2>3
    <3> QED BY <1>3, <1>5, <3>1, <3>2 DEF Executing, Silent
  <2> QED BY <2>2, <2>3, <1>5
<1>6. CASE m[1] = Boot!FLASH_READ
  <2>1. Len(m) = 3
    BY <1>6, MessageShape
  <2>2. Silent'
    BY <1>1, <1>2, <2>1 DEF Silent
  <2> QED BY <1>3, <1>4, <1>6, <2>2
<1> QED BY <1>3, <1>5, <1>6

(* The words of a page. *)
LEMMA TakesData ==
  ASSUME TypeOK, NEW m, Message(m), Arriving(m), Boot!TakeData, UNCHANGED line
  PROVE  Arriving(m)' \/ Executing(m)'
<1>1. PICK k \in 0 .. Len(m) - 1 :
        /\ Parsed(m, k) /\ Head(rx) = m[k + 1]
        /\ rx' = <<>> /\ line' = Rest(m, k + 1)
        /\ k + 1 = Len(m) <=> line' = <<>>
  BY TakeNext DEF Boot!TakeData
<1>2. k >= 3 /\ k \in Nat /\ Len(m) \in Nat /\ m \in Seq(Nat)
  BY <1>1, WhereParsed DEF Boot!TakeData
<1>3. /\ console_cmd = m[1] /\ console_cmd' = m[1] /\ m[1] = Boot!FLASH_WRITE
      /\ addr = m[2] /\ addr' = m[2] /\ len = m[3] /\ len' = m[3]
      /\ page = SubSeq(m, 4, k) /\ data_idx = 0 /\ data_idx' = 0
  BY <1>1, <1>2 DEF Boot!TakeData, Parsed
<1>4. Len(m) = m[3] + 3 /\ m[3] \in Nat
  BY <1>3, MessageShape
<1>5. Len(page) = k - 3
  <2>1. \A i \in 4 .. k : m[i] \in Nat
    BY <1>2, ElementOfSeq
  <2> QED BY <1>2, <1>3, <2>1, SubSeqProperties
<1>6. page' = SubSeq(m, 4, k + 1)
  <2>1. 4 \in 1 .. Len(m) /\ k + 1 \in 4 .. Len(m)
    BY <1>1, <1>2
  <2>2. SubSeq(m, 4, k + 1) = SubSeq(m, 4, k + 1 - 1) \o <<m[k + 1]>>
    BY <1>2, <2>1, SubSeqRecursiveSecond
  <2>3. k + 1 - 1 = k
    BY <1>2
  <2>4. page \in Seq(Nat) /\ m[k + 1] \in Nat
    <3>1. k + 1 \in 1 .. Len(m)
      BY <2>1
    <3> QED BY <3>1, MessageShape DEF TypeOK, Boot!TypeOK
  <2>5. Append(page, m[k + 1]) = page \o <<m[k + 1]>>
    BY <2>4, AppendIsConcat
  <2> QED BY <1>1, <1>3, <2>2, <2>3, <2>5 DEF Boot!TakeData
<1>7. pc' = IF k + 1 = Len(m) THEN "wren" ELSE "data"
  <2>1. Len(page) + 1 = len <=> k + 1 = Len(m)
    <3>1. len \in Nat /\ Len(m) = len + 3
      BY <1>3, <1>4
    <3>2. k \in Nat /\ Len(page) = k - 3
      BY <1>2, <1>5
    <3> QED BY <3>1, <3>2
  <2> QED BY <2>1 DEF Boot!TakeData, Boot!Goto, Boot!LastDatum
<1>8. CASE k + 1 = Len(m)
  <2>1. data_idx' < len'
    BY <1>2, <1>3, <1>4, <1>8
  <2>2. Silent'
    BY <1>1, <1>8 DEF Silent
  <2>3. page' = SubSeq(m, 4, Len(m)) /\ pc' = "wren"
    BY <1>6, <1>7, <1>8
  <2> QED BY <1>3, <2>1, <2>2, <2>3 DEF Executing, Silent
<1>9. CASE k + 1 # Len(m)
  <2>1. k + 1 \in 0 .. Len(m) - 1 /\ k + 1 \in 0 .. Len(m)
    BY <1>1, <1>2, <1>9
  <2>2. Parsed(m, k + 1)'
    BY <1>2, <1>3, <1>6, <1>7, <1>9 DEF Parsed, Fields
  <2>3. At(m, k + 1, k + 1)'
    BY <1>1, <2>2 DEF At, Rest
  <2> QED BY <2>1, <2>3 DEF Arriving
<1> QED BY <1>8, <1>9

-----------------------------------------------------------------------------
(* The loader works on a message. *)

(* What the loader may do, by where it is. *)
LEMMA LoaderCases ==
  ASSUME Boot!Loader
  PROVE  /\ pc \in {"boot", "main", "addr", "len", "data", "wren", "op", "poll", "read", "reply",
                    "reset"}
         /\ pc = "boot" => Boot!Poked \/ Boot!AutoBoot
         /\ pc = "main" => Boot!Command
         /\ pc = "addr" => Boot!TakeAddress
         /\ pc = "len" => Boot!TakeLength
         /\ pc = "data" => Boot!TakeData
         /\ pc = "wren" => Boot!Wren
         /\ pc = "op" => Boot!Operate
         /\ pc = "poll" => Boot!Poll
         /\ pc = "read" => Boot!ReadAndSend
         /\ pc = "reply" => Boot!Reply
         /\ pc = "reset" => Boot!Jump
BY DEF Boot!Loader, Boot!Poked, Boot!AutoBoot, Boot!Command, Boot!TakeAddress, Boot!TakeLength,
       Boot!TakeData, Boot!Wren, Boot!Operate, Boot!Poll, Boot!ReadAndSend, Boot!Reply, Boot!Jump

(* The commands that are carried out end with their answer. *)
LEMMA ExecutingGoesOn ==
  ASSUME TypeOK, Latch, NEW m, Message(m), Clean, Executing(m), LoaderStep
  PROVE  (Clean' /\ Executing(m)') \/ Answered(m)'
<1>1. Silent /\ UNCHANGED <<line, ser_in>> /\ Boot!Loader
  BY DEF Executing, LoaderStep
<1>2. CASE pc = "reply"
  <2>1. Boot!Reply
    BY <1>1, <1>2, LoaderCases
  <2>2. console_cmd = m[1] /\ m[1] # Boot!FLASH_READ /\ m[1] # DEMO
    BY <1>2 DEF Executing
  <2>3. m[1] \in {Boot!POKE, Boot!EXECUTE, Boot!FLASH_WRITE, Boot!RESET, Boot!ERASE_SECTOR,
                  Boot!STATUS_BYTE} /\ Head(m) = m[1]
    BY <2>2, AnswerLength
  <2>4. pc' = CASE m[1] = Boot!EXECUTE -> "app" [] m[1] = Boot!RESET -> "reset" [] OTHER -> "main"
    BY <2>1, <2>2 DEF Boot!Reply, Boot!Goto
  <2>5. Silent'
    BY <1>1, <2>1 DEF Silent, Boot!Reply
  <2>6. tx' = <<Boot!Answer>> /\ ser_in' = <<>>
    BY <1>1, <2>1 DEF Boot!Reply, Boot!Putc, Clean
  <2>7. Boot!Answer = IF m[1] \in {Boot!FLASH_WRITE, Boot!STATUS_BYTE} THEN 0 ELSE m[1]
    BY <1>2, <2>2, <2>3 DEF Boot!Answer, Boot!Spi!Status, Latch
  <2>8. AnswerTo(m)' = IF m[1] \in {Boot!FLASH_WRITE, Boot!STATUS_BYTE} THEN <<0>> ELSE <<m[1]>>
    BY <2>3 DEF AnswerTo
  <2>9. ser_in' \o tx' = AnswerTo(m)'
    <3>1. <<>> \o <<0>> = <<0>>
      BY ConcatEmptySeq
    <3>2. <<>> \o <<m[1]>> = <<m[1]>>
      <4>1. <<m[1]>> \in Seq(Nat)
        BY MessageShape
      <4> QED BY <4>1, ConcatEmptySeq
    <3> QED BY <2>6, <2>7, <2>8, <3>1, <3>2
  <2> QED BY <2>3, <2>4, <2>5, <2>9 DEF Answered
<1>3. CASE pc \in {"wren", "op", "poll"}
  <2>1. /\ console_cmd = m[1]
        /\ \/ m[1] = Boot!ERASE_SECTOR /\ addr = m[2]
           \/ /\ m[1] = Boot!FLASH_WRITE /\ addr = m[2] /\ len = m[3]
              /\ page = SubSeq(m, 4, Len(m))
              /\ pc \in {"wren", "op"} => data_idx < len
    BY <1>3 DEF Executing
  <2>2. Silent' /\ Clean' /\ UNCHANGED <<console_cmd, addr, len, page>>
    BY <1>1, <1>3, LoaderCases DEF Silent, Clean, Boot!Wren, Boot!Operate, Boot!Poll
  <2>3. CASE pc = "wren"
    <3>1. pc' = "op" /\ data_idx' = data_idx
      BY <1>1, <2>3, LoaderCases DEF Boot!Wren, Boot!Goto
    <3> QED BY <2>1, <2>2, <2>3, <3>1 DEF Executing
  <2>4. CASE pc = "op"
    <3>1. pc' = "poll"
      BY <1>1, <2>4, LoaderCases DEF Boot!Operate, Boot!Goto, Boot!AfterOperation
    <3> QED BY <2>1, <2>2, <2>4, <3>1 DEF Executing
  <2>5. CASE pc = "poll"
    <3>1. /\ pc' = IF console_cmd = Boot!FLASH_WRITE /\ data_idx < len THEN "wren" ELSE "reply"
          /\ data_idx' = data_idx
      BY <1>1, <2>5, LoaderCases DEF Boot!Poll, Boot!Goto, Boot!NextWord
    <3> QED BY <2>1, <2>2, <2>5, <3>1 DEF Executing
  <2> QED BY <1>3, <2>3, <2>4, <2>5
<1> QED BY <1>2, <1>3 DEF Executing

(* What has been read is a prefix of the answer. *)
LEMMA ReadingGoesOn ==
  ASSUME TypeOK, Latch, NEW m, Message(m), Reading(m), LoaderStep
  PROVE  Reading(m)' \/ Answered(m)'
<1> DEFINE A == AnswerTo(m)
           d == data_idx
<1>1. /\ Silent /\ Silent' /\ ser_in' = ser_in /\ Boot!ReadAndSend
      /\ m[1] = Boot!FLASH_READ /\ console_cmd = m[1] /\ addr = m[2] /\ len = m[3] /\ d < len
      /\ ser_in \o tx = SubSeq(A, 1, d)
  BY LoaderCases DEF Reading, LoaderStep, Silent, Boot!ReadAndSend
<1>2. /\ A \in Seq(Nat) /\ Len(A) = m[3] /\ m[2] \in Nat /\ m[3] \in Nat /\ Head(m) = m[1]
  <2>1. PICK r \in Reads : /\ m = <<Boot!FLASH_READ, r[1], r[2]>>
                           /\ r[2] = m[3] /\ Want(m) = r[2] /\ r[1] \in Nat /\ r[2] \in Nat
    BY <1>1, AnswerLength
  <2>2. AnswerTo(m) \in Seq(Nat) /\ Len(AnswerTo(m)) = Want(m) /\ Head(m) = m[1]
    BY <1>1, AnswerLength
  <2> QED BY <2>1, <2>2
<1>3. d \in Nat /\ ser_in \in Seq(Nat) /\ tx \in Seq(Nat)
  BY DEF TypeOK, Boot!TypeOK
<1>4. tx' = Append(tx, A[d + 1])
  <2>1. A = [i \in 1 .. m[3] |-> flash[(m[2] + i - 1) % Spi!Size]]
    BY <1>1, <1>2 DEF AnswerTo
  <2>2. d + 1 \in 1 .. m[3] /\ m[2] + (d + 1) - 1 = m[2] + d
    BY <1>1, <1>2, <1>3
  <2>3. A[d + 1] = flash[(m[2] + d) % Spi!Size]
    BY <2>1, <2>2
  <2>4. ~wip
    BY <1>1 DEF Latch, Boot!ReadAndSend
  <2>5. Boot!Spi!Read(addr + data_idx) = {flash[(addr + data_idx) % Spi!Size]}
    BY <2>4 DEF Boot!Spi!Read, Boot!Spi!Size, Spi!Size
  <2> QED BY <1>1, <2>3, <2>5 DEF Boot!ReadAndSend, Boot!Putc
<1> HIDE DEF A
<1>5. ser_in' \o tx' = SubSeq(A, 1, d + 1)
  <2>1. 1 \in 1 .. Len(A) /\ d + 1 \in 1 .. Len(A)
    BY <1>1, <1>2, <1>3
  <2>2. A[d + 1] \in Nat /\ <<A[d + 1]>> \in Seq(Nat)
    BY <1>2, <2>1, ElementOfSeq
  <2>3. Append(tx, A[d + 1]) = tx \o <<A[d + 1]>>
    BY <1>3, <2>2, AppendIsConcat
  <2>4. (ser_in \o tx) \o <<A[d + 1]>> = ser_in \o (tx \o <<A[d + 1]>>)
    BY <1>3, <2>2, ConcatAssociative
  <2>5. SubSeq(A, 1, d + 1) = SubSeq(A, 1, d) \o <<A[d + 1]>>
    <3>1. \A i \in 1 .. Len(A) : SubSeq(A, 1, i) = SubSeq(A, 1, i - 1) \o <<A[i]>>
      BY <1>2, <2>1, SubSeqRecursiveSecond
    <3> DEFINE n == d + 1
    <3>2. n \in 1 .. Len(A) /\ n - 1 = d
      BY <1>3, <2>1
    <3> HIDE DEF n
    <3>3. SubSeq(A, 1, n) = SubSeq(A, 1, d) \o <<A[n]>>
      BY <3>1, <3>2
    <3> QED BY <3>3 DEF n
  <2> QED BY <1>1, <1>4, <2>3, <2>4, <2>5
<1>6. AnswerTo(m)' = A
  BY <1>1 DEF AnswerTo, Boot!ReadAndSend, Boot!flashVars, A
<1>7. CASE d + 1 < len
  <2>1. pc' = "read" /\ UNCHANGED <<console_cmd, addr, len>> /\ data_idx' = d + 1
    BY <1>1, <1>7 DEF Boot!ReadAndSend, Boot!Goto
  <2> QED BY <1>1, <1>5, <1>6, <1>7, <2>1 DEF Reading, A
<1>8. CASE ~(d + 1 < len)
  <2>1. pc' = "main"
    BY <1>1, <1>8 DEF Boot!ReadAndSend, Boot!Goto
  <2>2. d + 1 = Len(A)
    BY <1>1, <1>2, <1>3, <1>8
  <2>3. SubSeq(A, 1, Len(A)) = A
    BY <1>2, SubSeqFull
  <2> QED BY <1>1, <1>5, <1>6, <2>1, <2>2, <2>3 DEF Answered
<1> QED BY <1>7, <1>8

(* After the answer the loader waits, starts the program or restarts. *)
LEMMA AnsweredGoesOn ==
  ASSUME TypeOK, NEW m, Message(m), Answered(m), LoaderStep
  PROVE  Answered(m)'
<1>1. /\ Silent /\ UNCHANGED <<line, ser_in>> /\ Boot!Loader
      /\ m[1] = Boot!RESET /\ (pc = "reset" \/ (pc = "boot" /\ tx = <<>>))
  BY LoaderCases DEF Answered, LoaderStep, Silent, Boot!Command, Boot!Getc
<1>2. AnswerTo(m)' = AnswerTo(m)
  <2>1. Head(m) = m[1]
    BY AnswerLength
  <2> QED BY <1>1, <2>1 DEF AnswerTo
<1>3. CASE pc = "reset"
  <2>1. Boot!Jump
    BY <1>1, <1>3, LoaderCases
  <2>2. tx' = tx /\ tx' = <<>> /\ pc' = "boot" /\ Silent'
    BY <1>1, <2>1 DEF Boot!Jump, Boot!Restart, Boot!Goto, Silent
  <2> QED BY <1>1, <1>2, <2>2 DEF Answered
<1>4. CASE pc = "boot"
  <2>1. Boot!AutoBoot
    BY <1>1, <1>4, LoaderCases DEF Boot!Poked, Boot!char_received, Silent
  <2>2. tx' = tx /\ tx' = <<>> /\ pc' = "app" /\ Silent'
    BY <1>1, <1>4, <2>1 DEF Boot!AutoBoot, Boot!Goto, Silent
  <2> QED BY <1>1, <1>2, <2>2 DEF Answered
<1> QED BY <1>1, <1>3, <1>4

(* The loader gets on with the message that it works on. *)
LEMMA BusyGoesOn ==
  ASSUME TypeOK, Latch, NEW m, Message(m), Busy(m), LoaderStep
  PROVE  Busy(m)'
<1>1. UNCHANGED <<line, ser_in>> /\ Boot!Loader
  BY DEF LoaderStep
<1>2. CASE Clean /\ Arriving(m)
  <2>1. pc \in {"main", "addr", "len", "data"}
    BY <1>2, WhereParsed DEF Arriving, At
  <2>2. Clean'
    BY <1>1, <1>2, <2>1, LoaderCases
       DEF Clean, Boot!Command, Boot!TakeAddress, Boot!TakeLength, Boot!TakeData
  <2>3. ser_in' \o tx' = <<>>
    <3>1. <<>> \in Seq(Nat)
      OBVIOUS
    <3> QED BY <2>2, <3>1, ConcatEmptySeq DEF Clean
  <2>4. CASE pc = "main"
    <3>1. Boot!Command
      BY <1>1, <2>4, LoaderCases
    <3>2. /\ m[1] \in Fields => Arriving(m)'
          /\ m[1] \notin Fields => /\ Silent' /\ console_cmd' = m[1]
                                   /\ pc' = IF m[1] = DEMO THEN "main" ELSE "reply"
      BY <1>1, <1>2, <3>1, TakesCommand
    <3>3. CASE m[1] \in Fields
      BY <2>2, <3>2, <3>3 DEF Busy
    <3>4. CASE m[1] = DEMO
      <4>1. Silent' /\ pc' = "main"
        BY <3>2, <3>4 DEF Fields
      <4>2. AnswerTo(m)' = <<>>
        <5>1. Head(m) = m[1]
          BY AnswerLength
        <5> QED BY <3>4, <5>1 DEF AnswerTo
      <4> QED BY <2>3, <3>4, <4>1, <4>2 DEF Busy, Answered
    <3>5. CASE m[1] \notin Fields \cup {DEMO}
      <4>1. Executing(m)'
        BY <3>2, <3>5 DEF Executing, Silent, Fields
      <4> QED BY <2>2, <4>1 DEF Busy
    <3> QED BY <3>3, <3>4, <3>5
  <2>5. CASE pc = "addr"
    <3>1. Boot!TakeAddress
      BY <1>1, <2>5, LoaderCases
    <3>2. Arriving(m)' \/ Executing(m)'
      BY <1>1, <1>2, <3>1, TakesAddress
    <3> QED BY <2>2, <3>2 DEF Busy
  <2>6. CASE pc = "len"
    <3>1. Boot!TakeLength
      BY <1>1, <2>6, LoaderCases
    <3>2. /\ m[1] = Boot!FLASH_WRITE => Arriving(m)' \/ Executing(m)'
          /\ m[1] = Boot!FLASH_READ =>
               /\ Silent'
               /\ IF m[3] > 0
                  THEN /\ pc' = "read" /\ console_cmd' = m[1] /\ addr' = m[2]
                       /\ len' = m[3] /\ data_idx' = 0
                  ELSE pc' = "main"
          /\ m[1] \in {Boot!FLASH_WRITE, Boot!FLASH_READ}
      BY <1>1, <1>2, <3>1, TakesLength
    <3>3. CASE m[1] = Boot!FLASH_WRITE
      BY <2>2, <3>2, <3>3 DEF Busy
    <3>4. CASE m[1] = Boot!FLASH_READ
      <4>1. AnswerTo(m)' = AnswerTo(m)
        BY <3>1 DEF Boot!TakeLength, Boot!flashVars, AnswerTo
      <4>2. AnswerTo(m) \in Seq(Nat) /\ Len(AnswerTo(m)) = m[3] /\ m[3] \in Nat
        BY <3>4, AnswerLength
      <4>3. CASE m[3] > 0
        <5>1. SubSeq(AnswerTo(m)', 1, 0) = <<>>
          BY SubSeqEmpty
        <5>2. Reading(m)'
          BY <2>3, <3>2, <3>4, <4>3, <5>1 DEF Reading
        <5> QED BY <5>2 DEF Busy
      <4>4. CASE ~(m[3] > 0)
        <5>1. AnswerTo(m) = <<>>
          BY <4>2, <4>4, EmptySeq
        <5>2. Answered(m)'
          BY <2>3, <3>2, <3>4, <4>1, <4>4, <5>1 DEF Answered
        <5> QED BY <5>2 DEF Busy
      <4> QED BY <4>3, <4>4
    <3> QED BY <3>2, <3>3, <3>4
  <2>7. CASE pc = "data"
    <3>1. Boot!TakeData
      BY <1>1, <2>7, LoaderCases
    <3>2. Arriving(m)' \/ Executing(m)'
      BY <1>1, <1>2, <3>1, TakesData
    <3> QED BY <2>2, <3>2 DEF Busy
  <2> QED BY <2>1, <2>4, <2>5, <2>6, <2>7
<1>3. CASE Clean /\ Executing(m)
  BY <1>3, ExecutingGoesOn DEF Busy
<1>4. CASE Reading(m)
  BY <1>4, ReadingGoesOn DEF Busy
<1>5. CASE Answered(m)
  BY <1>5, AnsweredGoesOn DEF Busy
<1> QED BY <1>2, <1>3, <1>4, <1>5 DEF Busy

-----------------------------------------------------------------------------
(* The loader catches up, or plays with pokes. *)

(* The message that the tool has sent is on its way. *)
LEMMA CurrentMessage ==
  ASSUME TypeOK, Legal(todo), todo # <<>>
  PROVE  /\ Current = Head(todo) /\ Current = todo[1] /\ Message(Current) /\ Current \in Seq(Nat)
         /\ Len(todo) \in Nat /\ Len(todo) >= 1
<1>1. Len(todo) \in Nat /\ Len(todo) >= 1 /\ Head(todo) = todo[1]
  BY EmptySeq, LenProperties DEF TypeOK
<1>2. Message(todo[1])
  BY <1>1 DEF Legal
<1> QED BY <1>1, <1>2 DEF Current, Message

(* The read of no bytes ends in the main loop. *)
LEMMA LaggingGoesOn ==
  ASSUME TypeOK, Lagging, LoaderStep
  PROVE  pc' = "main" /\ rx' = <<>> /\ UNCHANGED <<line, tx, ser_in>>
<1>1. Boot!TakeLength /\ Head(rx) = 0 /\ Tail(rx) = <<>> /\ console_cmd = Boot!FLASH_READ
  BY LoaderCases DEF Lagging, LoaderStep
<1>2. pc' = "main"
  BY <1>1 DEF Boot!TakeLength, Boot!Goto
<1> QED BY <1>1, <1>2 DEF Boot!TakeLength, Boot!Getc, LoaderStep

(* It takes what the tool sent last. *)
LEMMA TrailingGoesOn ==
  ASSUME TypeOK, NEW m, Message(m), Trailing(m), LoaderStep
  PROVE  /\ host = "wait" => Arriving(m)'
         /\ host # "wait" => pc' = "main" /\ Silent'
         /\ UNCHANGED <<tx, ser_in>>
<1>1. pc' = "main" /\ rx' = <<>> /\ UNCHANGED <<line, tx, ser_in>>
  BY LaggingGoesOn DEF Trailing
<1>2. CASE host = "wait"
  <2>1. line' = Rest(m, 0)
    BY <1>1, <1>2, MessageShape, RestFacts DEF Trailing
  <2>2. Parsed(m, 0)'
    BY <1>1 DEF Parsed
  <2>3. At(m, 0, 0)'
    BY <1>1, <2>1, <2>2 DEF At, Rest
  <2>4. 0 \in 0 .. Len(m) - 1 /\ 0 \in 0 .. Len(m)
    BY MessageShape
  <2> QED BY <1>1, <1>2, <2>3, <2>4 DEF Arriving
<1>3. CASE host # "wait"
  BY <1>1, <1>3 DEF Trailing, Silent
<1> QED BY <1>1, <1>2, <1>3

(* A read of no bytes, and nothing else, is left to the loader. *)
LEMMA DrainingGoesOn ==
  ASSUME TypeOK, Draining, LoaderStep
  PROVE  (Draining' \/ (pc' = "main" /\ Silent')) /\ UNCHANGED <<tx, ser_in>>
<1>1. PICK r \in Reads :
        /\ r[2] = 0
        /\ \/ Arriving(<<Boot!FLASH_READ, r[1], r[2]>>)
           \/ Lagging /\ line = <<Boot!FLASH_READ, r[1], r[2]>>
  BY DEF Draining
<1> DEFINE m == <<Boot!FLASH_READ, r[1], r[2]>>
<1>2. r[1] \in Nat /\ r[2] \in Nat
  BY XipAssumption
<1>3. m \in Seq(Nat) /\ m # <<>> /\ Len(m) = 3 /\ m[1] = Boot!FLASH_READ /\ m[3] = 0
  BY <1>1, <1>2
<1>4. Message(m)
  BY <1>3 DEF Message
<1>5. UNCHANGED <<line, ser_in>> /\ Boot!Loader
  BY DEF LoaderStep
<1> HIDE DEF m
<1>6. CASE Arriving(m)
  <2>1. pc \in {"main", "addr", "len"}
    <3>1. PICK k \in 0 .. Len(m) - 1 : Parsed(m, k)
      BY <1>6 DEF Arriving, At
    <3>2. k < 3 /\ k \in Nat
      BY <1>3, <3>1
    <3> QED BY <1>4, <3>1, <3>2, WhereParsed
  <2>2. CASE pc = "main"
    <3>1. Boot!Command
      BY <1>5, <2>2, LoaderCases
    <3>2. Arriving(m)'
      BY <1>3, <1>4, <1>5, <1>6, <3>1, TakesCommand DEF Fields
    <3> QED BY <1>1, <1>5, <3>1, <3>2 DEF Draining, Boot!Command, m
  <2>3. CASE pc = "addr"
    <3>1. Boot!TakeAddress
      BY <1>5, <2>3, LoaderCases
    <3>2. Arriving(m)'
      BY <1>3, <1>4, <1>5, <1>6, <3>1, TakesAddress
    <3> QED BY <1>1, <1>5, <3>1, <3>2 DEF Draining, Boot!TakeAddress, m
  <2>4. CASE pc = "len"
    <3>1. Boot!TakeLength
      BY <1>5, <2>4, LoaderCases
    <3>2. Silent' /\ pc' = "main"
      BY <1>3, <1>4, <1>5, <1>6, <3>1, TakesLength
    <3> QED BY <1>5, <3>1, <3>2 DEF Boot!TakeLength
  <2> QED BY <2>1, <2>2, <2>3, <2>4
<1>7. CASE Lagging /\ line = m
  <2>1. pc' = "main" /\ rx' = <<>> /\ UNCHANGED <<line, tx, ser_in>>
    BY <1>7, LaggingGoesOn
  <2>2. line' = Rest(m, 0)
    BY <1>3, <1>7, <2>1, RestFacts
  <2>3. Parsed(m, 0)'
    BY <2>1 DEF Parsed
  <2>4. At(m, 0, 0)'
    BY <2>1, <2>2, <2>3 DEF At, Rest
  <2>5. 0 \in 0 .. Len(m) - 1 /\ 0 \in 0 .. Len(m)
    BY <1>3
  <2>6. Arriving(m)'
    BY <2>4, <2>5 DEF Arriving
  <2> QED BY <1>1, <2>1, <2>6 DEF Draining, m
<1> QED BY <1>1, <1>6, <1>7 DEF m

(* Pokes are answered with zeros, until the program is started. *)
LEMMA PokingGoesOn ==
  ASSUME TypeOK, Poking, LoaderStep
  PROVE  Poking' \/ Away'
<1>1. line' = line /\ Boot!Loader /\ rx \in Zeros /\ line \in Zeros /\ tx \in Zeros
  BY DEF LoaderStep, Poking
<1>2. CASE pc = "boot"
  <2>1. CASE Boot!Poked
    BY <1>1, <2>1, ZerosFacts DEF Poking, Boot!Poked, Boot!Putc, Boot!Goto
  <2>2. CASE Boot!AutoBoot
    BY <1>1, <1>2, <2>2 DEF Poking, Away, Boot!AutoBoot, Boot!Goto
  <2> QED BY <1>1, <1>2, <2>1, <2>2, LoaderCases
<1>3. CASE pc = "main"
  <2>1. Boot!Command
    BY <1>1, <1>3, LoaderCases
  <2>2. Head(rx) = Boot!POKE /\ rx' \in Zeros
    BY <1>1, <2>1, ZerosFacts DEF Boot!Command, Boot!Getc
  <2>3. pc' = "reply" /\ console_cmd' = Boot!POKE
    BY <2>1, <2>2 DEF Boot!Command, Boot!Goto, Boot!FirstStep
  <2> QED BY <1>1, <2>1, <2>2, <2>3 DEF Poking, Boot!Command
<1>4. CASE pc = "reply"
  <2>1. Boot!Reply /\ console_cmd = Boot!POKE
    BY <1>1, <1>4, LoaderCases DEF Poking
  <2>2. Boot!Answer = Boot!POKE
    BY <2>1 DEF Boot!Answer
  <2>3. pc' = "main" /\ tx' \in Zeros
    BY <1>1, <2>1, <2>2, ZerosFacts DEF Boot!Reply, Boot!Goto, Boot!Putc
  <2> QED BY <1>1, <2>1, <2>3 DEF Poking, Boot!Reply
<1>5. CASE pc = "reset"
  <2>1. Boot!Jump
    BY <1>1, <1>5, LoaderCases
  <2> QED BY <1>1, <2>1, ZerosFacts DEF Poking, Boot!Jump, Boot!Restart, Boot!Goto
<1> QED BY <1>2, <1>3, <1>4, <1>5 DEF Poking

(* What the tool and the loader do, in every state. *)
LEMMA Occupation ==
  ASSUME IInv
  PROVE  \/ Poking \/ pc = "app" \/ pc = "main" \/ Draining \/ Lagging
         \/ \E m \in Seq(Nat) : Message(m) /\ Busy(m)
<1>1. CASE host = "closed"
  BY <1>1 DEF IInv, Modes, Closed, Away
<1>2. CASE host # "closed" /\ InWindow
  BY <1>2 DEF InWindow, Away
<1>3. CASE host # "closed" /\ Legal(todo) /\ InSync
  <2>1. Sync(Current)
    BY <1>3 DEF InSync
  <2>2. CASE Busy(Current) /\ host = "wait"
    <3>1. todo # <<>>
      BY <2>2 DEF IInv, TypeOK
    <3> QED BY <1>3, <2>2, <3>1, CurrentMessage DEF IInv
  <2> QED BY <2>1, <2>2 DEF Sync, Trailing
<1> QED BY <1>1, <1>2, <1>3 DEF IInv, Modes

(* What the loader relies on where it is. *)
LEMMA Reach ==
  ASSUME IInv
  PROVE  /\ pc = "data" => Len(page) < len /\ len <= PageWords
         /\ pc = "len" => console_cmd \in {Boot!FLASH_WRITE, Boot!FLASH_READ}
         /\ pc \in {"wren", "op", "poll"} => Silent
         /\ pc \in {"wren", "op"} =>
              \/ console_cmd = Boot!ERASE_SECTOR
              \/ data_idx < len /\ page[data_idx + 1] \in Contents
         /\ pc = "read" => data_idx < len
<1>1. CASE Poking \/ pc = "app" \/ pc = "main" \/ Lagging
  BY <1>1 DEF Poking, Lagging
<1>2. ASSUME NEW m, Message(m), Arriving(m)
      PROVE  /\ pc = "data" => Len(page) < len /\ len <= PageWords
             /\ pc = "len" => console_cmd \in {Boot!FLASH_WRITE, Boot!FLASH_READ}
             /\ pc \in {"main", "addr", "len", "data"}
  <2>1. PICK k \in 0 .. Len(m) - 1 : Parsed(m, k)
    BY <1>2 DEF Arriving, At
  <2>2. /\ k \in Nat /\ Len(m) \in Nat /\ m \in Seq(Nat)
        /\ pc = "len" <=> k = 2
        /\ pc = "data" <=> k >= 3
        /\ pc \in {"main", "addr", "len", "data"}
    BY <1>2, <2>1, WhereParsed
  <2>3. CASE pc = "data"
    <3>1. k >= 3 /\ len = m[3] /\ page = SubSeq(m, 4, k) /\ m[1] = Boot!FLASH_WRITE
      BY <2>1, <2>2, <2>3 DEF Parsed
    <3>2. \A i \in 4 .. k : m[i] \in Nat
      BY <1>2, <2>1, <2>2, MessageShape
    <3>3. Len(page) = IF 4 <= k THEN k - 4 + 1 ELSE 0
      BY <2>2, <3>1, <3>2, SubSeqProperties
    <3>4. Len(m) = m[3] + 3 /\ m[3] \in Nat /\ m[3] <= PageWords
      BY <1>2, <3>1, MessageShape
    <3>5. len \in Nat /\ k < len + 3 /\ len <= PageWords
      BY <2>1, <2>2, <3>1, <3>4
    <3>6. Len(page) < len
      BY <2>2, <3>1, <3>3, <3>5
    <3> QED BY <2>3, <3>5, <3>6
  <2>4. CASE pc = "len"
    BY <2>1, <2>2, <2>4 DEF Parsed, Fields
  <2> QED BY <2>2, <2>3, <2>4
<1>3. CASE Draining
  <2>1. PICK r \in Reads :
          r[2] = 0 /\ (Arriving(<<Boot!FLASH_READ, r[1], r[2]>>) \/ Lagging)
    BY <1>3 DEF Draining
  <2> DEFINE m == <<Boot!FLASH_READ, r[1], r[2]>>
  <2>2. r[1] \in Nat /\ r[2] \in Nat
    BY XipAssumption
  <2>3. m \in Seq(Nat) /\ m # <<>>
    BY <2>2
  <2>4. Message(m)
    BY <2>3 DEF Message
  <2> QED BY <1>1, <1>2, <2>1, <2>4
<1>4. ASSUME NEW m \in Seq(Nat), Message(m), Busy(m)
      PROVE  /\ pc = "data" => Len(page) < len /\ len <= PageWords
             /\ pc = "len" => console_cmd \in {Boot!FLASH_WRITE, Boot!FLASH_READ}
             /\ pc \in {"wren", "op", "poll"} => Silent
             /\ pc \in {"wren", "op"} =>
                  \/ console_cmd = Boot!ERASE_SECTOR
                  \/ data_idx < len /\ page[data_idx + 1] \in Contents
             /\ pc = "read" => data_idx < len
  <2>1. CASE Arriving(m)
    BY <1>2, <1>4, <2>1
  <2>2. CASE Executing(m)
    <3>1. CASE pc \in {"wren", "op"} /\ console_cmd # Boot!ERASE_SECTOR
      <4>1. /\ m[1] = Boot!FLASH_WRITE /\ len = m[3] /\ page = SubSeq(m, 4, Len(m))
            /\ data_idx < len /\ Silent
        BY <2>2, <3>1 DEF Executing
      <4>2. Len(m) = m[3] + 3 /\ m[3] \in Nat /\ \A i \in 4 .. Len(m) : m[i] \in Contents
        BY <1>4, <4>1, MessageShape
      <4>3. data_idx \in Nat
        BY DEF IInv, TypeOK, Boot!TypeOK
      <4>4. len \in Nat /\ Len(m) = len + 3 /\ data_idx < len
        BY <4>1, <4>2
      <4>5. \A j \in 1 .. Len(m) - 4 + 1 : SubSeq(m, 4, Len(m))[j] = m[4 + j - 1]
        BY <4>2, <4>4, SubSeqProperties
      <4> DEFINE i == data_idx + 1
      <4>6. i \in 1 .. len + 3 - 4 + 1 /\ 4 + i - 1 \in 4 .. len + 3
        BY <4>3, <4>4
      <4> HIDE DEF i
      <4>7. page[data_idx + 1] \in Contents
        <5>1. page[i] = m[4 + i - 1]
          BY <4>1, <4>4, <4>5, <4>6
        <5> QED BY <4>2, <4>4, <4>6, <5>1 DEF i
      <4> QED BY <3>1, <4>1, <4>7
    <3> QED BY <2>2, <3>1 DEF Executing
  <2>3. CASE Reading(m)
    BY <2>3 DEF Reading
  <2>4. CASE Answered(m)
    <3>1. pc \in {"app", "reset", "boot", "main"}
      BY <2>4 DEF Answered
    <3> QED BY <3>1
  <2> QED BY <1>4, <2>1, <2>2, <2>3, <2>4 DEF Busy
<1> QED BY <1>1, <1>3, <1>4, Occupation

-----------------------------------------------------------------------------
(* The steps of the loader. *)

(* The registers of the loader. *)
LEMMA LoaderTypes ==
  ASSUME IInv, LoaderStep
  PROVE  TypeOK'
<1>1. /\ TypeOK /\ Boot!TypeOK /\ Boot!Loader /\ Len(page) <= PageWords
      /\ UNCHANGED <<line, ser_in, host, todo, window, before>>
  BY DEF IInv, TypeOK, LoaderStep, hostVars
<1>2. /\ flash \in [Boot!Spi!Address -> Contents] /\ wel \in BOOLEAN /\ wip \in BOOLEAN
      /\ rx \in Seq(Nat) /\ Len(rx) <= RxDepth /\ tx \in Seq(Nat) /\ Len(tx) <= TxDepth
      /\ console_cmd \in Nat /\ addr \in Nat /\ len \in Nat /\ data_idx \in Nat
      /\ page \in Seq(Nat) /\ Len(page) <= len /\ data_idx <= len
      /\ Len(page) <= PageWords
  BY <1>1 DEF Boot!TypeOK, Boot!Spi!TypeOK
<1>3. /\ RxDepth \in Nat \ {0} /\ TxDepth \in Nat \ {0} /\ PageWords \in Nat \ {0}
      /\ Contents \subseteq Nat /\ Erased \in Contents /\ Garbled \in Contents
      /\ Boot!Spi!Size \in Nat \ {0}
  BY XipAssumption DEF Boot!Spi!Size
<1> DEFINE Rx == rx' \in Seq(Nat) /\ Len(rx') <= RxDepth
           Tx == tx' \in Seq(Nat) /\ Len(tx') <= TxDepth
           Pc == pc' \in {"boot", "main", "addr", "len", "data", "wren", "op", "poll", "read",
                          "reply", "reset", "app"}
           Fl == flash' \in [Boot!Spi!Address -> Contents] /\ wel' \in BOOLEAN /\ wip' \in BOOLEAN
           Re == /\ console_cmd' \in Nat /\ addr' \in Nat /\ len' \in Nat /\ data_idx' \in Nat
                 /\ page' \in Seq(Nat) /\ Len(page') <= len' /\ data_idx' <= len'
                 /\ Len(page') <= PageWords
<1>4. ASSUME Boot!Getc PROVE Rx /\ Head(rx) \in Nat
  <2>1. Head(rx) \in Nat /\ Tail(rx) \in Seq(Nat) /\ Len(Tail(rx)) = Len(rx) - 1 /\ Len(rx) \in Nat
    BY <1>2, <1>4, HeadTailProperties, LenProperties DEF Boot!Getc
  <2> QED BY <1>2, <1>3, <1>4, <2>1 DEF Boot!Getc
<1>5. ASSUME NEW v \in Nat, Boot!Putc(v) PROVE Tx
  <2>1. Append(tx, v) \in Seq(Nat) /\ Len(Append(tx, v)) = Len(tx) + 1 /\ Len(tx) \in Nat
    BY <1>2, AppendProperties, LenProperties
  <2> QED BY <1>3, <1>5, <2>1 DEF Boot!Putc
<1>6. UNCHANGED flashVars => Fl
  BY <1>2 DEF flashVars
<1>7. UNCHANGED Boot!flashVars => Fl
  BY <1>2 DEF Boot!flashVars
<1>8. UNCHANGED <<console_cmd, addr, len, page, data_idx>> => Re
  BY <1>2
<1>9. Boot!Forget => Re
  <2>1. <<>> \in Seq(Nat) /\ Len(<<>>) = 0
    BY EmptySeq
  <2> QED BY <2>1, <1>3 DEF Boot!Forget
<1>10. rx' = rx => Rx
  BY <1>2
<1>11. tx' = tx => Tx
  BY <1>2
<1> HIDE DEF Rx, Tx, Pc, Fl, Re
<1>12. /\ pc = "len" => console_cmd \in {Boot!FLASH_WRITE, Boot!FLASH_READ}
       /\ pc = "data" => Len(page) < len /\ len <= PageWords
       /\ pc = "op" => \/ console_cmd = Boot!ERASE_SECTOR
                       \/ data_idx < len /\ page[data_idx + 1] \in Contents
       /\ pc = "read" => data_idx < len
  BY Reach
<1>13. Rx /\ Tx /\ Pc /\ Fl /\ Re
  <2>1. CASE Boot!Poked
    BY <2>1, <1>5, <1>7, <1>8, <1>10 DEF Boot!Poked, Boot!Goto, Pc
  <2>2. CASE Boot!AutoBoot
    BY <2>2, <1>7, <1>8, <1>10, <1>11 DEF Boot!AutoBoot, Boot!Goto, Pc
  <2>3. CASE Boot!Command
    <3>1. Re
      BY <2>3, <1>2, <1>4 DEF Boot!Command, Re
    <3>2. Pc
      BY <2>3 DEF Boot!Command, Boot!Goto, Boot!FirstStep, Pc
    <3> QED BY <2>3, <3>1, <3>2, <1>4, <1>7, <1>11 DEF Boot!Command
  <2>4. CASE Boot!TakeAddress
    <3>1. Re
      BY <2>4, <1>2, <1>4 DEF Boot!TakeAddress, Re
    <3>2. Pc
      BY <2>4 DEF Boot!TakeAddress, Boot!Goto, Pc
    <3> QED BY <2>4, <3>1, <3>2, <1>4, <1>7, <1>11 DEF Boot!TakeAddress
  <2>5. CASE Boot!TakeLength
    <3>1. Re
      <4>1. <<>> \in Seq(Nat) /\ Len(<<>>) = 0
        BY EmptySeq
      <4> QED BY <2>5, <4>1, <1>2, <1>3, <1>4 DEF Boot!TakeLength, Re
    <3>2. Pc
      BY <2>5, <1>12 DEF Boot!TakeLength, Boot!Goto, Pc
    <3> QED BY <2>5, <3>1, <3>2, <1>4, <1>7, <1>11 DEF Boot!TakeLength
  <2>6. CASE Boot!TakeData
    <3>1. /\ Head(rx) \in Nat /\ page' = Append(page, Head(rx))
          /\ Len(page) < len /\ len <= PageWords
      BY <2>6, <1>4, <1>12 DEF Boot!TakeData
    <3>2. page' \in Seq(Nat) /\ Len(page') = Len(page) + 1 /\ Len(page) \in Nat
      BY <3>1, <1>2, AppendProperties, LenProperties
    <3>3. Re
      BY <2>6, <3>1, <3>2, <1>2, <1>3 DEF Boot!TakeData, Re
    <3>4. Pc
      BY <2>6 DEF Boot!TakeData, Boot!Goto, Pc
    <3> QED BY <2>6, <3>3, <3>4, <1>4, <1>7, <1>11 DEF Boot!TakeData
  <2>7. CASE Boot!Wren
    <3>1. Fl
      <4>1. (wel \/ ~wip) \in BOOLEAN
        BY <1>2, Zenon
      <4> QED BY <2>7, <1>2, <4>1 DEF Boot!Wren, Boot!Spi!WriteEnable, Fl
    <3> QED BY <2>7, <3>1, <1>8, <1>10, <1>11 DEF Boot!Wren, Boot!Goto, Pc
  <2>8. CASE Boot!Operate
    <3>1. ASSUME NEW f \in [Boot!Spi!Address -> Contents], Boot!Spi!Modify(f) PROVE Fl
      BY <3>1, <1>2, <1>7 DEF Boot!Spi!Modify, Boot!Spi!flashVars, Boot!flashVars, Fl
    <3>2. CASE console_cmd = Boot!ERASE_SECTOR
      <4>1. Boot!Spi!EraseAt(flash, addr) \in [Boot!Spi!Address -> Contents]
        BY <1>2, <1>3 DEF Boot!Spi!EraseAt
      <4>2. Fl
        BY <2>8, <3>1, <3>2, <4>1 DEF Boot!Operate, Boot!Spi!Erase
      <4>3. Re
        BY <2>8, <3>2, <1>8 DEF Boot!Operate
      <4> QED BY <2>8, <4>2, <4>3, <1>10, <1>11
              DEF Boot!Operate, Boot!Goto, Boot!AfterOperation, Pc
    <3>3. CASE console_cmd # Boot!ERASE_SECTOR
      <4>1. data_idx < len /\ page[data_idx + 1] \in Contents
        BY <2>8, <3>3, <1>12 DEF Boot!Operate
      <4>2. Boot!Spi!ProgramAt(flash, addr + data_idx, page[data_idx + 1])
              \in [Boot!Spi!Address -> Contents]
        BY <4>1, <1>2, <1>3 DEF Boot!Spi!ProgramAt
      <4>3. Fl
        BY <2>8, <3>1, <3>3, <4>2 DEF Boot!Operate, Boot!Spi!Program
      <4>4. Re
        BY <2>8, <3>3, <4>1, <1>2 DEF Boot!Operate, Re
      <4> QED BY <2>8, <4>3, <4>4, <1>10, <1>11
              DEF Boot!Operate, Boot!Goto, Boot!AfterOperation, Pc
    <3> QED BY <3>2, <3>3
  <2>9. CASE Boot!Poll
    BY <2>9, <1>7, <1>8, <1>10, <1>11 DEF Boot!Poll, Boot!Goto, Boot!NextWord, Pc
  <2>10. CASE Boot!ReadAndSend
    <3>1. PICK v \in Boot!Spi!Read(addr + data_idx) : Boot!Putc(v)
      BY <2>10 DEF Boot!ReadAndSend
    <3>2. v \in Contents
      <4>1. (addr + data_idx) % Boot!Spi!Size \in Boot!Spi!Address
        BY <1>2, <1>3 DEF Boot!Spi!Address
      <4> QED BY <3>1, <4>1, <1>2 DEF Boot!Spi!Read
    <3>3. Tx
      BY <3>1, <3>2, <1>3, <1>5
    <3>4. Re
      BY <2>10, <1>2, <1>9 DEF Boot!ReadAndSend, Re
    <3>5. Pc
      BY <2>10 DEF Boot!ReadAndSend, Boot!Goto, Pc
    <3> QED BY <2>10, <3>3, <3>4, <3>5, <1>7, <1>10 DEF Boot!ReadAndSend
  <2>11. CASE Boot!Reply
    <3>1. Boot!Answer \in Nat
      BY <1>2 DEF Boot!Answer, Boot!Spi!Status
    <3>2. Tx
      BY <2>11, <3>1, <1>5 DEF Boot!Reply
    <3>3. Pc
      BY <2>11 DEF Boot!Reply, Boot!Goto, Pc
    <3> QED BY <2>11, <3>2, <3>3, <1>7, <1>9, <1>10 DEF Boot!Reply
  <2>12. CASE Boot!Jump
    <3>1. <<>> \in Seq(Nat) /\ Len(<<>>) = 0
      BY EmptySeq
    <3>2. Rx /\ Tx
      BY <2>12, <3>1, <1>3 DEF Boot!Jump, Boot!Restart, Rx, Tx
    <3> QED BY <2>12, <3>2, <1>7, <1>9 DEF Boot!Jump, Boot!Restart, Boot!Goto, Pc
  <2> QED BY <1>1, <2>1, <2>2, <2>3, <2>4, <2>5, <2>6, <2>7, <2>8, <2>9, <2>10, <2>11, <2>12
          DEF Boot!Loader
<1>14. Boot!TypeOK' /\ Len(page') <= PageWords
  BY <1>13 DEF Boot!TypeOK, Boot!Spi!TypeOK, Boot!Listening, Rx, Tx, Pc, Fl, Re
<1>15. Spi!Address' = Spi!Address
  BY DEF Spi!Address, Spi!Size
<1> QED BY <1>1, <1>14, <1>15 DEF TypeOK

(* The latch and the busy bit. *)
LEMMA LoaderLatch ==
  ASSUME IInv, LoaderStep
  PROVE  Latch'
<1>1. Latch /\ Boot!Loader /\ wel \in BOOLEAN /\ wip \in BOOLEAN
  BY DEF IInv, TypeOK, Boot!TypeOK, Boot!Spi!TypeOK, LoaderStep
<1>2. CASE pc = "wren"
  <2>1. ~wip /\ wip' = wip /\ pc' = "op" /\ wel' = (wel \/ ~wip)
    BY <1>1, <1>2, LoaderCases DEF Latch, Boot!Wren, Boot!Goto, Boot!Spi!WriteEnable
  <2>2. wel' /\ ~wip'
    BY <2>1, Zenon
  <2> QED BY <2>1, <2>2 DEF Latch
<1>3. CASE pc = "op"
  BY <1>1, <1>3, LoaderCases
     DEF Latch, Boot!Operate, Boot!Goto, Boot!AfterOperation, Boot!Spi!Erase, Boot!Spi!Program,
         Boot!Spi!Modify
<1>4. CASE pc = "poll"
  BY <1>1, <1>4, LoaderCases
     DEF Latch, Boot!Poll, Boot!Goto, Boot!NextWord, Boot!flashVars
<1>5. CASE pc \notin {"wren", "op", "poll"}
  <2>1. UNCHANGED Boot!flashVars
    BY <1>1, <1>5, LoaderCases
       DEF Boot!Poked, Boot!AutoBoot, Boot!Command, Boot!TakeAddress, Boot!TakeLength,
           Boot!TakeData, Boot!ReadAndSend, Boot!Reply, Boot!Jump
  <2>2. pc' # "op"
    <3>1. CASE pc \in {"boot", "main", "addr", "len", "data"}
      BY <1>1, <3>1, LoaderCases, Reach
         DEF Boot!Goto, Boot!Poked, Boot!AutoBoot, Boot!Command, Boot!FirstStep,
             Boot!TakeAddress, Boot!TakeLength, Boot!TakeData
    <3>2. CASE pc \in {"read", "reply", "reset"}
      BY <1>1, <3>2, LoaderCases
         DEF Boot!Goto, Boot!ReadAndSend, Boot!Reply, Boot!Jump, Boot!Restart
    <3> QED BY <1>1, <1>5, <3>1, <3>2, LoaderCases
  <2>3. ~wip /\ ~wel
    BY <1>1, <1>5 DEF Latch
  <2> QED BY <2>1, <2>2, <2>3 DEF Latch, Boot!flashVars
<1> QED BY <1>2, <1>3, <1>4, <1>5

(* The loader and the tool stay together. *)
LEMMA LoaderModes ==
  ASSUME IInv, LoaderStep
  PROVE  Modes'
<1>1. /\ TypeOK /\ Latch /\ Modes /\ Boot!Loader
      /\ UNCHANGED <<line, ser_in, host, todo, window, before>>
  BY DEF IInv, LoaderStep, hostVars
<1>2. Current' = Current /\ Legal(todo)' = Legal(todo)
  BY <1>1 DEF Current
<1>3. ~Away
  BY <1>1, LoaderCases DEF Away
<1>4. CASE host = "closed"
  <2>1. Closed
    BY <1>1, <1>4 DEF Modes
  <2>2. ASSUME Poking PROVE Closed'
    BY <1>1, <2>2, PokingGoesOn DEF Closed
  <2>3. ASSUME Draining, tx = <<>> PROVE Closed'
    <3>1. (Draining' \/ (pc' = "main" /\ Silent')) /\ tx' = <<>>
      BY <1>1, <2>3, DrainingGoesOn
    <3>2. pc' = "main" /\ Silent' => Poking'
      BY <3>1, ZerosFacts DEF Poking, Silent
    <3> QED BY <3>1, <3>2 DEF Closed
  <2>4. Closed'
    BY <1>3, <2>1, <2>2, <2>3 DEF Closed
  <2> QED BY <1>1, <1>4, <2>4 DEF Modes
<1>5. CASE host # "closed" /\ InWindow
  <2>1. Poking' \/ Away'
    BY <1>1, <1>3, <1>5, PokingGoesOn DEF InWindow
  <2>2. InWindow'
    BY <1>1, <1>5, <2>1 DEF InWindow
  <2> QED BY <1>1, <1>2, <1>5, <2>2 DEF Modes
<1>6. CASE host # "closed" /\ InSync
  <2>1. Sync(Current) /\ (Resetting \/ Working)
    BY <1>6 DEF InSync
  <2>2. Resetting' \/ Working'
    BY <1>1, <2>1 DEF Resetting, Working
  <2>3. host \in {"send", "wait"} => Message(Current)
    <3>1. host \in {"send", "wait"} => todo # <<>>
      BY <1>1 DEF TypeOK
    <3> QED BY <1>1, <1>6, <3>1, CurrentMessage DEF Modes
  <2>4. PICK c \in {Current} : Sync(c) /\ (host \in {"send", "wait"} => Message(c))
    BY <2>1, <2>3
  <2>5. pc # "app" /\ ~(pc = "main" /\ Silent)
    BY <1>1, LoaderCases DEF Silent, Boot!Command, Boot!Getc
  <2>6. ASSUME Clean /\ Draining /\ host = "prompt" PROVE Sync(c)'
    <3>1. (Draining' \/ (pc' = "main" /\ Silent')) /\ UNCHANGED <<tx, ser_in>>
      BY <1>1, <2>6, DrainingGoesOn
    <3> QED BY <1>1, <2>6, <3>1 DEF Sync, Clean
  <2>7. ASSUME Clean /\ Trailing(c) /\ host \in {"send", "wait"} PROVE Sync(c)'
    <3>1. /\ host = "wait" => Arriving(c)'
          /\ host # "wait" => pc' = "main" /\ Silent'
          /\ UNCHANGED <<tx, ser_in>>
      BY <1>1, <2>4, <2>7, TrailingGoesOn
    <3> QED BY <1>1, <2>7, <3>1 DEF Sync, Busy, Clean
  <2>8. ASSUME Busy(c) /\ host = "wait" PROVE Sync(c)'
    <3>1. Busy(c)'
      BY <1>1, <2>4, <2>8, BusyGoesOn
    <3> QED BY <1>1, <2>8, <3>1 DEF Sync
  <2>9. Sync(c)'
    BY <2>4, <2>5, <2>6, <2>7, <2>8 DEF Sync
  <2>10. InSync'
    BY <1>2, <2>2, <2>4, <2>9 DEF InSync
  <2> QED BY <1>1, <1>2, <1>6, <2>10 DEF Modes
<1> QED BY <1>1, <1>4, <1>5, <1>6 DEF Modes

-----------------------------------------------------------------------------
(* Quotients and remainders. *)

(* What quotient and remainder are. *)
LEMMA Division ==
  ASSUME NEW x \in Nat, NEW b \in Nat \ {0}
  PROVE  /\ x \div b \in Nat /\ x % b \in 0 .. b - 1
         /\ x = b * (x \div b) + (x % b)
<1>1. x \div b \in Nat
  OBVIOUS
<1>2. x % b \in 0 .. b - 1
  OBVIOUS
<1>3. x = b * (x \div b) + (x % b)
  OBVIOUS
<1> QED BY <1>1, <1>2, <1>3

(* A larger factor gives a larger product, by at least the other factor. *)
LEMMA Multiples ==
  ASSUME NEW b \in Nat, NEW p \in Nat, NEW q \in Nat
  PROVE  /\ p <= q => b * p <= b * q
         /\ p < q => b * p + b <= b * q
         /\ b * p \in Nat /\ p * b = b * p
         /\ b * (p + q) = b * p + b * q /\ (p + q) * b = p * b + q * b
OBVIOUS

(* There is only one quotient and one remainder. *)
LEMMA DivisionUnique ==
  ASSUME NEW b \in Nat \ {0}, NEW q \in Nat, NEW r \in 0 .. b - 1, NEW x \in Nat, x = b * q + r
  PROVE  x \div b = q /\ x % b = r
<1> DEFINE p == x \div b
           s == x % b
<1>1. p \in Nat /\ s \in 0 .. b - 1 /\ x = b * p + s
  BY Division
<1> HIDE DEF p, s
<1>2. ~(p < q) /\ ~(q < p)
  BY <1>1, Multiples
<1>3. p = q
  BY <1>1, <1>2
<1>4. b * p \in Nat /\ b * q \in Nat
  BY <1>1, Multiples
<1>5. r = s
  BY <1>1, <1>3, <1>4
<1> QED BY <1>3, <1>5 DEF p, s

(* Quotients grow. *)
LEMMA DivisionMonotone ==
  ASSUME NEW b \in Nat \ {0}, NEW x \in Nat, NEW y \in Nat, x <= y
  PROVE  x \div b <= y \div b
<1> DEFINE p == x \div b
           q == y \div b
<1>1. /\ p \in Nat /\ x % b \in 0 .. b - 1 /\ x = b * p + (x % b)
      /\ q \in Nat /\ y % b \in 0 .. b - 1 /\ y = b * q + (y % b)
  BY Division
<1> HIDE DEF p, q
<1>2. ~(q < p)
  <2>1. q < p => b * q + b <= b * p
    BY <1>1, Multiples
  <2>2. b * q \in Nat /\ b * p \in Nat
    BY <1>1, Multiples
  <2> DEFINE u == b * q
             v == b * p
  <2>3. /\ q < p => u + b <= v
        /\ u \in Nat /\ v \in Nat
        /\ x % b \in 0 .. b - 1 /\ x = v + (x % b)
        /\ y % b \in 0 .. b - 1 /\ y = u + (y % b)
    BY <1>1, <2>1, <2>2
  <2> HIDE DEF u, v
  <2> QED BY ONLY <2>3, b \in Nat, x <= y
<1>3. p <= q
  BY <1>1, <1>2
<1> QED BY <1>3 DEF p, q

(* The address of sector s, when sectors wrap. *)
LEMMA SectorWraps ==
  ASSUME NEW s \in Nat
  PROVE  /\ Spi!SectorOf(s * SectorWords) = s % Sectors
         /\ s * SectorWords \in Nat
<1>1. SectorWords \in Nat \ {0} /\ Sectors \in Nat \ {0}
  BY XipAssumption
<1> DEFINE q == s \div Sectors
           r == s % Sectors
<1>2. q \in Nat /\ r \in 0 .. Sectors - 1 /\ s = Sectors * q + r
  BY <1>1, Division
<1> HIDE DEF q, r
<1>3. /\ s * SectorWords = Sectors * SectorWords * q + r * SectorWords
      /\ s * SectorWords \in Nat /\ r * SectorWords \in Nat
      /\ Sectors * SectorWords \in Nat \ {0}
  BY <1>1, <1>2
<1>4. r * SectorWords \in 0 .. Sectors * SectorWords - 1
  <2>1. SectorWords * r + SectorWords <= SectorWords * Sectors
    BY <1>1, <1>2, Multiples
  <2>2. r * SectorWords = SectorWords * r /\ Sectors * SectorWords = SectorWords * Sectors
    BY <1>1, <1>2, Multiples
  <2> QED BY <1>1, <1>3, <2>1, <2>2
<1>5. (s * SectorWords) % (Sectors * SectorWords) = r * SectorWords
  BY <1>2, <1>3, <1>4, DivisionUnique
<1>6. (r * SectorWords) \div SectorWords = r
  <2>1. r * SectorWords = SectorWords * r + 0 /\ 0 \in 0 .. SectorWords - 1
    BY <1>1, <1>2
  <2> QED BY <1>1, <1>2, <1>3, <2>1, DivisionUnique
<1> QED BY <1>3, <1>5, <1>6 DEF Spi!SectorOf, Spi!Size, r

(* Addresses of the flash need no wrapping, and their sectors exist. *)
LEMMA AddressSector ==
  ASSUME NEW b \in Spi!Address
  PROVE  /\ b \in Nat /\ b % Spi!Size = b
         /\ Spi!SectorOf(b) = b \div SectorWords
         /\ b \div SectorWords \in 0 .. Sectors - 1
         /\ (b \div SectorWords) % Sectors = b \div SectorWords
<1>1. SectorWords \in Nat \ {0} /\ Sectors \in Nat \ {0} /\ Spi!Size \in Nat \ {0}
  BY XipAssumption DEF Spi!Size
<1>2. b \in Nat /\ b \in 0 .. Spi!Size - 1
  BY <1>1 DEF Spi!Address
<1>3. b % Spi!Size = b
  <2>1. b = Spi!Size * 0 + b /\ 0 \in Nat
    BY <1>1, <1>2
  <2> QED BY <1>1, <1>2, <2>1, DivisionUnique
<1> DEFINE p == b \div SectorWords
<1>4. p \in Nat /\ b % SectorWords \in 0 .. SectorWords - 1
        /\ b = SectorWords * p + (b % SectorWords)
  BY <1>1, <1>2, Division
<1> HIDE DEF p
<1>5. p < Sectors
  <2>1. Sectors <= p => SectorWords * Sectors <= SectorWords * p
    BY <1>1, <1>4, Multiples
  <2>2. SectorWords * Sectors = Spi!Size /\ SectorWords * p \in Nat
    BY <1>1, <1>4, Multiples DEF Spi!Size
  <2> DEFINE u == SectorWords * p
  <2>3. u \in Nat /\ b = u + (b % SectorWords) /\ (Sectors <= p => Spi!Size <= u)
    BY <1>1, <1>4, <2>1, <2>2
  <2> HIDE DEF u
  <2>4. ~(Sectors <= p)
    BY ONLY <1>1, <1>2, <1>4, <2>3
  <2> QED BY <1>1, <1>4, <2>4
<1>6. p \in 0 .. Sectors - 1
  BY <1>1, <1>4, <1>5
<1>7. p % Sectors = p
  <2>1. p = Sectors * 0 + p /\ 0 \in Nat
    BY <1>1, <1>4
  <2> QED BY <1>1, <1>6, <2>1, DivisionUnique
<1> QED BY <1>2, <1>3, <1>6, <1>7 DEF p, Spi!SectorOf

-----------------------------------------------------------------------------
(* What the messages of a file do to the flash. *)

(* The flash m after the first k sectors from that of a have been erased,  *)
(* and after w words of file f have been programmed, too.                  *)
ErasedFrom(m, a, k) ==
  [b \in Spi!Address |->
     IF \E j \in 0 .. k - 1 : b \div SectorWords = (a \div SectorWords + j) % Sectors
     THEN Erased ELSE m[b]]

Written(m, a, f, w) ==
  [b \in Spi!Address |->
     CASE b \in a .. a + w - 1 -> f[b - a + 1]
       [] b \notin a .. a + w - 1 /\ Service!SectorOf(b) \in Service!Cleared(a, f) -> Erased
       [] OTHER -> m[b]]

(* The sectors that writing f at a erases. *)
Erases(a, f) == StopSector(a, f) + 1 - a \div SectorWords

(* The flash when i messages of writing f at a have been carried out, and  *)
(* x sectors or words of the next.                                         *)
Stage(m, a, f, i, x) ==
  IF i < Erases(a, f) THEN ErasedFrom(m, a, i + x)
  ELSE Written(m, a, f, (i - Erases(a, f)) * PageWords + x)

(* The sectors or words that message m is about. *)
Units(m) == IF m[1] = Boot!ERASE_SECTOR THEN 1 ELSE m[3]

(* The messages of writing file f at a. *)
FileMessages(a, f) == EraseMessages(a, f) \o PageMessages(a, f)

(* The words in a page message. *)
Payload(m) == SubSeq(m, 4, Len(m))

(* The last page of a file. *)
LastPage(f) == Len(f) \div PageWords

(* Where page p of a file begins, and the message with it. *)
PageStart(p) == p * PageWords
PageMessage(a, f, p) == PageMessages(a, f)[p + 1]

(* The sectors of a file. *)
LEMMA FileSectors ==
  ASSUME NEW a \in Nat, NEW f \in Files
  PROVE  /\ Len(f) \in Nat /\ a \div SectorWords \in Nat /\ StopSector(a, f) \in Nat
         /\ a \div SectorWords <= StopSector(a, f)
         /\ Erases(a, f) \in Nat \ {0}
         /\ a \div SectorWords + Erases(a, f) = StopSector(a, f) + 1
<1>1. Len(f) \in Nat /\ SectorWords \in Nat \ {0}
  BY XipAssumption, LenProperties
<1> DEFINE start == a \div SectorWords
           stop == (a + Len(f)) \div SectorWords
<1>2. start \in Nat /\ stop \in Nat
  BY <1>1, QuotientIsNatural
<1>3. start <= stop
  BY <1>1, DivisionMonotone
<1>4. StopSector(a, f) = stop /\ Erases(a, f) = stop + 1 - start
  BY DEF StopSector, Erases
<1> HIDE DEF start, stop
<1>5. stop + 1 - start \in Nat \ {0} /\ start + (stop + 1 - start) = stop + 1
  BY <1>2, <1>3
<1> QED BY <1>1, <1>2, <1>3, <1>4, <1>5 DEF start

(* Before anything is carried out, the flash is as it was. *)
LEMMA NothingErased ==
  ASSUME NEW m \in [Spi!Address -> Contents], NEW a \in Nat
  PROVE  ErasedFrom(m, a, 0) = m
<1>1. 0 .. 0 - 1 = {}
  OBVIOUS
<1> QED BY <1>1 DEF ErasedFrom

(* Each erase command of the tool clears one sector more. *)
LEMMA OneSectorMore ==
  ASSUME NEW m, NEW a \in Nat, NEW k \in Nat
  PROVE  Spi!EraseAt(ErasedFrom(m, a, k), (a \div SectorWords + k) * SectorWords)
           = ErasedFrom(m, a, k + 1)
<1> DEFINE start == a \div SectorWords
           x == (start + k) * SectorWords
           sector(j) == (start + j) % Sectors
<1>1. start \in Nat /\ start + k \in Nat
  <2>1. SectorWords \in Nat \ {0}
    BY XipAssumption
  <2>2. start \in Nat
    BY <2>1, QuotientIsNatural
  <2> HIDE DEF start
  <2> QED BY <2>2
<1>2. Spi!SectorOf(x) = sector(k)
  BY <1>1, SectorWraps
<1> HIDE DEF x, start
<1>3. ASSUME NEW b \in Spi!Address
      PROVE  /\ Spi!SectorOf(b) = b \div SectorWords
             /\ (\E j \in 0 .. k + 1 - 1 : b \div SectorWords = sector(j))
                 <=> \/ b \div SectorWords = sector(k)
                     \/ \E j \in 0 .. k - 1 : b \div SectorWords = sector(j)
  <2>1. 0 .. k + 1 - 1 = (0 .. k - 1) \cup {k}
    OBVIOUS
  <2> HIDE DEF sector
  <2> QED BY <2>1, AddressSector
<1>4. Spi!EraseAt(ErasedFrom(m, a, k), x) =
        [b \in Spi!Address |-> IF Spi!SectorOf(b) = sector(k) THEN Erased
                               ELSE ErasedFrom(m, a, k)[b]]
  BY <1>2 DEF Spi!EraseAt
<1>5. ASSUME NEW b \in Spi!Address, NEW n \in Nat
      PROVE  ErasedFrom(m, a, n)[b] =
               IF \E j \in 0 .. n - 1 : b \div SectorWords = sector(j) THEN Erased ELSE m[b]
  BY DEF ErasedFrom, start
<1>6. ErasedFrom(m, a, k + 1) = [b \in Spi!Address |-> ErasedFrom(m, a, k + 1)[b]]
  BY DEF ErasedFrom
<1> HIDE DEF sector
<1>7. ASSUME NEW b \in Spi!Address
      PROVE  (IF Spi!SectorOf(b) = sector(k) THEN Erased ELSE ErasedFrom(m, a, k)[b])
               = ErasedFrom(m, a, k + 1)[b]
  <2>1. k + 1 \in Nat
    OBVIOUS
  <2> QED BY <1>3, <1>5, <2>1
<1> QED BY <1>4, <1>6, <1>7 DEF x, start

(* The sectors that are erased are those that the file needs. *)
LEMMA AllErased ==
  ASSUME NEW m, NEW a \in Nat, NEW f \in Files
  PROVE  ErasedFrom(m, a, Erases(a, f)) = Written(m, a, f, 0)
<1> DEFINE start == a \div SectorWords
           n == Erases(a, f)
           stop == StopSector(a, f)
<1>1. /\ start \in Nat /\ stop \in Nat /\ n \in Nat \ {0} /\ start + n = stop + 1
      /\ start <= stop
  BY FileSectors
<1>2. Service!Cleared(a, f) = {s % Sectors : s \in start .. stop}
  BY DEF Service!Cleared, Service!SectorOf, StopSector
<1> HIDE DEF start, stop, n
<1>3. ASSUME NEW b \in Spi!Address
      PROVE  /\ (\E j \in 0 .. n - 1 : b \div SectorWords = (start + j) % Sectors)
                 <=> b \div SectorWords \in Service!Cleared(a, f)
             /\ b \notin a .. a + 0 - 1
  <2>1. ASSUME NEW j \in 0 .. n - 1 PROVE start + j \in start .. stop
    BY <1>1
  <2>2. ASSUME NEW s \in start .. stop PROVE s - start \in 0 .. n - 1 /\ start + (s - start) = s
    BY <1>1
  <2>3. a .. a + 0 - 1 = {}
    OBVIOUS
  <2> QED BY <1>2, <2>1, <2>2, <2>3
<1>4. ASSUME NEW b \in Spi!Address
      PROVE  (IF \E j \in 0 .. n - 1 : b \div SectorWords = (start + j) % Sectors
              THEN Erased ELSE m[b])
             = (CASE b \in a .. a + 0 - 1 -> f[b - a + 1]
                  [] b \notin a .. a + 0 - 1 /\ Service!SectorOf(b) \in Service!Cleared(a, f)
                       -> Erased
                  [] OTHER -> m[b])
  BY <1>3 DEF Service!SectorOf
<1> QED BY <1>4 DEF ErasedFrom, Written, start, n

(* Programming the next word of a file goes to a word that is erased. *)
LEMMA OneWordMore ==
  ASSUME NEW m, NEW a \in Nat, NEW f \in Files, Fits(a, f), NEW w \in Nat, w < Len(f)
  PROVE  Spi!ProgramAt(Written(m, a, f, w), a + w, f[w + 1]) = Written(m, a, f, w + 1)
<1> DEFINE x == a + w
           old == Written(m, a, f, w)
<1>1. /\ Len(f) \in Nat /\ x \in Nat /\ x < a + Len(f) /\ a + Len(f) <= Spi!Size
      /\ Spi!Size \in Nat \ {0} /\ SectorWords \in Nat \ {0} /\ Sectors \in Nat \ {0}
  <2>1. Len(f) \in Nat /\ x \in Nat
    BY FileSectors
  <2>2. SectorWords \in Nat \ {0} /\ Sectors \in Nat \ {0}
    BY XipAssumption
  <2>3. Spi!Size \in Nat \ {0}
    BY <2>2 DEF Spi!Size
  <2>4. a + Len(f) <= Spi!Size
    BY DEF Fits
  <2>5. x < a + Len(f)
    BY <2>1
  <2> QED BY <2>1, <2>2, <2>3, <2>4, <2>5
<1>2. x \in Spi!Address
  BY <1>1 DEF Spi!Address
<1>3. x % Spi!Size = x /\ (x \div SectorWords) % Sectors = x \div SectorWords
  BY <1>2, AddressSector
<1>4. Service!SectorOf(x) \in Service!Cleared(a, f)
  <2> DEFINE q == x \div SectorWords
             start == a \div SectorWords
             stop == (a + Len(f)) \div SectorWords
  <2>1. q \in Nat /\ start \in Nat /\ stop \in Nat /\ start <= q /\ q <= stop
    <3>1. a \in Nat /\ x \in Nat /\ a + Len(f) \in Nat /\ a <= x /\ x <= a + Len(f)
      BY <1>1
    <3> HIDE DEF x
    <3>2. q \in Nat /\ start \in Nat /\ stop \in Nat
      BY <1>1, <3>1, QuotientIsNatural
    <3>3. start <= q
      BY <1>1, <3>1, DivisionMonotone
    <3>4. q <= stop
      <4> DEFINE y == a + Len(f)
      <4>1. y \in Nat /\ x <= y
        BY <3>1
      <4> HIDE DEF y
      <4>2. x \div SectorWords <= y \div SectorWords
        BY <1>1, <3>1, <4>1, DivisionMonotone
      <4> QED BY <4>2 DEF y
    <3> QED BY <3>2, <3>3, <3>4
  <2>2. Service!SectorOf(x) = q /\ Service!Cleared(a, f) = {s % Sectors : s \in start .. stop}
    BY DEF Service!Cleared, Service!SectorOf
  <2>3. q % Sectors = q
    BY <1>3
  <2> HIDE DEF q, start, stop
  <2> QED BY <2>1, <2>2, <2>3
<1>5. x \notin a .. a + w - 1 /\ x - a + 1 = w + 1
  BY <1>1
<1>6. old[x] = Erased
  BY <1>2, <1>4, <1>5 DEF Written
<1>7. Spi!ProgramAt(old, x, f[w + 1]) = [old EXCEPT ![x] = f[w + 1]]
  BY <1>3, <1>6 DEF Spi!ProgramAt
<1>8. ASSUME NEW b \in Spi!Address
      PROVE  /\ b \in a .. a + (w + 1) - 1 <=> b = x \/ b \in a .. a + w - 1
             /\ b = x => b - a + 1 = w + 1
  <2>1. b \in Nat
    BY AddressSector
  <2> QED BY ONLY <2>1, a \in Nat, w \in Nat
<1>9. ASSUME NEW b \in Spi!Address
      PROVE  [old EXCEPT ![x] = f[w + 1]][b] = Written(m, a, f, w + 1)[b]
  <2>1. [old EXCEPT ![x] = f[w + 1]][b] = IF b = x THEN f[w + 1] ELSE old[b]
    BY DEF Written
  <2>2. old[b] = CASE b \in a .. a + w - 1 -> f[b - a + 1]
                   [] b \notin a .. a + w - 1 /\ Service!SectorOf(b) \in Service!Cleared(a, f)
                        -> Erased
                   [] OTHER -> m[b]
    BY DEF Written
  <2>3. Written(m, a, f, w + 1)[b] =
          CASE b \in a .. a + (w + 1) - 1 -> f[b - a + 1]
            [] b \notin a .. a + (w + 1) - 1 /\ Service!SectorOf(b) \in Service!Cleared(a, f)
                 -> Erased
            [] OTHER -> m[b]
    BY DEF Written
  <2> HIDE DEF old
  <2> QED BY <1>5, <1>8, <2>1, <2>2, <2>3
<1>10. /\ [old EXCEPT ![x] = f[w + 1]] = [b \in Spi!Address |-> [old EXCEPT ![x] = f[w + 1]][b]]
       /\ Written(m, a, f, w + 1) = [b \in Spi!Address |-> Written(m, a, f, w + 1)[b]]
  BY DEF Written
<1> HIDE DEF old, x
<1>11. [old EXCEPT ![x] = f[w + 1]] = Written(m, a, f, w + 1)
  BY <1>9, <1>10
<1> QED BY <1>7, <1>11 DEF old, x

(* The words of a page that is not the last, and of the last one. *)
LEMMA PageLimits ==
  ASSUME NEW f \in Files, NEW p \in 0 .. Len(f) \div PageWords
  PROVE  LET s == p * PageWords
             e == IF s + PageWords <= Len(f) THEN s + PageWords ELSE Len(f)
         IN  /\ p \in Nat /\ s \in Nat /\ Len(f) \in Nat /\ e \in Nat /\ s <= e /\ e <= Len(f)
             /\ p < Len(f) \div PageWords => e = s + PageWords
             /\ p = Len(f) \div PageWords => e = Len(f)
<1> DEFINE q == Len(f) \div PageWords
           r == Len(f) % PageWords
           s == p * PageWords
           t == PageWords * q
<1>1. Len(f) \in Nat /\ PageWords \in Nat \ {0}
  BY XipAssumption, LenProperties
<1>2. q \in Nat /\ r \in 0 .. PageWords - 1 /\ Len(f) = t + r
  BY <1>1, Division
<1> HIDE DEF q, r
<1>3. p \in Nat /\ p <= q
  BY <1>2 DEF q
<1>4. /\ s = PageWords * p /\ s \in Nat /\ t \in Nat
      /\ p < q => s + PageWords <= t
      /\ p = q => s = t
  <2>1. PageWords * p \in Nat /\ p * PageWords = PageWords * p
    BY <1>1, <1>3, Multiples
  <2>2. p < q => PageWords * p + PageWords <= PageWords * q
    BY <1>1, <1>2, <1>3, Multiples
  <2>3. PageWords * q \in Nat
    BY <1>1, <1>2, Multiples
  <2> QED BY <2>1, <2>2, <2>3
<1> HIDE DEF s, t
<1>5. /\ p < q => s + PageWords <= Len(f)
      /\ p = q => ~(s + PageWords <= Len(f)) /\ s <= Len(f)
  BY <1>1, <1>2, <1>3, <1>4
<1> QED BY <1>1, <1>3, <1>4, <1>5 DEF q, s

(* A page of a file. *)
LEMMA PageFacts ==
  ASSUME NEW a \in Nat, NEW f \in Files, NEW p \in 0 .. LastPage(f)
  PROVE  /\ p \in Nat /\ PageStart(p) \in Nat
         /\ PageMessage(a, f, p)[1] = Boot!FLASH_WRITE /\ PageMessage(a, f, p)[2] = a + PageStart(p)
         /\ PageMessage(a, f, p)[3] \in Nat /\ PageStart(p) + PageMessage(a, f, p)[3] <= Len(f)
         /\ p < LastPage(f) => PageMessage(a, f, p)[3] = PageWords
         /\ p = LastPage(f) => PageStart(p) + PageMessage(a, f, p)[3] = Len(f)
         /\ \A j \in 1 .. PageMessage(a, f,
            p)[3] : Payload(PageMessage(a, f, p))[j] = f[PageStart(p) + j]
<1> DEFINE m == PageMessage(a, f, p)
           s == PageStart(p)
           e == IF s + PageWords <= Len(f) THEN s + PageWords ELSE Len(f)
           data == SubSeq(f, s + 1, e)
           head == <<Boot!FLASH_WRITE, a + s, Len(data)>>
           last == Len(f) \div PageWords
<1>1. /\ p \in Nat /\ s \in Nat /\ Len(f) \in Nat /\ e \in Nat /\ s <= e /\ e <= Len(f)
      /\ p < last => e = s + PageWords
      /\ p = last => e = Len(f)
  BY PageLimits DEF LastPage, PageStart
<1>2. m = head \o data
  <2>1. p + 1 \in 1 .. LastPage(f) + 1 /\ (p + 1) - 1 = p
    <3>1. last \in Nat
      BY <1>1, XipAssumption, QuotientIsNatural
    <3> HIDE DEF last
    <3>2. p \in 0 .. last
      BY DEF last, LastPage
    <3>3. p + 1 \in 1 .. last + 1 /\ (p + 1) - 1 = p
      BY <3>1, <3>2
    <3> QED BY <3>3 DEF last, LastPage
  <2> DEFINE start(i) == (i - 1) * PageWords
             z(i) == IF start(i) + PageWords <= Len(f) THEN start(i) + PageWords ELSE Len(f)
             d(i) == SubSeq(f, start(i) + 1, z(i))
             page_(i) == <<Boot!FLASH_WRITE, a + start(i), Len(d(i))>> \o d(i)
  <2>2. PageMessages(a, f) = [i \in 1 .. LastPage(f) + 1 |-> page_(i)]
    BY DEF PageMessages, LastPage
  <2>3. page_(p + 1) = head \o data
    <3>1. start(p + 1) = s
      BY <2>1 DEF PageStart
    <3>2. z(p + 1) = e
      BY <3>1
    <3>3. d(p + 1) = data
      BY <3>1, <3>2
    <3> HIDE DEF start, d, data
    <3> QED BY <3>1, <3>3
  <2> HIDE DEF page_, head, data
  <2> QED BY <2>1, <2>2, <2>3 DEF PageMessage
<1> HIDE DEF m, s, e, last
<1>3. /\ data \in Seq(Contents) /\ Len(data) \in Nat /\ Len(data) = e - s
      /\ \A j \in 1 .. Len(data) : data[j] = f[s + j]
  <2>1. f \in Seq(Contents) /\ \A k \in s + 1 .. e : f[k] \in Contents
    <3>1. f \in Seq(Contents)
      BY XipAssumption
    <3>2. \A k \in 1 .. Len(f) : f[k] \in Contents
      BY <3>1, ElementOfSeq
    <3> QED BY <1>1, <3>1, <3>2
  <2>2. /\ SubSeq(f, s + 1, e) \in Seq(Contents)
        /\ Len(SubSeq(f, s + 1, e)) = IF s + 1 <= e THEN e - (s + 1) + 1 ELSE 0
        /\ \A i \in 1 .. e - (s + 1) + 1 : SubSeq(f, s + 1, e)[i] = f[(s + 1) + i - 1]
    <3>1. s + 1 \in Nat
      BY <1>1
    <3> DEFINE n == s + 1
    <3>2. n \in Nat /\ \A k \in n .. e : f[k] \in Contents
      BY <2>1, <3>1
    <3> HIDE DEF n
    <3>3. /\ SubSeq(f, n, e) \in Seq(Contents)
          /\ Len(SubSeq(f, n, e)) = IF n <= e THEN e - n + 1 ELSE 0
          /\ \A i \in 1 .. e - n + 1 : SubSeq(f, n, e)[i] = f[n + i - 1]
      BY <1>1, <3>2, SubSeqProperties
    <3> QED BY <3>3 DEF n
  <2> HIDE DEF data
  <2>3. Len(data) = e - s /\ Len(data) \in Nat
    BY <1>1, <2>2 DEF data
  <2>4. ASSUME NEW j \in 1 .. Len(data) PROVE data[j] = f[s + j]
    <3>1. j \in 1 .. e - (s + 1) + 1 /\ (s + 1) + j - 1 = s + j
      BY <1>1, <2>3
    <3> QED BY <2>2, <3>1 DEF data
  <2> QED BY <2>2, <2>3, <2>4 DEF data
<1> HIDE DEF data
<1>4. data \in Seq(Nat) /\ head \in Seq(Nat) /\ Len(head) = 3
  <2>1. data \in Seq(Nat)
    BY <1>3, XipAssumption, SeqMonotonic
  <2> QED BY <1>1, <1>3, <2>1
<1>5. head[1] = Boot!FLASH_WRITE /\ head[2] = a + s /\ head[3] = Len(data)
  OBVIOUS
<1> HIDE DEF head
<1>6. /\ m \in Seq(Nat) /\ Len(m) = 3 + Len(data)
      /\ \A k \in 1 .. 3 + Len(data) : m[k] = IF k <= 3 THEN head[k] ELSE data[k - 3]
  <2> DEFINE c == head \o data
  <2>1. /\ c \in Seq(Nat) /\ Len(c) = Len(head) + Len(data)
        /\ \A k \in 1 .. Len(head) + Len(data) :
             c[k] = IF k <= Len(head) THEN head[k] ELSE data[k - Len(head)]
    BY ONLY <1>4, ConcatProperties
  <2> HIDE DEF c
  <2>2. m = c
    BY <1>2 DEF c
  <2> QED BY ONLY <1>4, <2>1, <2>2
<1>7. m[1] = Boot!FLASH_WRITE /\ m[2] = a + s /\ m[3] = e - s /\ m[3] = Len(data)
  <2>1. 1 \in 1 .. 3 + Len(data) /\ 2 \in 1 .. 3 + Len(data) /\ 3 \in 1 .. 3 + Len(data)
    BY <1>3
  <2>2. m[1] = head[1] /\ m[2] = head[2] /\ m[3] = head[3]
    BY ONLY <1>6, <2>1
  <2> QED BY <1>3, <1>5, <2>2
<1>8. ASSUME NEW j \in 1 .. m[3] PROVE SubSeq(m, 4, Len(m))[j] = f[s + j]
  <2>1. j \in Nat /\ j \in 1 .. Len(data) /\ 3 + j \in 1 .. 3 + Len(data) /\ ~(3 + j <= 3)
        /\ 3 + j - 3 = j /\ j \in 1 .. Len(m) - 4 + 1 /\ 4 + j - 1 = 3 + j
    <3>1. j \in 1 .. Len(data) /\ Len(data) \in Nat /\ Len(m) = 3 + Len(data)
      BY <1>3, <1>6, <1>7
    <3> QED BY ONLY <3>1
  <2>2. m[3 + j] = f[s + j]
    <3>1. m[3 + j] = data[j]
      <4> DEFINE k == 3 + j
      <4>1. k \in 1 .. 3 + Len(data) /\ ~(k <= 3) /\ k - 3 = j
        BY <2>1
      <4> HIDE DEF k
      <4>2. m[k] = data[k - 3]
        BY ONLY <1>6, <4>1
      <4> QED BY <4>1, <4>2 DEF k
    <3>2. data[j] = f[s + j]
      BY <1>3, <2>1
    <3> QED BY <2>1, <3>1, <3>2
  <2>3. \A i \in 4 .. Len(m) : m[i] \in Nat
    <3>1. Len(m) \in Nat
      BY <1>3, <1>6
    <3>2. \A i \in 1 .. Len(m) : m[i] \in Nat
      BY <1>6, ElementOfSeq
    <3> QED BY <3>1, <3>2
  <2>4. SubSeq(m, 4, Len(m))[j] = m[4 + j - 1]
    <3> DEFINE n == Len(m)
    <3>1. n \in Nat
      BY <1>3, <1>6
    <3> HIDE DEF n
    <3>2. \A i \in 1 .. n - 4 + 1 : SubSeq(m, 4, n)[i] = m[4 + i - 1]
      BY <2>3, <3>1, SubSeqProperties DEF n
    <3> QED BY <2>1, <3>2 DEF n
  <2> QED BY <2>1, <2>2, <2>4
<1>9. /\ p \in Nat /\ s \in Nat /\ m[3] \in Nat /\ s + m[3] <= Len(f)
      /\ p < last => m[3] = PageWords
      /\ p = last => s + m[3] = Len(f)
  <2>1. PageWords \in Nat
    BY XipAssumption
  <2> QED BY <1>1, <1>3, <1>7, <2>1
<1> QED BY <1>7, <1>8, <1>9 DEF m, s, last, LastPage, Payload

(* The messages of writing a file: the sectors in order, then the pages in *)
(* order.                                                                  *)
LEMMA FileMessage ==
  ASSUME NEW a \in Nat, NEW f \in Files
  PROVE  /\ FileMessages(a, f) \in Seq(Seq(Nat))
         /\ LastPage(f) \in Nat
         /\ Len(FileMessages(a, f)) = Erases(a, f) + LastPage(f) + 1
         /\ \A i \in 0 .. Len(FileMessages(a, f)) - 1 :
              /\ i < Erases(a, f) =>
                   FileMessages(a, f)[i + 1]
                     = <<Boot!ERASE_SECTOR, (a \div SectorWords + i) * SectorWords>>
              /\ ~(i < Erases(a, f)) =>
                   /\ i - Erases(a, f) \in 0 .. LastPage(f)
                   /\ FileMessages(a, f)[i + 1] = PageMessage(a, f, i - Erases(a, f))
<1> DEFINE n == Erases(a, f)
           start == a \div SectorWords
           last == Len(f) \div PageWords
           E == EraseMessages(a, f)
           P == PageMessages(a, f)
           F == E \o P
           e(i) == <<Boot!ERASE_SECTOR, (start + i - 1) * SectorWords>>
<1>1. n \in Nat \ {0} /\ start \in Nat /\ last \in Nat
  <2>1. Len(f) \in Nat /\ n \in Nat \ {0} /\ start \in Nat
    BY FileSectors
  <2> HIDE DEF n, start
  <2>2. last \in Nat
    BY <2>1, XipAssumption, QuotientIsNatural
  <2> QED BY <2>1, <2>2
<1>2. E = [i \in 1 .. n |-> e(i)]
  BY DEF EraseMessages, Erases
<1> HIDE DEF n
<1>3. E \in Seq(Seq(Nat)) /\ Len(E) = n
  <2>1. ASSUME NEW i \in 1 .. n PROVE e(i) \in Seq(Nat)
    <3>1. start + i - 1 \in Nat
      BY <1>1
    <3> HIDE DEF start
    <3>2. (start + i - 1) * SectorWords \in Nat
      BY <3>1, XipAssumption
    <3> QED BY <3>2
  <2> HIDE DEF e, E
  <2>2. E \in [1 .. n -> Seq(Nat)]
    BY <1>2, <2>1
  <2> QED BY <1>1, <2>2
<1>4. P \in Seq(Seq(Nat)) /\ Len(P) = last + 1
  <2> DEFINE s(i) == (i - 1) * PageWords
             z(i) == IF s(i) + PageWords <= Len(f) THEN s(i) + PageWords ELSE Len(f)
             d(i) == SubSeq(f, s(i) + 1, z(i))
             p(i) == <<Boot!FLASH_WRITE, a + s(i), Len(d(i))>> \o d(i)
  <2>1. P = [i \in 1 .. last + 1 |-> p(i)]
    BY DEF PageMessages
  <2>2. ASSUME NEW i \in 1 .. last + 1 PROVE Message(p(i))
    <3>1. i \in Nat /\ i >= 1 /\ Len(f) \in Nat /\ PageWords \in Nat
      BY <1>1, FileSectors, XipAssumption
    <3>2. s(i) \in Nat
      <4>1. i - 1 \in Nat
        BY <3>1
      <4> QED BY <3>1, <4>1
    <3>3. z(i) \in Nat /\ z(i) <= Len(f) /\ z(i) <= s(i) + PageWords
      <4> HIDE DEF s
      <4> QED BY <3>1, <3>2
    <3> HIDE DEF s, z
    <3> QED BY <3>1, <3>2, <3>3, PageMessageLegal
  <2> HIDE DEF p, last, P
  <2>3. P \in [1 .. last + 1 -> Seq(Nat)]
    BY <2>1, <2>2 DEF Message
  <2> QED BY <1>1, <2>3
<1> HIDE DEF E, P, e, last, start
<1>5. /\ F \in Seq(Seq(Nat)) /\ Len(F) = n + (last + 1)
      /\ \A k \in 1 .. n + (last + 1) : F[k] = IF k <= n THEN E[k] ELSE P[k - n]
  <2>1. /\ F \in Seq(Seq(Nat)) /\ Len(F) = Len(E) + Len(P)
        /\ \A k \in 1 .. Len(E) + Len(P) : F[k] = IF k <= Len(E) THEN E[k] ELSE P[k - Len(E)]
    BY ONLY <1>3, <1>4, ConcatProperties
  <2> HIDE DEF F
  <2> QED BY ONLY <1>3, <1>4, <2>1
<1> HIDE DEF F
<1>6. Len(F) = n + last + 1
  BY <1>1, <1>5
<1>7. ASSUME NEW i \in 0 .. n + last
      PROVE  /\ i < n => F[i + 1] = <<Boot!ERASE_SECTOR, (start + i) * SectorWords>>
             /\ ~(i < n) => i - n \in 0 .. last /\ F[i + 1] = P[i - n + 1]
  <2>1. i \in Nat /\ i + 1 \in 1 .. n + (last + 1)
    BY <1>1
  <2> DEFINE k == i + 1
  <2>2. F[k] = IF k <= n THEN E[k] ELSE P[k - n]
    BY <1>5, <2>1
  <2>3. i < n => k \in 1 .. n /\ k <= n /\ start + k - 1 = start + i
    BY <1>1, <2>1
  <2>4. ~(i < n) => i - n \in 0 .. last /\ ~(k <= n) /\ k - n = i - n + 1
    BY <1>1, <2>1
  <2>5. i < n => E[k] = <<Boot!ERASE_SECTOR, (start + i) * SectorWords>>
    <3> HIDE DEF k
    <3> QED BY <1>2, <2>3 DEF e
  <2> HIDE DEF k
  <2>6. /\ i < n => F[k] = <<Boot!ERASE_SECTOR, (start + i) * SectorWords>>
        /\ ~(i < n) => i - n \in 0 .. last /\ F[k] = P[i - n + 1]
    BY <2>2, <2>3, <2>4, <2>5
  <2> QED BY <2>6 DEF k
<1>8. 0 .. Len(F) - 1 = 0 .. n + last
  <2>1. Len(F) - 1 = n + last
    BY <1>1, <1>6
  <2> QED BY <2>1
<1>9. /\ F \in Seq(Seq(Nat)) /\ last \in Nat /\ Len(F) = n + last + 1
      /\ \A i \in 0 .. Len(F) - 1 :
           /\ i < n => F[i + 1] = <<Boot!ERASE_SECTOR, (start + i) * SectorWords>>
           /\ ~(i < n) => i - n \in 0 .. last /\ F[i + 1] = P[i - n + 1]
  BY <1>1, <1>5, <1>6, <1>7, <1>8
<1> QED BY <1>9 DEF FileMessages, LastPage, PageMessage, F, E, P, n, last, start

(* Before the first message the flash is as it was. *)
LEMMA StageBegins ==
  ASSUME NEW m \in [Spi!Address -> Contents], NEW a \in Nat, NEW f \in Files
  PROVE  Stage(m, a, f, 0, 0) = m
<1>1. 0 < Erases(a, f) /\ 0 + 0 = 0
  BY FileSectors
<1> QED BY <1>1, NothingErased DEF Stage

(* An erase command takes the flash on. *)
LEMMA StageErases ==
  ASSUME NEW m, NEW a \in Nat, NEW f \in Files,
         NEW i \in 0 .. Len(FileMessages(a, f)) - 1, i < Erases(a, f)
  PROVE  Spi!EraseAt(Stage(m, a, f, i, 0), FileMessages(a, f)[i + 1][2]) = Stage(m, a, f, i, 1)
<1>1. FileMessages(a, f)[i + 1] = <<Boot!ERASE_SECTOR, (a \div SectorWords + i) * SectorWords>>
  BY FileMessage
<1>2. FileMessages(a, f)[i + 1][2] = (a \div SectorWords + i) * SectorWords
  BY <1>1
<1>3. i \in Nat /\ i + 0 = i
  OBVIOUS
<1>4. Stage(m, a, f, i, 0) = ErasedFrom(m, a, i) /\ Stage(m, a, f, i, 1) = ErasedFrom(m, a, i + 1)
  BY <1>3 DEF Stage
<1> QED BY <1>2, <1>3, <1>4, OneSectorMore

(* So does a word that is programmed. *)
LEMMA StagePrograms ==
  ASSUME NEW m, NEW a \in Nat, NEW f \in Files, Fits(a, f),
         NEW i \in 0 .. Len(FileMessages(a, f)) - 1, ~(i < Erases(a, f)),
         NEW c, c = FileMessages(a, f)[i + 1], NEW x \in Nat, x < c[3]
  PROVE  Spi!ProgramAt(Stage(m, a, f, i, x), c[2] + x, Payload(c)[x + 1])
           = Stage(m, a, f, i, x + 1)
<1> DEFINE p == i - Erases(a, f)
           s == PageStart(p)
           w == s + x
<1>1. p \in 0 .. LastPage(f) /\ c = PageMessage(a, f, p)
  BY FileMessage
<1> HIDE DEF p
<1>2. /\ s \in Nat /\ c[2] = a + s /\ c[3] \in Nat /\ s + c[3] <= Len(f)
      /\ \A j \in 1 .. c[3] : Payload(c)[j] = f[s + j]
  <2> DEFINE d == PageMessage(a, f, p)
  <2>1. /\ s \in Nat /\ d[2] = a + s /\ d[3] \in Nat /\ s + d[3] <= Len(f)
      /\ \A j \in 1 .. d[3] : Payload(d)[j] = f[s + j]
    BY <1>1, PageFacts, Zenon
  <2> QED BY ONLY <1>1, <2>1
<1> HIDE DEF s
<1>3. /\ w \in Nat /\ w < Len(f) /\ c[2] + x = a + w
      /\ x + 1 \in 1 .. c[3] /\ s + (x + 1) = w + 1 /\ Len(f) \in Nat
  <2>1. Len(f) \in Nat
    BY FileSectors
  <2> DEFINE k == c[3]
  <2>2. k \in Nat /\ x < k /\ s + k <= Len(f)
    BY <1>2
  <2> HIDE DEF k
  <2>3. w \in Nat /\ w < Len(f) /\ x + 1 \in 1 .. k /\ s + (x + 1) = w + 1
    BY <1>2, <2>1, <2>2
  <2>4. c[2] + x = a + w
    BY <1>2
  <2> QED BY <2>1, <2>3, <2>4 DEF k
<1>4. Payload(c)[x + 1] = f[w + 1]
  <2> DEFINE j == x + 1
             v == w + 1
  <2>1. j \in 1 .. c[3] /\ s + j = v
    BY <1>3
  <2> HIDE DEF j, v
  <2>2. Payload(c)[j] = f[v]
    BY <1>2, <2>1
  <2> QED BY <2>2 DEF j, v
<1>5. /\ Stage(m, a, f, i, x) = Written(m, a, f, w)
      /\ Stage(m, a, f, i, x + 1) = Written(m, a, f, w + 1)
  BY <1>3 DEF Stage, PageStart, p, s
<1> HIDE DEF w
<1>6. Spi!ProgramAt(Written(m, a, f, w), a + w, f[w + 1]) = Written(m, a, f, w + 1)
  BY <1>3, OneWordMore
<1> QED BY ONLY <1>3, <1>4, <1>5, <1>6

(* When a message has been carried out, the next one begins, or the file   *)
(* has been written.                                                       *)
LEMMA StageGoesOn ==
  ASSUME NEW m, NEW a \in Nat, NEW f \in Files,
         NEW i \in 0 .. Len(FileMessages(a, f)) - 1, NEW c, c = FileMessages(a, f)[i + 1]
  PROVE  /\ i + 1 < Len(FileMessages(a, f)) =>
              Stage(m, a, f, i, Units(c)) = Stage(m, a, f, i + 1, 0)
         /\ i + 1 = Len(FileMessages(a, f)) =>
              Stage(m, a, f, i, Units(c)) = Written(m, a, f, Len(f))
<1> DEFINE n == Erases(a, f)
           last == LastPage(f)
           l == Len(FileMessages(a, f))
<1>1. /\ n \in Nat \ {0} /\ last \in Nat /\ l = n + last + 1
      /\ i \in 0 .. n + last /\ i \in Nat
  <2>1. n \in Nat \ {0} /\ last \in Nat /\ l = n + last + 1
    BY FileSectors, FileMessage
  <2>2. i \in 0 .. l - 1
    OBVIOUS
  <2> HIDE DEF n, last, l
  <2> QED BY <2>1, <2>2
<1>2. CASE i < n
  <2>1. c = <<Boot!ERASE_SECTOR, (a \div SectorWords + i) * SectorWords>>
    BY <1>2, FileMessage
  <2>2. Units(c) = 1
    BY <2>1 DEF Units
  <2>3. Stage(m, a, f, i, 1) = ErasedFrom(m, a, i + 1)
    BY <1>2 DEF Stage
  <2>4. i + 1 < l
    <3> HIDE DEF n, l, last
    <3> QED BY <1>1, <1>2
  <2>5. CASE i + 1 < n
    <3>1. (i + 1) + 0 = i + 1
      BY <1>1
    <3>2. Stage(m, a, f, i + 1, 0) = ErasedFrom(m, a, i + 1)
      BY <2>5, <3>1 DEF Stage
    <3> QED BY <1>1, <2>2, <2>3, <2>4, <3>2
  <2>6. CASE ~(i + 1 < n)
    <3> HIDE DEF n
    <3>1. i + 1 = n /\ ((i + 1) - n) * PageWords + 0 = 0
      <4>1. i + 1 = n
        BY <1>1, <1>2, <2>6
      <4>2. (i + 1) - n = 0
        BY <1>1, <4>1
      <4> QED BY <4>1, <4>2, XipAssumption
    <3>2. Stage(m, a, f, i + 1, 0) = Written(m, a, f, 0)
      BY <2>6, <3>1 DEF Stage, n
    <3>3. ErasedFrom(m, a, n) = Written(m, a, f, 0)
      BY AllErased DEF n
    <3> QED BY <1>1, <2>2, <2>3, <2>4, <3>1, <3>2, <3>3
  <2> QED BY <2>5, <2>6
<1>3. CASE ~(i < n)
  <2> DEFINE p == i - n
             s == PageStart(p)
  <2>1. p \in 0 .. last /\ c = PageMessage(a, f, p)
    BY <1>3, FileMessage
  <2> HIDE DEF p
  <2>2. /\ s \in Nat /\ c[1] = Boot!FLASH_WRITE /\ c[3] \in Nat
        /\ p < last => c[3] = PageWords
        /\ p = last => s + c[3] = Len(f)
    <3> DEFINE d == PageMessage(a, f, p)
    <3>1. /\ s \in Nat /\ d[1] = Boot!FLASH_WRITE /\ d[3] \in Nat
          /\ p < last => d[3] = PageWords
          /\ p = last => s + d[3] = Len(f)
      BY <2>1, PageFacts, Zenon
    <3> QED BY ONLY <2>1, <3>1
  <2>3. Units(c) = c[3]
    BY <2>2 DEF Units
  <2>4. Stage(m, a, f, i, c[3]) = Written(m, a, f, s + c[3])
    BY <1>3 DEF Stage, PageStart, p
  <2>5. ~(i + 1 < n) /\ (i + 1) - n = p + 1 /\ p \in Nat
        /\ (i + 1 < l <=> p < last) /\ (i + 1 = l <=> p = last)
    <3> HIDE DEF n, l, last
    <3> QED BY <1>1, <1>3 DEF p
  <2>6. ASSUME i + 1 < l PROVE Stage(m, a, f, i, Units(c)) = Stage(m, a, f, i + 1, 0)
    <3>1. ((i + 1) - n) * PageWords + 0 = s + PageWords
      <4>1. PageWords \in Nat
        BY XipAssumption
      <4>2. (p + 1) * PageWords = p * PageWords + 1 * PageWords
        BY <2>5, <4>1, Multiples
      <4> QED BY <2>2, <2>5, <4>1, <4>2 DEF PageStart
    <3>2. Stage(m, a, f, i + 1, 0) = Written(m, a, f, s + PageWords)
      <4>1. Stage(m, a, f, i + 1, 0) = Written(m, a, f, ((i + 1) - n) * PageWords + 0)
        <5>1. ~(i + 1 < n)
          BY <2>5
        <5> QED BY ONLY <5>1 DEF Stage
      <4> QED BY ONLY <3>1, <4>1
    <3>3. c[3] = PageWords
      BY <2>2, <2>5, <2>6
    <3> QED BY <2>3, <2>4, <3>2, <3>3
  <2>7. ASSUME i + 1 = l PROVE Stage(m, a, f, i, Units(c)) = Written(m, a, f, Len(f))
    BY <2>2, <2>3, <2>4, <2>5, <2>7
  <2> QED BY <2>6, <2>7, Zenon
<1> QED BY <1>2, <1>3
=============================================================================
