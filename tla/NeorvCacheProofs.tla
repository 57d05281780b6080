-------------------------- MODULE NeorvCacheProofs --------------------------
(***************************************************************************)
(* What TLC checks of the cache for two blocks of two words, proved for    *)
(* every number of blocks, words and tags, every set of values, both modes *)
(* and any addresses that the memory answers with an error or that others  *)
(* write: reads return fresh data, a fence is passed on after the write-   *)
(* back, and nobody is answered who has not asked.                         *)
(*                                                                         *)
(* The invariant says who waits for whom (Handshake, Working), what the    *)
(* read registers show (SeenInv), which block the bus controller works on  *)
(* and what a flush has done so far (BusInv), and where the newest value   *)
(* of each address is (MemInv, WordInv, ReadInv).                          *)
(***************************************************************************)
EXTENDS NeorvCache, TLAPS

Download == {"download_req", "download_rsp"}
Upload == {"upload_get", "upload_req", "upload_rsp"}
Flush == {"flush_start", "flush_read", "flush_check"}

(* The bus controller works only while the host controller waits for it,   *)
(* and for what the host controller waits.                                 *)
Handshake ==
  /\ bstate = "check" \/ bstate \in Download => hstate = "wait_miss"
  /\ bstate \in Upload => hstate = (IF upret = "flush_check" THEN "wait_sync" ELSE "wait_miss")
  /\ bstate \in Flush => hstate = "wait_sync"
  /\ bstate \in Upload => upret # "idle"
  /\ bstate \notin Download \cup Upload => addr.ofs = 0
  /\ bstate = "flush_read" => upret = "flush_check"
  /\ bstate = "flush_check" => upret = "flush_check"

(* The host controller works on an access that is open. *)
Working ==
  /\ req_buf \/ hstate \in {"check", "wait_miss", "error"} => open \/ refused
  /\ ~read_only => ~refused /\ hstate # "error"
  /\ read_only /\ hstate \in {"check", "wait_miss"} => ~req.rw

Dirty(i) == valid[i] /\ dirty[i]

(* What the read registers of the memories show. *)
SeenInv ==
  /\ hstate = "check" =>
       LET a == req.addr IN
       /\ seen.valid = valid[a.idx] /\ seen.dirty = dirty[a.idx] /\ seen.tag = tag[a.idx]
       /\ seen.acc_tag = a.tag /\ seen.acc_idx = a.idx
       /\ seen.data = word[a.idx][a.ofs].data /\ seen.stat = word[a.idx][a.ofs].stat
  /\ bstate = "check" =>
       /\ seen.acc_idx = req.addr.idx
       /\ is_dirty <=> ~read_only /\ Dirty(seen.acc_idx)
       /\ is_dirty => seen.tag = tag[seen.acc_idx]
  /\ bstate = "flush_check" =>
       /\ is_dirty <=> ~read_only /\ Dirty(addr.idx)
       /\ is_dirty => seen.tag = tag[addr.idx]
  /\ bstate \in {"upload_req", "upload_rsp"} =>
       seen.data = word[addr.idx][addr.ofs].data

(* The block that the bus controller works on. *)
BusInv ==
  /\ read_only => bstate \notin Upload /\ \A i \in Block : ~dirty[i]
  /\ bstate \in Download =>
       /\ ~Dirty(addr.idx)
       /\ addr.ofs > 0 => valid[addr.idx] /\ tag[addr.idx] = addr.tag
  /\ bstate \in Upload =>
       /\ tag[addr.idx] = addr.tag
       /\ upret = "flush_check" \/ addr.ofs > 0 => ~Dirty(addr.idx)
  /\ bstate \in {"flush_read", "flush_check"} \cup Upload /\ upret = "flush_check" =>
       \A j \in Block : j < addr.idx => ~valid[j]
  /\ hstate = "wait_sync" /\ bstate = "idle" => \A j \in Block : ~valid[j]

(* The upload has still to write this word. *)
Uploading(a) ==
  bstate \in Upload /\ addr.idx = a.idx /\ addr.tag = a.tag /\ addr.ofs <= a.ofs

(* What is in the memory is fresh, but for dirty blocks and blocks under   *)
(* upload.                                                                 *)
MemInv ==
  \A a \in Address \ Bad :
    \/ mem[a] \in fresh[a]
    \/ Dirty(a.idx) /\ tag[a.idx] = a.tag
    \/ Uploading(a)

(* Words that have been downloaded and not replaced. *)
Present(i, o) ==
  \/ valid[i] /\ ~(bstate \in Download /\ i = addr.idx /\ addr.ofs <= o)
  \/ bstate \in Upload /\ i = addr.idx

(* The address of a word of the cache. *)
LineOf(i, o) == [tag |-> tag[i], idx |-> i, ofs |-> o]

(* A fence has reached a read-only cache that has not been flushed since. *)
FlushPending == read_only /\ (sync_buf \/ hstate = "wait_sync")

(* A word that is present has the error bit of its address, and fresh data *)
(* unless a fence has just made newer data the only fresh ones.            *)
WordInv ==
  \A i \in Block, o \in Offset : Present(i, o) =>
    /\ word[i][o].stat <=> LineOf(i, o) \in Bad
    /\ LineOf(i, o) \notin Bad /\ ~FlushPending => word[i][o].data \in fresh[LineOf(i, o)]

(* What the open access may return includes whatever is fresh, and, once   *)
(* the host controller works on it, the word that is present.              *)
ReadInv ==
  open =>
    /\ req.addr \notin Bad => fresh[req.addr] \subseteq want
    /\ hstate \in {"check", "wait_miss"} /\ req.addr \notin Bad
         /\ Present(req.addr.idx, req.addr.ofs) /\ tag[req.addr.idx] = req.addr.tag =>
         word[req.addr.idx][req.addr.ofs].data \in want

-----------------------------------------------------------------------------
(* Types. *)

(* The next offset and the next index are in range. *)
LEMMA NextInRange ==
  /\ \A o \in Offset : (o + 1) % Words \in Offset
  /\ \A i \in Block : (i + 1) % Blocks \in Block
BY CacheAssumption DEF Offset, Block

(* The request lines carry what their type allows. *)
LEMMA LinesType ==
  ASSUME TypeOK, NEW stb \in BOOLEAN, NEW r, LinesIn(stb, r)
  PROVE  r \in Lines
<1>1. ASSUME NEW l \in Accesses PROVE l \in Lines
  <2>0. Stores \subseteq Address /\ Requests \subseteq Address /\ Junk \in Value
    BY CacheAssumption
  <2>1. CASE \E a \in Requests : l = [addr |-> a, rw |-> FALSE, data |-> Junk]
    BY <2>0, <2>1 DEF Lines
  <2>2. CASE l \in [addr : Stores, rw : {TRUE}, data : Value]
    BY <2>0, <2>2 DEF Lines
  <2> QED BY <1>1, <2>1, <2>2 DEF Accesses
<1>2. req \in Lines /\ [req EXCEPT !.rw = FALSE] \in Lines
  BY DEF TypeOK, Lines
<1> QED BY <1>1, <1>2 DEF LinesIn

(* The memories are addressed within their range. *)
LEMMA AppliedType ==
  ASSUME TypeOK, NEW r \in Lines
  PROVE  Applied(r) \in Address /\ Applied(r).idx \in Block /\ Applied(r).ofs \in Offset
         /\ Applied(r).tag \in 0 .. Tags - 1
BY DEF TypeOK, Applied, Lines, Address

(* The memories and their read registers keep their types. *)
LEMMA MemoriesType ==
  ASSUME TypeOK, NEW r \in Lines, NEW ready \in BOOLEAN, Memories(r, ready)
  PROVE  /\ valid' \in [Block -> BOOLEAN] /\ dirty' \in [Block -> BOOLEAN]
         /\ tag' \in [Block -> 0 .. Tags - 1]
         /\ word' \in [Block -> [Offset -> [data : Value, stat : BOOLEAN]]]
         /\ seen' \in [valid : BOOLEAN, dirty : BOOLEAN,
                       tag : 0 .. Tags - 1, acc_tag : 0 .. Tags - 1,
               acc_idx : Block, data : Value, stat : BOOLEAN]
<1>0. DEFINE a == Applied(r)
<1>1. a \in Address /\ a.idx \in Block /\ a.ofs \in Offset /\ a.tag \in 0 .. Tags - 1
  BY AppliedType
<1>2. /\ valid' \in [Block -> BOOLEAN] /\ dirty' \in [Block -> BOOLEAN]
      /\ tag' \in [Block -> 0 .. Tags - 1]
  BY <1>1 DEF Memories, Status, TypeOK, MakesNew, Awaited, Invalidates, StoresWord, hit, busy
<1>3. word' \in [Block -> [Offset -> [data : Value, stat : BOOLEAN]]]
  <2>1. DataIn(word[a.idx][a.ofs], r, ready) \in [data : Value, stat : BOOLEAN]
    <3>1. word[a.idx][a.ofs] \in [data : Value, stat : BOOLEAN] /\ r.data \in Value
      BY <1>1 DEF TypeOK, Lines
    <3>2. (IF ready THEN mem[addr] ELSE Junk) \in Value
      BY CacheAssumption DEF TypeOK
    <3>3. (ready /\ addr \in Bad) \in BOOLEAN
      OBVIOUS
    <3> QED BY <3>1, <3>2, <3>3 DEF DataIn
  <2>2. word' = [word EXCEPT ![a.idx][a.ofs] = DataIn(word[a.idx][a.ofs], r, ready)]
    BY DEF Memories, Data
  <2> QED BY <2>1, <2>2, <1>1 DEF TypeOK
<1>4. QED
  BY <1>1, <1>2, <1>3 DEF Memories, ReadRegisters, TypeOK

(* Every register and memory keeps its type in every step. *)
LEMMA TypeStep ==
  ASSUME TypeOK, [Next]_vars
  PROVE  TypeOK'
<1>1. CASE UNCHANGED vars
  BY <1>1 DEF TypeOK, vars, hostVars, memoryVars, busVars, envVars
<1>2. ASSUME NEW ready \in BOOLEAN, Clock(ready) PROVE TypeOK'
  <2>1. PICK stb, fence \in BOOLEAN, r \in Accesses \cup {req, [req EXCEPT !.rw = FALSE]} :
          Edge(stb, fence, r, ready)
    BY <1>2 DEF Clock
  <2>2. r \in Lines
    BY <2>1, LinesType DEF Edge, Environment
  <2>3. /\ valid' \in [Block -> BOOLEAN] /\ dirty' \in [Block -> BOOLEAN]
        /\ tag' \in [Block -> 0 .. Tags - 1]
        /\ word' \in [Block -> [Offset -> [data : Value, stat : BOOLEAN]]]
        /\ seen' \in [valid : BOOLEAN, dirty : BOOLEAN,
                      tag : 0 .. Tags - 1, acc_tag : 0 .. Tags - 1,
               acc_idx : Block, data : Value, stat : BOOLEAN]
    BY <2>1, <2>2, MemoriesType DEF Edge
  <2>4. /\ hstate' \in {"idle", "check", "wait_sync", "wait_miss", "error"}
        /\ {req_buf', sync_buf'} \subseteq BOOLEAN
    BY <2>1 DEF Edge, Host, HostIdle, HostCheck, HostWait, ReqBuf, SyncBuf, TypeOK
  <2>5. /\ bstate' \in {"idle", "check", "download_req", "download_rsp", "upload_get", "upload_req",
                 "upload_rsp", "flush_start", "flush_read", "flush_check"}
        /\ upret' \in {"idle", "download_req", "flush_check"}
    BY <2>1
    DEF Edge, Bus, BusIdle, BusCheck, Transfer, FlushStart, FlushRead, FlushCheck, TypeOK, Awaited
  <2>6. addr' \in Address
    <3>1. 0 \in Block /\ 0 \in Offset
      BY CacheAssumption DEF Block, Offset
    <3>2. r.addr.tag \in 0 .. Tags - 1 /\ seen.tag \in 0 .. Tags - 1 /\ seen.acc_idx \in Block
      BY <2>2 DEF TypeOK, Lines, Address
    <3>3. /\ (addr.ofs + 1) % Words \in Offset /\ (addr.idx + 1) % Blocks \in Block
          /\ addr.tag \in 0 .. Tags - 1 /\ addr.idx \in Block /\ addr.ofs \in Offset
          /\ addr \in Address
      BY NextInRange DEF TypeOK, Address
    <3>4. CASE BusIdle
      BY <3>1, <3>3, <3>4 DEF BusIdle, Address
    <3>5. CASE BusCheck(r)
      BY <3>2, <3>3, <3>5 DEF BusCheck, Address
    <3>6. CASE Transfer(ready)
      BY <3>3, <3>6 DEF Transfer, NextWord, Address
    <3>7. CASE FlushStart \/ FlushRead
      BY <3>1, <3>3, <3>7 DEF FlushStart, FlushRead, Address
    <3>8. CASE FlushCheck
      BY <3>2, <3>3, <3>8 DEF FlushCheck, Address
    <3> QED
      BY <2>1, <3>4, <3>5, <3>6, <3>7, <3>8 DEF Edge, Bus
  <2>7. /\ {read_only', open', refused'} \subseteq BOOLEAN
        /\ req' \in Lines /\ mem' \in [Address -> Value]
    BY <2>1, <2>2 DEF Edge, Environment, TypeOK
  <2>8. fresh' \in [Address -> SUBSET Value]
    BY <2>1, <2>2 DEF Edge, Environment, TypeOK, Lines
  <2>9. want' \in SUBSET Value
    BY <2>1, <2>2 DEF Edge, Environment, TypeOK, Lines
  <2> QED BY <2>3, <2>4, <2>5, <2>6, <2>7, <2>8, <2>9 DEF TypeOK
<1>3. ASSUME NEW a \in Changing, Change(a) PROVE TypeOK'
  <2>1. PICK v \in Values[a] \ {mem[a]} :
       /\ mem' = [mem EXCEPT ![a] = v]
       /\ fresh' = [fresh EXCEPT ![a] = @ \cup {v}]
       /\ want' = IF open /\ req.addr = a THEN want \cup {v} ELSE want
    BY <1>3 DEF Change
  <2>2. a \in Address /\ v \in Value
    BY <1>3, <2>1, CacheAssumption
  <2>3. /\ mem' \in [Address -> Value] /\ fresh' \in [Address -> SUBSET Value]
        /\ want' \in SUBSET Value
    BY <2>1, <2>2 DEF TypeOK
  <2> QED BY <1>3, <2>3 DEF Change, TypeOK, hostVars, memoryVars, busVars
<1> QED BY <1>1, <1>2, <1>3 DEF Next

(* A reset gives every register a value of its type. *)
LEMMA InitType == Init => TypeOK
<1> SUFFICES ASSUME Init PROVE TypeOK
  OBVIOUS
<1>1. 0 \in Block /\ 0 \in Offset /\ 0 \in 0 .. Tags - 1
  BY CacheAssumption DEF Block, Offset
<1>2. addr \in Address /\ req \in Lines
  BY <1>1, CacheAssumption DEF Init, Address, Lines
<1>3. mem \in [Address -> Value] /\ fresh \in [Address -> SUBSET Value] /\ want \in SUBSET Value
  BY CacheAssumption DEF Init
<1>4. PICK t \in 0 .. Tags - 1, s \in BOOLEAN :
     /\ tag = [i \in Block |-> t]
     /\ word = [i \in Block |-> [o \in Offset |-> [data |-> Junk, stat |-> s]]]
     /\ seen = [valid |-> FALSE, dirty |-> FALSE, tag |-> t, acc_tag |-> 0, acc_idx |-> 0,
                data |-> Junk, stat |-> s]
  BY DEF Init
<1>5. /\ tag \in [Block -> 0 .. Tags - 1]
      /\ word \in [Block -> [Offset -> [data : Value, stat : BOOLEAN]]]
      /\ seen \in [valid : BOOLEAN, dirty : BOOLEAN, tag : 0 .. Tags - 1, acc_tag : 0 .. Tags - 1,
             acc_idx : Block, data : Value, stat : BOOLEAN]
  BY <1>1, <1>4, CacheAssumption
<1>6. read_only \in BOOLEAN
  BY CacheAssumption DEF Init
<1> QED BY <1>2, <1>3, <1>5, <1>6 DEF Init, TypeOK

(* Type correctness of the cache: the counters of words and blocks never   *)
(* leave the memories they address (neorv32_cache.vhd:632-635, 928-985).   *)
THEOREM TypeCorrect == Spec => []TypeOK
BY InitType, TypeStep, PTL DEF Spec

-----------------------------------------------------------------------------
(* The two controllers. *)

(* What the bus controller does, state by state. *)
LEMMA BusStep ==
  ASSUME TypeOK, Handshake, NEW r \in Lines, NEW ready \in BOOLEAN, Bus(r, ready)
  PROVE
   /\ bstate = "idle" =>
        /\ bstate' = IF hstate = "idle" /\ sync_buf THEN "flush_start"
                     ELSE IF hstate = "check" /\ ~hit THEN "check" ELSE "idle"
        /\ addr'.ofs = 0 /\ upret' = upret
   /\ bstate = "check" =>
        /\ upret' = "download_req" /\ addr'.ofs = 0 /\ addr'.idx = seen.acc_idx
        /\ addr'.tag = IF is_dirty THEN seen.tag ELSE r.addr.tag
        /\ bstate' = IF is_dirty THEN "upload_get" ELSE "download_req"
   /\ bstate = "download_req" => bstate' = "download_rsp" /\ addr' = addr /\ upret' = upret
   /\ bstate = "upload_get" => bstate' = "upload_req" /\ addr' = addr /\ upret' = upret
   /\ bstate = "upload_req" => bstate' = "upload_rsp" /\ addr' = addr /\ upret' = upret
   /\ Awaited =>
        /\ upret' = upret /\ addr'.idx = addr.idx /\ addr'.tag = addr.tag
        /\ ~ready => bstate' = bstate /\ addr' = addr
        /\ ready /\ LastWord =>
             /\ addr'.ofs = 0 /\ addr.ofs = Words - 1
             /\ bstate' = IF bstate = "download_rsp" THEN "idle" ELSE upret
        /\ ready /\ ~LastWord =>
             /\ addr'.ofs = addr.ofs + 1
             /\ bstate' = IF bstate = "download_rsp" THEN "download_req" ELSE "upload_get"
   /\ bstate = "flush_start" =>
        bstate' = "flush_read" /\ addr'.idx = 0 /\ addr'.ofs = 0 /\ upret' = "flush_check"
   /\ bstate = "flush_read" => bstate' = "flush_check" /\ addr' = addr /\ upret' = upret
   /\ bstate = "flush_check" =>
        /\ upret' = upret /\ addr'.ofs = 0 /\ addr'.tag = seen.tag
        /\ is_dirty => bstate' = "upload_get" /\ addr'.idx = addr.idx
        /\ ~is_dirty /\ LastBlock => bstate' = "idle" /\ addr.idx = Blocks - 1
        /\ ~is_dirty /\ ~LastBlock => bstate' = "flush_read" /\ addr'.idx = addr.idx + 1
<1>1. addr \in Address /\ addr.ofs \in Offset /\ addr.idx \in Block
  BY DEF TypeOK, Address
<1>2. /\ LastWord => (addr.ofs + 1) % Words = 0
      /\ ~LastWord => (addr.ofs + 1) % Words = addr.ofs + 1
      /\ ~LastBlock => (addr.idx + 1) % Blocks = addr.idx + 1
  BY <1>1, CacheAssumption DEF LastWord, LastBlock, Offset, Block
<1>3. bstate \notin Download \cup Upload => addr.ofs = 0
  BY DEF Handshake
<1>4. CASE BusIdle
  BY <1>1, <1>4 DEF BusIdle, Awaited, Address
<1>5. CASE BusCheck(r)
  BY <1>1, <1>3, <1>5 DEF BusCheck, Awaited, Address, Download, Upload
<1>6. CASE Transfer(ready)
  BY <1>1, <1>2, <1>6 DEF Transfer, NextWord, Awaited, Address, LastWord
<1>7. CASE FlushStart \/ FlushRead
  BY <1>1, <1>3, <1>7 DEF FlushStart, FlushRead, Awaited, Address, Download, Upload
<1>8. CASE FlushCheck
  BY <1>1, <1>2, <1>3, <1>8 DEF FlushCheck, Awaited, Address, Download, Upload, LastBlock
<1> QED BY <1>4, <1>5, <1>6, <1>7, <1>8 DEF Bus

(* A clock cycle preserves the handshake of the two controllers. *)
LEMMA HandshakeClock ==
  ASSUME TypeOK, Handshake, NEW stb \in BOOLEAN, NEW fence \in BOOLEAN, NEW r \in Lines,
         NEW ready \in BOOLEAN, Host(stb, fence, r), Bus(r, ready)
  PROVE  Handshake'
<1> USE DEF Handshake, Download, Upload, Flush
<1>1. CASE bstate = "idle"
  <2>1. hstate' = IF hstate = "idle" /\ sync_buf THEN "wait_sync"
                  ELSE IF hstate = "check" /\ ~hit THEN "wait_miss" ELSE hstate'
    BY DEF Host, HostIdle, HostCheck, HostWait
  <2> QED BY <1>1, <2>1, BusStep
<1>2. CASE bstate # "idle"
  <2>1. hstate' = hstate
    BY <1>2 DEF Host, HostIdle, HostCheck, HostWait, busy, TypeOK
  <2> QED BY <1>2, <2>1, BusStep DEF TypeOK, Awaited
<1> QED BY <1>1, <1>2

(* A clock cycle preserves what the host controller knows of the access. *)
LEMMA WorkingClock ==
  ASSUME TypeOK, Working, NEW stb \in BOOLEAN, NEW fence \in BOOLEAN, NEW r \in Lines,
         NEW ready \in BOOLEAN, Host(stb, fence, r), Environment(stb, fence, r, ready)
  PROVE  Working'
<1>1. /\ (req_buf \/ hstate \in {"check", "wait_miss", "error"} => open \/ refused)'
      /\ (~read_only => ~refused /\ hstate # "error")'
  BY DEF Working, Host, HostIdle, HostCheck, HostWait, ReqBuf, Environment, TypeOK, ack, err, hit
<1>2. (read_only /\ hstate \in {"check", "wait_miss"} => ~req.rw)'
  <2>1. CASE hstate = "idle"
    BY <2>1 DEF Host, HostIdle, HostCheck, HostWait, Environment
  <2>2. CASE hstate \in {"check", "wait_miss"}
    <3>1. ~stb
      BY <2>2 DEF Working, Environment, LinesIn, TypeOK
    <3>2. r = req \/ r = [req EXCEPT !.rw = FALSE]
      BY <3>1 DEF Environment, LinesIn
    <3> QED BY <2>2, <3>2 DEF Working, Environment, TypeOK, Lines
  <2>3. CASE hstate \in {"wait_sync", "error"}
    BY <2>3 DEF Host, HostIdle, HostCheck, HostWait
  <2> QED BY <2>1, <2>2, <2>3 DEF TypeOK
<1> QED BY <1>1, <1>2 DEF Working

-----------------------------------------------------------------------------
(* The memories and what is read from them. *)

(* What a cycle does to each block and each word. *)
LEMMA MemoriesAt ==
  ASSUME TypeOK, NEW r \in Lines, NEW ready \in BOOLEAN, Memories(r, ready)
  PROVE  LET a == Applied(r) IN
         /\ \A j \in Block :
              /\ valid'[j] <=> IF j = a.idx THEN MakesNew \/ (valid[j] /\ ~Invalidates)
                               ELSE valid[j]
              /\ dirty'[j] <=> IF j = a.idx THEN ~MakesNew /\ (dirty[j] \/ StoresWord(r))
                               ELSE dirty[j]
              /\ tag'[j] = IF j = a.idx /\ MakesNew THEN a.tag ELSE tag[j]
         /\ \A j \in Block, o \in Offset : j # a.idx \/ o # a.ofs => word'[j][o] = word[j][o]
         /\ bstate = "download_rsp" /\ ready =>
              word'[a.idx][a.ofs].data = mem[addr] /\ (word'[a.idx][a.ofs].stat <=> addr \in Bad)
         /\ bstate # "download_rsp" =>
              /\ word'[a.idx][a.ofs].stat = word[a.idx][a.ofs].stat
              /\ word'[a.idx][a.ofs].data =
                   IF StoresWord(r) THEN r.data ELSE word[a.idx][a.ofs].data
<1> DEFINE a == Applied(r)
<1>1. a \in Address /\ a.idx \in Block /\ a.ofs \in Offset /\ a.tag \in 0 .. Tags - 1
  BY AppliedType
<1>2. \A j \in Block :
              /\ valid'[j] <=> IF j = a.idx THEN MakesNew \/ (valid[j] /\ ~Invalidates)
                               ELSE valid[j]
              /\ dirty'[j] <=> IF j = a.idx THEN ~MakesNew /\ (dirty[j] \/ StoresWord(r))
                               ELSE dirty[j]
              /\ tag'[j] = IF j = a.idx /\ MakesNew THEN a.tag ELSE tag[j]
  BY <1>1 DEF Memories, Status, TypeOK
<1> DEFINE w == DataIn(word[a.idx][a.ofs], r, ready)
<1>3. /\ \A j \in Block, o \in Offset : j # a.idx \/ o # a.ofs => word'[j][o] = word[j][o]
      /\ word'[a.idx][a.ofs] = w
  <2>1. word' = [word EXCEPT ![a.idx][a.ofs] = w]
    BY DEF Memories, Data
  <2> HIDE DEF w
  <2> QED BY <2>1, <1>1 DEF TypeOK
<1>4. bstate = "download_rsp" /\ ready => w.data = mem[addr] /\ (w.stat <=> addr \in Bad)
  BY DEF DataIn
<1>5. bstate # "download_rsp" =>
              /\ w.stat = word[a.idx][a.ofs].stat
              /\ w.data = IF StoresWord(r) THEN r.data ELSE word[a.idx][a.ofs].data
  BY <1>1 DEF DataIn, TypeOK
<1> QED BY <1>2, <1>3, <1>4, <1>5

(* The read registers take what is stored, after a write of the word. *)
LEMMA SeenAt ==
  ASSUME TypeOK, NEW r \in Lines, NEW ready \in BOOLEAN, Memories(r, ready)
  PROVE  LET a == Applied(r) IN
         /\ seen'.valid = valid[a.idx] /\ seen'.dirty = dirty[a.idx] /\ seen'.tag = tag[a.idx]
         /\ seen'.acc_tag = a.tag /\ seen'.acc_idx = a.idx
         /\ seen'.data = word'[a.idx][a.ofs].data /\ seen'.stat = word'[a.idx][a.ofs].stat
BY DEF Memories, ReadRegisters

(* In most cycles nothing is written. *)
LEMMA MemoriesKept ==
  ASSUME TypeOK, NEW r \in Lines, NEW ready \in BOOLEAN, Memories(r, ready),
         ~Awaited, bstate # "flush_check", ~StoresWord(r)
  PROVE  UNCHANGED <<valid, dirty, tag, word>>
<1> DEFINE a == Applied(r)
<1>1. a.idx \in Block /\ a.ofs \in Offset
  BY AppliedType
<1>2. UNCHANGED <<valid, dirty, tag>>
  BY <1>1 DEF Memories, Status, TypeOK, MakesNew, Invalidates
<1>3. bstate # "download_rsp"
  BY DEF Awaited
<1>4. word' = [word EXCEPT ![a.idx][a.ofs] = word[a.idx][a.ofs]]
  BY <1>3 DEF Memories, Data, DataIn
<1>5. UNCHANGED word
  BY <1>4, <1>1 DEF TypeOK
<1> QED BY <1>2, <1>5

(* While the host controller works on an access its address stays. *)
LEMMA Steady ==
  ASSUME TypeOK, Working, NEW stb \in BOOLEAN, NEW r \in Lines, LinesIn(stb, r),
         req_buf \/ hstate \in {"check", "wait_miss", "error"}
  PROVE  /\ ~stb
         /\ r.addr = req.addr
         /\ open \/ ~read_only => r = req
BY DEF TypeOK, Working, LinesIn, Lines

(* The bus controller rests while the host controller looks at a block. *)
LEMMA BusRests ==
  ASSUME TypeOK, Handshake, hstate \in {"idle", "check", "error"}
  PROVE  bstate = "idle"
BY DEF TypeOK, Handshake, Download, Upload, Flush

(* A store that hits: the block becomes dirty, the word is the new one. *)
LEMMA StoreOnlyOnHit ==
  ASSUME NEW r, StoresWord(r)
  PROVE bstate = "idle" /\ hstate = "check" /\ hit /\ r.rw /\ ~read_only
BY DEF StoresWord, busy

(* A clock cycle preserves what the read registers show. *)
LEMMA SeenClock ==
  ASSUME TypeOK, Handshake, Working, SeenInv, BusInv,
         NEW stb \in BOOLEAN, NEW fence \in BOOLEAN, NEW r \in Lines, NEW ready \in BOOLEAN,
         Edge(stb, fence, r, ready)
  PROVE  SeenInv'
<1> DEFINE a == Applied(r)
<1>1. /\ seen'.valid = valid[a.idx] /\ seen'.dirty = dirty[a.idx] /\ seen'.tag = tag[a.idx]
      /\ seen'.acc_tag = a.tag /\ seen'.acc_idx = a.idx
      /\ seen'.data = word'[a.idx][a.ofs].data /\ seen'.stat = word'[a.idx][a.ofs].stat
  BY SeenAt DEF Edge
<1>2. req' = r /\ read_only' = read_only
  BY DEF Edge, Environment
<1>3. ASSUME hstate' = "check"
      PROVE  LET b == req'.addr IN
       /\ seen'.valid = valid'[b.idx] /\ seen'.dirty = dirty'[b.idx] /\ seen'.tag = tag'[b.idx]
       /\ seen'.acc_tag = b.tag /\ seen'.acc_idx = b.idx
       /\ seen'.data = word'[b.idx][b.ofs].data /\ seen'.stat = word'[b.idx][b.ofs].stat
  <2>1. bstate = "idle" /\ hstate # "check"
    BY <1>3, BusRests DEF Edge, Host, HostIdle, HostCheck, HostWait, busy
  <2>2. UNCHANGED <<valid, dirty, tag, word>>
    BY <2>1, MemoriesKept, StoreOnlyOnHit DEF Edge, Awaited
  <2>3. a = r.addr
    BY <2>1 DEF Applied, busy
  <2> QED BY <1>1, <1>2, <2>2, <2>3
<1>4. ASSUME bstate' = "check"
      PROVE  /\ seen'.acc_idx = req'.addr.idx
             /\ is_dirty' <=> ~read_only' /\ Dirty(seen.acc_idx)'
             /\ is_dirty' => seen'.tag = tag'[seen'.acc_idx]
  <2>1. bstate = "idle" /\ hstate = "check" /\ ~hit
    BY <1>4, BusStep DEF Edge, TypeOK, Awaited, Handshake
  <2>2. UNCHANGED <<valid, dirty, tag, word>>
    BY <2>1, MemoriesKept, StoreOnlyOnHit DEF Edge, Awaited
  <2>3. a = r.addr
    BY <2>1 DEF Applied, busy
  <2> QED BY <1>1, <1>2, <2>2, <2>3 DEF is_dirty, Dirty
<1>5. ASSUME bstate' = "flush_check"
      PROVE  /\ is_dirty' <=> ~read_only' /\ Dirty(addr.idx)'
             /\ is_dirty' => seen'.tag = tag'[addr'.idx]
  <2>1. CASE bstate = "flush_read"
    <3>1. UNCHANGED <<valid, dirty, tag, word>>
      BY <2>1, MemoriesKept, StoreOnlyOnHit DEF Edge, Awaited
    <3>2. a = addr /\ addr' = addr
      BY <2>1, BusStep DEF Applied, busy, Edge
    <3> QED BY <1>1, <1>2, <3>1, <3>2 DEF is_dirty, Dirty
  <2>2. CASE bstate # "flush_read"
    <3>1. bstate = "upload_rsp" /\ upret = "flush_check"
      BY <1>5, <2>2, BusStep DEF Edge, Awaited, TypeOK
    <3>2. a = addr /\ addr'.idx = addr.idx
      BY <3>1, BusStep DEF Applied, busy, Edge, Awaited
    <3>3. ~Dirty(addr.idx)
      BY <3>1 DEF BusInv, Upload
    <3>4. ~dirty'[addr.idx]
      BY <3>1, <3>2, MemoriesAt DEF Edge, MakesNew, Awaited, TypeOK, Address
    <3> QED BY <1>1, <1>2, <3>2, <3>3, <3>4 DEF is_dirty, Dirty
  <2> QED BY <2>1, <2>2
<1>6. ASSUME bstate' \in {"upload_req", "upload_rsp"}
      PROVE  seen'.data = word'[addr'.idx][addr'.ofs].data
  <2>1. bstate \in {"upload_get", "upload_req", "upload_rsp"} /\ addr' = addr
    BY <1>6, BusStep DEF Edge, Awaited, TypeOK, Handshake
  <2>2. a = addr
    BY <2>1 DEF Applied, busy
  <2> QED BY <1>1, <2>1, <2>2
<1> QED BY <1>3, <1>4, <1>5, <1>6 DEF SeenInv

(* A clock cycle preserves what is known of the block the bus controller   *)
(* works on.                                                               *)
LEMMA BusInvClock ==
  ASSUME TypeOK, Handshake, Working, SeenInv, BusInv,
         NEW stb \in BOOLEAN, NEW fence \in BOOLEAN, NEW r \in Lines, NEW ready \in BOOLEAN,
         Edge(stb, fence, r, ready)
  PROVE  BusInv'
<1> DEFINE a == Applied(r)
<1>1. addr \in Address /\ addr.ofs \in Offset /\ addr.idx \in Block /\ seen.acc_idx \in Block
  BY DEF TypeOK, Address
<1>2. read_only' = read_only /\ (bstate # "idle" => a = addr)
  BY DEF Edge, Environment, Applied, busy
<1>3. ASSUME read_only'
      PROVE  bstate' \notin Upload /\ \A i \in Block : ~dirty'[i]
  <2>1. bstate \notin Upload /\ ~is_dirty /\ \A i \in Block : ~dirty[i]
    BY <1>2, <1>3 DEF BusInv, is_dirty
  <2>2. bstate' \notin Upload
    BY <2>1, BusStep DEF Edge, Upload, TypeOK, Awaited
  <2>3. \A i \in Block : ~dirty'[i]
    BY <2>1, <1>2, <1>3, MemoriesAt DEF Edge, StoresWord
  <2> QED BY <2>2, <2>3
<1>4. ASSUME bstate' \in Download
      PROVE  /\ ~Dirty(addr.idx)'
             /\ addr'.ofs > 0 => valid'[addr'.idx] /\ tag'[addr'.idx] = addr'.tag
  <2>1. CASE bstate = "check"
    <3>1. UNCHANGED <<valid, dirty, tag, word>>
      BY <2>1, MemoriesKept, StoreOnlyOnHit DEF Edge, Awaited
    <3>2. ~is_dirty /\ addr'.idx = seen.acc_idx /\ addr'.ofs = 0
      BY <2>1, <1>4, BusStep DEF Edge, Download
    <3>3. ~Dirty(seen.acc_idx)
      BY <2>1, <3>2, <1>1 DEF SeenInv, BusInv, Dirty
    <3> QED BY <3>1, <3>2, <3>3 DEF Dirty
  <2>2. CASE bstate = "download_req"
    <3>1. UNCHANGED <<valid, dirty, tag, word>>
      BY <2>2, MemoriesKept, StoreOnlyOnHit DEF Edge, Awaited
    <3> QED BY <2>2, <3>1, BusStep DEF Edge, BusInv, Dirty, Download
  <2>3. CASE Awaited
    <3>1. a = addr /\ addr'.idx = addr.idx /\ addr'.tag = addr.tag
      BY <2>3, <1>2, BusStep DEF Edge, Awaited
    <3>2. ~dirty'[addr.idx] /\ valid'[addr.idx] /\ tag'[addr.idx] = addr.tag
      BY <2>3, <3>1, <1>1, MemoriesAt DEF Edge, MakesNew
    <3> QED BY <3>1, <3>2 DEF Dirty
  <2> QED
    BY <1>4, <2>1, <2>2, <2>3, BusStep DEF Edge, Download, TypeOK, Awaited
<1>5. ASSUME bstate' \in Upload
      PROVE  /\ tag'[addr'.idx] = addr'.tag
             /\ upret' = "flush_check" \/ addr'.ofs > 0 => ~Dirty(addr.idx)'
  <2>1. CASE bstate = "check"
    <3>1. UNCHANGED <<valid, dirty, tag, word>>
      BY <2>1, MemoriesKept, StoreOnlyOnHit DEF Edge, Awaited
    <3>2. is_dirty /\ addr'.idx = seen.acc_idx /\ addr'.ofs = 0 /\ addr'.tag = seen.tag
          /\ upret' = "download_req"
      BY <2>1, <1>5, BusStep DEF Edge, Upload
    <3> QED BY <2>1, <3>1, <3>2 DEF SeenInv
  <2>2. CASE bstate = "flush_check"
    <3>1. is_dirty /\ addr'.idx = addr.idx /\ addr'.tag = seen.tag
      BY <2>2, <1>5, BusStep DEF Edge, Upload
    <3>2. ~valid'[addr.idx] /\ tag'[addr.idx] = tag[addr.idx]
      BY <2>2, <1>1, <1>2, MemoriesAt DEF Edge, MakesNew, Awaited, Invalidates
    <3> QED BY <2>2, <3>1, <3>2 DEF SeenInv, Dirty
  <2>3. CASE bstate \in {"upload_get", "upload_req"}
    <3>1. UNCHANGED <<valid, dirty, tag, word>>
      BY <2>3, MemoriesKept, StoreOnlyOnHit DEF Edge, Awaited
    <3> QED BY <2>3, <3>1, BusStep DEF Edge, BusInv, Dirty, Upload
  <2>4. CASE Awaited
    <3>1. a = addr /\ addr'.idx = addr.idx /\ addr'.tag = addr.tag
      BY <2>4, <1>2, BusStep DEF Edge, Awaited
    <3>2. ~dirty'[addr.idx] /\ valid'[addr.idx] /\ tag'[addr.idx] = addr.tag
      BY <2>4, <3>1, <1>1, MemoriesAt DEF Edge, MakesNew
    <3> QED BY <3>1, <3>2 DEF Dirty
  <2> QED
    BY <1>5, <2>1, <2>2, <2>3, <2>4, BusStep DEF Edge, Upload, TypeOK, Awaited
<1>6. ASSUME bstate' \in {"flush_read", "flush_check"} \cup Upload, upret' = "flush_check",
             NEW j \in Block, j < addr'.idx
      PROVE  ~valid'[j]
  <2>1. CASE bstate \in {"idle", "check", "download_req", "download_rsp", "flush_start"}
    BY <1>1, <1>6, <2>1, BusStep DEF Edge, Upload, Awaited, Block
  <2>2. CASE bstate \in {"upload_get", "upload_req", "flush_read"}
    <3>1. UNCHANGED <<valid, dirty, tag, word>>
      BY <2>2, MemoriesKept, StoreOnlyOnHit DEF Edge, Awaited
    <3>2. upret = "flush_check" /\ addr' = addr
      BY <1>6, <2>2, BusStep DEF Edge
    <3> QED BY <1>6, <2>2, <3>1, <3>2 DEF BusInv, Upload
  <2>3. CASE bstate = "upload_rsp"
    <3>1. upret = "flush_check" /\ addr'.idx = addr.idx
      BY <1>6, <2>3, BusStep DEF Edge, Awaited
    <3>2. j # addr.idx /\ ~valid[j]
      BY <1>6, <2>3, <3>1, <1>1 DEF BusInv, Upload, Block
    <3> QED BY <2>3, <3>2, <1>2, MemoriesAt DEF Edge
  <2>4. CASE bstate = "flush_check"
    <3>1. upret = "flush_check" /\ addr'.idx \in {addr.idx, addr.idx + 1}
      BY <1>6, <2>4, BusStep DEF Edge, Upload
    <3>2. CASE j = addr.idx
      BY <2>4, <3>2, <1>2, MemoriesAt DEF Edge, MakesNew, Awaited, Invalidates
    <3>3. CASE j # addr.idx
      <4>1. j < addr.idx
        BY <3>1, <3>3, <1>1, <1>6 DEF Block
      <4>2. ~valid[j]
        BY <4>1, <2>4, <3>1 DEF BusInv
      <4> QED BY <4>2, <2>4, <3>3, <1>2, MemoriesAt DEF Edge
    <3> QED BY <3>2, <3>3
  <2> QED BY <2>1, <2>2, <2>3, <2>4 DEF TypeOK
<1>7. ASSUME hstate' = "wait_sync", bstate' = "idle", NEW j \in Block
      PROVE  ~valid'[j]
  <2>1. bstate = "flush_check" /\ ~is_dirty /\ LastBlock
    BY <1>7, BusRests, BusStep DEF Edge, Host, HostIdle, HostCheck, HostWait, TypeOK, busy, Awaited,
         Handshake, Download, Upload
  <2>2. j <= addr.idx /\ upret = "flush_check"
    BY <2>1, <1>1, CacheAssumption DEF LastBlock, Block, Handshake
  <2>3. CASE j = addr.idx
    BY <2>1, <2>3, <1>2, MemoriesAt DEF Edge, MakesNew, Awaited, Invalidates
  <2>4. CASE j # addr.idx
    <3>1. ~valid[j]
      BY <2>1, <2>2, <2>4, <1>1 DEF BusInv, Block
    <3> QED BY <3>1, <2>1, <2>4, <1>2, MemoriesAt DEF Edge
  <2> QED BY <2>3, <2>4
<1> QED BY <1>3, <1>4, <1>5, <1>6, <1>7 DEF BusInv

-----------------------------------------------------------------------------
(* Where the newest values are. *)

(* What a cycle changes in what later reads may return. *)
LEMMA FreshStep ==
  ASSUME TypeOK, Handshake, Working,
         NEW stb \in BOOLEAN, NEW fence \in BOOLEAN, NEW r \in Lines, NEW ready \in BOOLEAN,
         Environment(stb, fence, r, ready)
  PROVE  \/ read_only /\ fence /\ fresh' = [a \in Address |-> IF a \in Bad THEN {} ELSE {mem[a]}]
         \/ /\ StoresWord(r) /\ ack /\ r = req
            /\ fresh' = [fresh EXCEPT ![r.addr] = {r.data}]
         \/ /\ StoresWord(r) => ~ack /\ r = req
            /\ fresh' = fresh /\ ~(fence /\ read_only)
<1>1. CASE fence /\ read_only
  BY <1>1 DEF Environment
<1>2. CASE ~(fence /\ read_only) /\ open /\ ack /\ r.rw
  <2>1. hstate = "check" /\ hit
    BY <1>2, BusRests DEF ack
  <2>2. bstate = "idle" /\ r = req
    BY <1>2, <2>1, BusRests, Steady DEF Environment
  <2> QED BY <1>2, <2>1, <2>2 DEF Environment, StoresWord, busy, Working
<1>3. CASE ~(fence /\ read_only) /\ ~(open /\ ack /\ r.rw)
  <2>1. StoresWord(r) => open /\ r = req
    BY Steady DEF StoresWord, Working, Environment
  <2> QED BY <1>3, <2>1 DEF Environment, StoresWord
<1> QED BY <1>1, <1>2, <1>3

(* The host controller looks at the block of the request. *)
LEMMA HitMeans ==
  ASSUME TypeOK, SeenInv, hstate = "check", hit
  PROVE  /\ req.addr.idx \in Block /\ req.addr.ofs \in Offset
         /\ valid[req.addr.idx] /\ tag[req.addr.idx] = req.addr.tag
         /\ req.addr = LineOf(req.addr.idx, req.addr.ofs)
BY DEF TypeOK, SeenInv, hit, LineOf, Lines, Address

(* A clock cycle loses no data: what leaves a block reaches the memory. *)
LEMMA MemInvClock ==
  ASSUME TypeOK, Handshake, Working, SeenInv, BusInv, MemInv, WordInv,
         NEW stb \in BOOLEAN, NEW fence \in BOOLEAN, NEW r \in Lines, NEW ready \in BOOLEAN,
         Edge(stb, fence, r, ready)
  PROVE  MemInv'
<1> SUFFICES ASSUME NEW a \in Address \ Bad
             PROVE  \/ mem'[a] \in fresh'[a]
                    \/ Dirty(a.idx)' /\ tag'[a.idx] = a.tag
                    \/ Uploading(a)'
  BY DEF MemInv
<1>1. /\ a.idx \in Block /\ a.ofs \in Offset
      /\ addr.idx \in Block /\ addr.ofs \in Offset /\ addr \in Address
  BY DEF TypeOK, Address
<1>2. bstate # "idle" => Applied(r) = addr
  BY DEF Applied, busy
<1>3. \/ mem' = mem
      \/ bstate = "upload_rsp" /\ ready /\ addr \notin Bad /\ mem' = [mem EXCEPT ![addr] = seen.data]
  BY DEF Edge, Environment
<1>4. CASE read_only /\ fence /\ fresh' = [b \in Address |-> IF b \in Bad THEN {} ELSE {mem[b]}]
  <2>1. mem' = mem
    BY <1>3, <1>4 DEF BusInv, Upload
  <2> QED BY <1>4, <2>1
<1>5. CASE StoresWord(r) /\ ack /\ r = req /\ fresh' = [fresh EXCEPT ![r.addr] = {r.data}]
  <2>1. bstate = "idle" /\ hstate = "check" /\ hit /\ Applied(r) = req.addr
    BY <1>5 DEF StoresWord, Applied, busy
  <2>2. \A j \in Block : (valid'[j] <=> valid[j]) /\ (dirty[j] => dirty'[j]) /\ tag'[j] = tag[j]
    BY <2>1, MemoriesAt DEF Edge, MakesNew, Awaited, Invalidates
  <2>3. CASE a = req.addr
    <3>1. valid[a.idx] /\ tag[a.idx] = a.tag
      BY <2>1, <2>3, HitMeans
    <3>2. dirty'[a.idx]
      BY <1>1, <1>5, <2>1, <2>3, MemoriesAt DEF Edge, MakesNew, Awaited
    <3> QED BY <1>1, <2>2, <3>1, <3>2 DEF Dirty
  <2>4. CASE a # req.addr
    <3>1. mem' = mem /\ fresh'[a] = fresh[a]
      BY <1>3, <1>5, <2>1, <2>4 DEF TypeOK
    <3> QED BY <1>1, <2>1, <2>2, <3>1 DEF MemInv, Uploading, Dirty, Upload
  <2> QED BY <2>3, <2>4
<1>6. CASE fresh' = fresh
  <2>1. CASE ~Awaited /\ bstate # "flush_check"
    <3>1. \A j \in Block : (valid'[j] <=> valid[j]) /\ (dirty[j] => dirty'[j]) /\ tag'[j] = tag[j]
      BY <2>1, MemoriesAt DEF Edge, MakesNew, Invalidates
    <3>2. mem' = mem
      BY <1>3, <2>1 DEF Awaited
    <3>3. bstate \in Upload => bstate' \in Upload /\ addr' = addr
      BY <2>1, BusStep DEF Edge, Uploading, Upload, Awaited
    <3> QED BY <1>1, <1>6, <3>1, <3>2, <3>3 DEF MemInv, Uploading, Dirty
  <2>2. CASE bstate = "download_rsp"
    <3>1. mem' = mem /\ ~Dirty(addr.idx)
      BY <1>3, <2>2 DEF BusInv, Download
    <3>2. Dirty(a.idx) => Dirty(a.idx)' /\ tag'[a.idx] = tag[a.idx]
      BY <1>1, <1>2, <2>2, <3>1, MemoriesAt DEF Edge, Invalidates, Dirty
    <3> QED BY <1>6, <2>2, <3>1, <3>2 DEF MemInv, Uploading, Upload
  <2>3. CASE bstate = "flush_check"
    <3>1. mem' = mem
      BY <1>3, <2>3
    <3>2. a.idx # addr.idx /\ Dirty(a.idx) => Dirty(a.idx)' /\ tag'[a.idx] = tag[a.idx]
      BY <1>1, <1>2, <2>3, MemoriesAt DEF Edge, Dirty
    <3>3. ASSUME a.idx = addr.idx, Dirty(a.idx), tag[a.idx] = a.tag
          PROVE  Uploading(a)'
      <4>1. is_dirty /\ seen.tag = a.tag
        BY <1>1, <2>3, <3>3 DEF SeenInv, BusInv, Dirty
      <4> QED BY <1>1, <2>3, <3>3, <4>1, BusStep DEF Edge, Uploading, Upload, Offset
    <3> QED BY <1>6, <2>3, <3>1, <3>2, <3>3 DEF MemInv, Uploading, Upload
  <2>4. CASE bstate = "upload_rsp"
    <3>1. tag[addr.idx] = addr.tag /\ (Dirty(addr.idx) => addr.ofs = 0)
      BY <1>1, <2>4 DEF BusInv, Upload, Offset
    <3>2. a.idx # addr.idx => (Dirty(a.idx) => Dirty(a.idx)') /\ tag'[a.idx] = tag[a.idx]
      BY <1>1, <1>2, <2>4, MemoriesAt DEF Edge, Dirty
    <3>3. CASE a = addr /\ ready
      <4>1. seen.data = word[addr.idx][addr.ofs].data /\ addr = LineOf(addr.idx, addr.ofs)
        BY <2>4, <3>1 DEF SeenInv, LineOf, TypeOK, Address
      <4>2. ~FlushPending /\ Present(addr.idx, addr.ofs)
        BY <2>4 DEF FlushPending, Present, BusInv, Upload
      <4>3. seen.data \in fresh[addr]
        BY <1>1, <3>3, <4>1, <4>2 DEF WordInv
      <4>4. mem'[addr] = seen.data
        BY <2>4, <3>3 DEF Edge, Environment, TypeOK
      <4> QED BY <1>6, <3>3, <4>3, <4>4
    <3>4. CASE ~(a = addr /\ ready)
      <4>1. mem'[a] = mem[a]
        BY <1>3, <3>4 DEF TypeOK
      <4>2. ASSUME addr.idx = a.idx, addr.tag = a.tag, addr.ofs <= a.ofs
            PROVE  Uploading(a)'
        <5>1. CASE ~ready
          BY <2>4, <4>2, <5>1, BusStep DEF Edge, Uploading, Upload, Awaited
        <5>2. CASE ready
          <6>1. addr.ofs # a.ofs
            BY <3>4, <4>2, <5>2, <1>1 DEF Address
          <6>2. ~LastWord /\ addr.ofs + 1 <= a.ofs
            BY <6>1, <4>2, <1>1, CacheAssumption DEF LastWord, Offset
          <6> QED BY <2>4, <4>2, <5>2, <6>2, BusStep DEF Edge, Uploading, Upload, Awaited
        <5> QED BY <5>1, <5>2
      <4>3. ASSUME addr.idx = a.idx, Dirty(a.idx), tag[a.idx] = a.tag
            PROVE  Uploading(a)'
        BY <4>2, <4>3, <3>1, <1>1 DEF Offset
      <4> QED BY <1>6, <2>4, <3>2, <4>1, <4>2, <4>3 DEF MemInv, Uploading
    <3> QED BY <3>3, <3>4
  <2> QED BY <2>1, <2>2, <2>3, <2>4 DEF Awaited
<1> QED BY <1>4, <1>5, <1>6, FreshStep DEF Edge

(* A fence is pending until the flush it starts has emptied the cache. *)
LEMMA FlushPendingStep ==
  ASSUME TypeOK, Handshake, BusInv,
         NEW stb \in BOOLEAN, NEW fence \in BOOLEAN, NEW r \in Lines, NEW ready \in BOOLEAN,
         Edge(stb, fence, r, ready), ~FlushPending'
  PROVE  \/ ~FlushPending /\ ~(read_only /\ fence)
         \/ /\ bstate = "idle" /\ hstate = "wait_sync" /\ bstate' = "idle"
            /\ \A j \in Block : ~valid[j] /\ ~valid'[j]
<1>1. read_only' = read_only
  BY DEF Edge, Environment
<1>2. CASE hstate = "wait_sync" /\ bstate = "idle"
  <2>1. bstate' = "idle" /\ \A j \in Block : ~valid[j]
    BY <1>2, BusStep DEF Edge, BusInv
  <2>2. \A j \in Block : ~valid'[j]
    BY <1>2, <2>1, MemoriesAt DEF Edge, MakesNew, Awaited
  <2> QED BY <1>2, <2>1, <2>2
<1>3. CASE hstate = "wait_sync" /\ bstate # "idle"
  BY <1>1, <1>3 DEF Edge, Host, HostIdle, HostCheck, HostWait, busy, FlushPending
<1>4. CASE hstate # "wait_sync"
  BY <1>1, <1>4 DEF Edge, Host, SyncBuf, FlushPending
<1> QED BY <1>2, <1>3, <1>4

(* The word that a download has just delivered. *)
LEMMA WordArrives ==
  ASSUME TypeOK, Handshake, Working, SeenInv, BusInv, MemInv, NEW i \in Block, NEW o \in Offset,
         NEW stb \in BOOLEAN, NEW fence \in BOOLEAN, NEW r \in Lines, NEW ready \in BOOLEAN,
         Edge(stb, fence, r, ready), Present(i, o)',
         bstate = "download_rsp", i = addr.idx, o = addr.ofs
  PROVE  /\ word'[i][o].data = mem[addr]
         /\ word'[i][o].stat <=> addr \in Bad
         /\ LineOf(i, o)' = addr
         /\ addr \notin Bad => mem[addr] \in fresh[addr]
<1>1. addr.idx \in Block /\ addr.ofs \in Offset /\ addr \in Address /\ Applied(r) = addr
  BY DEF TypeOK, Address, Applied, busy
<1>2. ready
  <2>1. addr.ofs <= addr.ofs
    BY <1>1, CacheAssumption DEF Offset
  <2>2. ~ready => bstate' = "download_rsp" /\ addr' = addr
    BY BusStep DEF Edge, Awaited
  <2> QED BY <2>1, <2>2 DEF Present, Download, Upload
<1>3. word'[i][o].data = mem[addr] /\ (word'[i][o].stat <=> addr \in Bad)
  BY <1>1, <1>2, MemoriesAt DEF Edge
<1>4. tag'[i] = addr.tag
  BY <1>1, MemoriesAt DEF Edge, MakesNew, Awaited
<1>5. LineOf(i, o)' = addr
  BY <1>1, <1>4 DEF LineOf, Address
<1>6. addr \notin Bad => mem[addr] \in fresh[addr]
  BY <1>1 DEF MemInv, Uploading, BusInv, Download, Upload
<1> QED BY <1>3, <1>5, <1>6

(* Every other word that is present was there before. *)
LEMMA WordStays ==
  ASSUME TypeOK, Handshake, Working, SeenInv, BusInv, NEW i \in Block, NEW o \in Offset,
         NEW stb \in BOOLEAN, NEW fence \in BOOLEAN, NEW r \in Lines, NEW ready \in BOOLEAN,
         Edge(stb, fence, r, ready), Present(i, o)',
         ~(bstate = "download_rsp" /\ i = addr.idx /\ o = addr.ofs)
  PROVE  /\ Present(i, o) /\ LineOf(i, o)' = LineOf(i, o)
         /\ word'[i][o].stat = word[i][o].stat
         /\ ~StoresWord(r) => word'[i][o].data = word[i][o].data
<1>1. addr.idx \in Block /\ addr.ofs \in Offset /\ addr \in Address
  BY DEF TypeOK, Address
<1>2. bstate # "idle" => Applied(r) = addr
  BY DEF Applied, busy
<1>3. ~(bstate = "download_rsp" /\ i = addr.idx /\ o = addr.ofs)
  OBVIOUS
<1>4. Present(i, o) /\ tag'[i] = tag[i]
  <2>1. CASE bstate = "idle"
    BY <1>1, <2>1, MemoriesAt, BusStep
    DEF Edge, Present, MakesNew, Awaited, Invalidates, Upload, Download
  <2>2. CASE bstate = "check"
    <3>1. UNCHANGED <<valid, dirty, tag, word>>
      BY <2>2, MemoriesKept, StoreOnlyOnHit DEF Edge, Awaited
    <3>2. is_dirty => valid[seen.acc_idx]
      BY <2>2 DEF SeenInv, Dirty
    <3> QED BY <2>2, <3>1, <3>2, BusStep DEF Edge, Present, Upload, Download
  <2>3. CASE bstate \in {"download_req", "upload_get", "upload_req", "flush_start", "flush_read"}
    <3>1. UNCHANGED <<valid, dirty, tag, word>>
      BY <2>3, MemoriesKept, StoreOnlyOnHit DEF Edge, Awaited
    <3> QED BY <2>3, <3>1, BusStep DEF Edge, Present, Upload, Download
  <2>4. CASE bstate = "download_rsp"
    <3>1. CASE i = addr.idx
      <4>1. o < addr.ofs
        BY <1>1, <1>3, <2>4, <3>1, BusStep DEF Edge, Awaited, Present, Upload, Download, Offset
      <4>2. valid[i] /\ tag[i] = addr.tag
        BY <1>1, <2>4, <3>1, <4>1 DEF BusInv, Download, Offset
      <4>3. tag'[i] = addr.tag
        BY <1>1, <1>2, <2>4, <3>1, MemoriesAt DEF Edge, MakesNew, Awaited
      <4> QED BY <1>1, <3>1, <4>1, <4>2, <4>3 DEF Present, Offset
    <3>2. CASE i # addr.idx
      BY <1>2, <2>4, <3>2, MemoriesAt, BusStep DEF Edge, Awaited, Present, Upload, Download
    <3> QED BY <3>1, <3>2
  <2>5. CASE bstate = "upload_rsp"
    <3>1. tag[addr.idx] = addr.tag
      BY <2>5 DEF BusInv, Upload
    <3> QED BY <1>1, <1>2, <2>5, <3>1, MemoriesAt, BusStep
            DEF Edge, Awaited, Present, Upload, Download
  <2>6. CASE bstate = "flush_check"
    <3>1. is_dirty => valid[addr.idx]
      BY <2>6 DEF SeenInv, Dirty
    <3> QED BY <1>1, <1>2, <2>6, <3>1, MemoriesAt, BusStep
            DEF Edge, MakesNew, Awaited, Invalidates, Present, Upload, Download
  <2> QED BY <2>1, <2>2, <2>3, <2>4, <2>5, <2>6 DEF TypeOK
<1>5. /\ word'[i][o].stat = word[i][o].stat
      /\ ~StoresWord(r) => word'[i][o].data = word[i][o].data
  BY <1>2, MemoriesAt DEF Edge
<1> QED BY <1>4, <1>5 DEF LineOf

(* A clock cycle keeps the words that are present fresh. *)
LEMMA WordInvClock ==
  ASSUME TypeOK, Handshake, Working, SeenInv, BusInv, MemInv, WordInv,
         NEW stb \in BOOLEAN, NEW fence \in BOOLEAN, NEW r \in Lines, NEW ready \in BOOLEAN,
         Edge(stb, fence, r, ready)
  PROVE  WordInv'
<1> SUFFICES ASSUME NEW i \in Block, NEW o \in Offset, Present(i, o)'
             PROVE  /\ word'[i][o].stat <=> LineOf(i, o)' \in Bad
                    /\ LineOf(i, o)' \notin Bad /\ ~FlushPending' =>
                         word'[i][o].data \in fresh'[LineOf(i, o)']
  BY DEF WordInv
<1> DEFINE l == LineOf(i, o)
<1>1. addr.idx \in Block /\ addr.ofs \in Offset /\ addr \in Address /\ l \in Address
  BY DEF TypeOK, Address, LineOf
<1>2. bstate # "idle" => Applied(r) = addr
  BY DEF Applied, busy
<1>3. CASE bstate = "download_rsp" /\ i = addr.idx /\ o = addr.ofs
  <2>1. ~FlushPending' => fresh' = fresh
    BY <1>3, FreshStep, FlushPendingStep DEF Edge, StoresWord, busy
  <2> QED BY <1>3, <2>1, WordArrives
<1>4. CASE ~(bstate = "download_rsp" /\ i = addr.idx /\ o = addr.ofs)
  <2>1. Present(i, o) /\ l' = l /\ word'[i][o].stat = word[i][o].stat
    BY <1>4, WordStays
  <2>3. /\ word[i][o].stat <=> l \in Bad
        /\ l \notin Bad /\ ~FlushPending => word[i][o].data \in fresh[l]
    BY <2>1 DEF WordInv
  <2>5. ASSUME l \notin Bad, ~FlushPending'
        PROVE  word'[i][o].data \in fresh'[l]
    <3>1. ~FlushPending /\ ~(read_only /\ fence)
      BY <2>5, <2>1, FlushPendingStep DEF Present, Upload
    <3>2. CASE StoresWord(r) /\ i = r.addr.idx /\ o = r.addr.ofs
      <4>1. hstate = "check" /\ hit /\ Applied(r) = r.addr /\ bstate # "download_rsp"
        BY <3>2 DEF StoresWord, Applied, busy
      <4>2. r = req /\ word'[i][o].data = r.data
        BY <3>2, <4>1, MemoriesAt, FreshStep, <3>1 DEF Edge
      <4>3. r.addr = l
        BY <3>2, <4>1, <4>2, HitMeans DEF LineOf
      <4>4. ack
        BY <4>1, <4>2, <4>3, <2>3, <2>5, <3>2, HitMeans DEF ack, SeenInv
      <4>5. fresh' = [fresh EXCEPT ![l] = {r.data}]
        BY <3>1, <3>2, <4>3, <4>4, FreshStep DEF Edge
      <4> QED BY <1>1, <4>2, <4>5 DEF TypeOK
    <3>3. CASE ~(StoresWord(r) /\ i = r.addr.idx /\ o = r.addr.ofs)
      <4>1. word'[i][o].data = word[i][o].data
        BY <1>2, <1>4, <3>3, MemoriesAt DEF Edge, Applied, StoresWord
      <4>2. fresh'[l] = fresh[l]
        <5>1. CASE StoresWord(r) /\ fresh' = [fresh EXCEPT ![r.addr] = {r.data}]
          <6>1. r.addr # l
            BY <3>3, <5>1 DEF LineOf
          <6> QED BY <1>1, <5>1, <6>1 DEF TypeOK
        <5> QED BY <3>1, <5>1, FreshStep DEF Edge
      <4> QED BY <2>3, <2>5, <3>1, <4>1, <4>2
    <3> QED BY <3>2, <3>3
  <2> QED BY <2>1, <2>3, <2>5
<1> QED BY <1>3, <1>4

(* A clock cycle keeps what the open access may return. *)
LEMMA ReadInvClock ==
  ASSUME TypeOK, Handshake, Working, SeenInv, BusInv, MemInv, WordInv, ReadInv,
         NEW stb \in BOOLEAN, NEW fence \in BOOLEAN, NEW r \in Lines, NEW ready \in BOOLEAN,
         Edge(stb, fence, r, ready)
  PROVE  ReadInv'
<1> DEFINE l == r.addr
<1>1. /\ l \in Address /\ l.idx \in Block /\ l.ofs \in Offset
      /\ addr \in Address /\ addr.idx \in Block /\ addr.ofs \in Offset
  BY DEF TypeOK, Address, Lines
<1>2. l = LineOf(l.idx, l.ofs) <=> tag[l.idx] = l.tag
  BY <1>1 DEF LineOf, Address
<1>3. req' = r
  BY DEF Edge, Environment
<1> SUFFICES ASSUME open', l \notin Bad
             PROVE  /\ fresh'[l] \subseteq want'
                    /\ /\ hstate' \in {"check", "wait_miss"}
                       /\ Present(l.idx, l.ofs)' /\ LineOf(l.idx, l.ofs)' = l
                       =>
                         word'[l.idx][l.ofs].data \in want'
  <2>1. tag'[l.idx] = l.tag => LineOf(l.idx, l.ofs)' = l
    BY <1>1 DEF LineOf, Address
  <2> QED BY <1>3, <2>1 DEF ReadInv
<1>4. IF stb THEN want' = fresh[l] ELSE want' = want /\ open /\ ~ack /\ ~err /\ r = req
  BY DEF Edge, Environment, LinesIn
<1>5. fresh[l] \subseteq want'
  BY <1>4 DEF ReadInv
<1>6. ~StoresWord(r)
  <2>1. hstate = "check" => ~stb
    BY Steady DEF Edge, Environment
  <2> QED BY <1>4, <2>1 DEF StoresWord, ack, err
<1>7. fresh'[l] \subseteq want'
  <2>1. CASE read_only /\ fence /\ fresh' = [a \in Address |-> IF a \in Bad THEN {} ELSE {mem[a]}]
    <3>1. mem[l] \in fresh[l]
      BY <1>1, <2>1 DEF MemInv, Uploading, BusInv, Dirty
    <3> QED BY <1>1, <1>5, <2>1, <3>1
  <2> QED BY <1>5, <1>6, <2>1, FreshStep DEF Edge
<1>8. ASSUME hstate' \in {"check", "wait_miss"}, Present(l.idx, l.ofs)', LineOf(l.idx, l.ofs)' = l
      PROVE  word'[l.idx][l.ofs].data \in want'
  <2>1. CASE bstate = "download_rsp" /\ l.idx = addr.idx /\ l.ofs = addr.ofs
    BY <1>1, <1>5, <1>8, <2>1, WordArrives
  <2>2. CASE ~(bstate = "download_rsp" /\ l.idx = addr.idx /\ l.ofs = addr.ofs)
    <3>1. /\ Present(l.idx, l.ofs) /\ LineOf(l.idx, l.ofs) = l
          /\ word'[l.idx][l.ofs].data = word[l.idx][l.ofs].data
      BY <1>1, <1>6, <1>8, <2>2, WordStays
    <3>2. CASE hstate = "idle"
      <4>1. ~FlushPending
        BY <1>8, <3>2 DEF Edge, Host, HostIdle, HostCheck, HostWait, FlushPending
      <4> QED BY <1>1, <1>5, <3>1, <4>1 DEF WordInv
    <3>3. CASE hstate \in {"check", "wait_miss"}
      <4>1. open /\ r = req /\ want' = want
        BY <1>4, <3>3, Steady DEF Edge, Environment
      <4> QED BY <1>2, <3>1, <3>3, <4>1 DEF ReadInv
    <3> QED
      BY <1>8, <3>2, <3>3 DEF Edge, Host, HostIdle, HostCheck, HostWait, TypeOK
  <2> QED BY <2>1, <2>2
<1> QED BY <1>7, <1>8

-----------------------------------------------------------------------------
(* The theorems. *)

(* The inductive invariant. *)
IInv == TypeOK /\ Handshake /\ Working /\ SeenInv /\ BusInv /\ MemInv /\ WordInv /\ ReadInv

(* Every clock cycle preserves the invariant. *)
LEMMA ClockStep ==
  ASSUME IInv, NEW ready \in BOOLEAN, Clock(ready), TypeOK'
  PROVE  IInv'
<1>1. PICK stb, fence \in BOOLEAN, r \in Accesses \cup {req, [req EXCEPT !.rw = FALSE]} :
        Edge(stb, fence, r, ready)
  BY DEF Clock
<1>2. r \in Lines
  BY <1>1, LinesType DEF IInv, Edge, Environment
<1>3. Handshake'
  BY <1>1, <1>2, HandshakeClock DEF IInv, Edge
<1>4. Working'
  BY <1>1, <1>2, WorkingClock DEF IInv, Edge
<1>5. SeenInv' /\ BusInv'
  BY <1>1, <1>2, SeenClock, BusInvClock DEF IInv
<1>6. MemInv' /\ WordInv' /\ ReadInv'
  BY <1>1, <1>2, MemInvClock, WordInvClock, ReadInvClock DEF IInv
<1> QED BY <1>3, <1>4, <1>5, <1>6 DEF IInv

(* So does a change of the memory behind a read-only cache. *)
LEMMA ChangeStep ==
  ASSUME IInv, NEW a \in Changing, Change(a), TypeOK'
  PROVE  IInv'
<1>1. PICK v \in Values[a] \ {mem[a]} :
        /\ mem' = [mem EXCEPT ![a] = v]
        /\ fresh' = [fresh EXCEPT ![a] = @ \cup {v}]
        /\ want' = IF open /\ req.addr = a THEN want \cup {v} ELSE want
  BY DEF Change
<1>2. /\ UNCHANGED <<hstate, req_buf, sync_buf, valid, dirty, tag, word, seen>>
      /\ UNCHANGED <<bstate, upret, addr, read_only, req, open, refused>>
  BY DEF Change, hostVars, memoryVars, busVars
<1>3. /\ \A i \in Block, o \in Offset : Present(i, o)' = Present(i, o) /\ LineOf(i, o)' = LineOf(i, o)
      /\ \A i \in Block : Dirty(i)' = Dirty(i)
      /\ FlushPending' = FlushPending
  BY <1>2 DEF Present, LineOf, Dirty, FlushPending
<1>4. /\ a \in Address
      /\ \A b \in Address : fresh[b] \subseteq fresh'[b] /\ (b # a => fresh'[b] = fresh[b])
  BY <1>1, CacheAssumption DEF IInv, TypeOK
<1>5. v \in fresh'[a] /\ mem'[a] = v /\ \A b \in Address : b # a => mem'[b] = mem[b]
  BY <1>1, <1>4 DEF IInv, TypeOK
<1>6. Handshake' /\ Working'
  BY <1>2 DEF IInv, Handshake, Working
<1>7. SeenInv' /\ BusInv'
  BY <1>2 DEF IInv, SeenInv, BusInv, is_dirty, Dirty
<1>8. MemInv'
  <2> SUFFICES ASSUME NEW b \in Address \ Bad
               PROVE  \/ mem'[b] \in fresh'[b]
                      \/ Dirty(b.idx) /\ tag[b.idx] = b.tag
                      \/ Uploading(b)
    BY <1>2 DEF MemInv, Uploading, Dirty
  <2>1. mem[b] \in fresh[b] => mem'[b] \in fresh'[b]
    BY <1>4, <1>5
  <2> QED BY <2>1 DEF IInv, MemInv, Uploading
<1>9. WordInv'
  <2> SUFFICES ASSUME NEW i \in Block, NEW o \in Offset, Present(i, o)
      PROVE  /\ word[i][o].stat <=> LineOf(i, o) \in Bad
             /\ LineOf(i, o) \notin Bad /\ ~FlushPending => word[i][o].data \in fresh'[LineOf(i, o)]
    BY <1>2, <1>3 DEF WordInv
  <2>1. LineOf(i, o) \in Address
    BY DEF IInv, TypeOK, LineOf, Address
  <2> QED BY <1>4, <2>1 DEF IInv, WordInv
<1>10. ReadInv'
  <2>1. want \subseteq want' /\ (open /\ req.addr = a => v \in want')
    BY <1>1
  <2>2. req.addr \in Address /\ req.addr.idx \in Block /\ req.addr.ofs \in Offset
    BY DEF IInv, TypeOK, Lines, Address
  <2>3. open /\ req.addr \notin Bad => fresh'[req.addr] \subseteq want'
    <3>1. fresh'[a] = fresh[a] \cup {v}
      BY <1>1, <1>4 DEF IInv, TypeOK
    <3> QED BY <1>4, <2>1, <2>2, <3>1 DEF IInv, ReadInv
  <2> QED BY <1>2, <1>3, <2>1, <2>2, <2>3 DEF IInv, ReadInv
<1> QED BY <1>6, <1>7, <1>8, <1>9, <1>10 DEF IInv

(* Every step preserves the invariant. *)
LEMMA InvariantStep ==
  ASSUME IInv, [Next]_vars
  PROVE  IInv'
<1>1. TypeOK'
  BY TypeStep DEF IInv
<1>2. CASE UNCHANGED vars
  <2>1. /\ UNCHANGED <<hstate, req_buf, sync_buf, valid, dirty, tag, word, seen>>
        /\ UNCHANGED <<bstate, upret, addr, read_only, req, open, mem, fresh, want, refused>>
    BY <1>2 DEF vars, hostVars, memoryVars, busVars, envVars
  <2>2. Handshake' /\ Working' /\ SeenInv' /\ BusInv'
    BY <2>1 DEF IInv, Handshake, Working, SeenInv, BusInv, is_dirty, Dirty
  <2>3. MemInv' /\ WordInv' /\ ReadInv'
    BY <2>1 DEF IInv, MemInv, Uploading, WordInv, ReadInv, Present, LineOf, Dirty, FlushPending
  <2> QED BY <1>1, <2>2, <2>3 DEF IInv
<1>3. CASE Next
  BY <1>1, <1>3, ClockStep, ChangeStep DEF Next
<1> QED BY <1>2, <1>3

(* It holds after a reset. *)
LEMMA InitInv == Init => IInv
<1> SUFFICES ASSUME Init PROVE IInv
  OBVIOUS
<1>1. TypeOK
  BY InitType
<1>2. \A i \in Block : ~valid[i] /\ ~dirty[i] /\ ~Dirty(i)
  BY DEF Init, Dirty
<1>3. Handshake /\ Working
  BY DEF Init, Handshake, Working, Download, Upload, Flush
<1>4. SeenInv /\ BusInv
  BY <1>2 DEF Init, SeenInv, BusInv, Download, Upload
<1>5. MemInv
  BY DEF Init, MemInv
<1>6. WordInv
  BY <1>2 DEF Init, WordInv, Present, Upload
<1>7. ReadInv
  BY DEF Init, ReadInv
<1> QED BY <1>1, <1>3, <1>4, <1>5, <1>6, <1>7 DEF IInv

(* The invariant holds in every state. *)
LEMMA Invariant == Spec => []IInv
BY InitInv, InvariantStep, PTL DEF Spec

(* A read that is acknowledged returns what was last stored at its address *)
(* or, behind a read-only cache, what the memory has held since the last   *)
(* fence (neorv32_cache.vhd:441-519, 652-760, 847-998).  Once a store to a *)
(* read-only cache has been refused, no further access is made.            *)
THEOREM ReadsAreFresh == Spec => []ReadsFresh
<1>1. IInv => ReadsFresh
  <2> SUFFICES ASSUME IInv, open, ack, ~req.rw
               PROVE  seen.data \in want
    BY DEF ReadsFresh
  <2>1. hstate = "check" /\ hit /\ bstate = "idle"
    BY BusRests DEF IInv, ack
  <2>2. /\ req.addr.idx \in Block /\ req.addr.ofs \in Offset
        /\ valid[req.addr.idx] /\ tag[req.addr.idx] = req.addr.tag
        /\ req.addr = LineOf(req.addr.idx, req.addr.ofs)
    BY <2>1, HitMeans DEF IInv
  <2>3. Present(req.addr.idx, req.addr.ofs)
    BY <2>1, <2>2 DEF Present, Download
  <2>4. /\ seen.data = word[req.addr.idx][req.addr.ofs].data
        /\ ~word[req.addr.idx][req.addr.ofs].stat
    BY <2>1 DEF IInv, SeenInv, ack, hit
  <2>5. req.addr \notin Bad
    BY <2>2, <2>3, <2>4 DEF IInv, WordInv
  <2> QED BY <2>1, <2>2, <2>3, <2>4, <2>5 DEF IInv, ReadInv
<1> QED BY <1>1, Invariant, PTL

(* A write-back cache passes a fence on only when everything stored before *)
(* is in the memory (neorv32_cache.vhd:965-996).                      *)
THEOREM FenceComesLast == Spec => []FenceAfterWriteback
<1>1. IInv => FenceAfterWriteback
  <2> SUFFICES ASSUME IInv, FenceOut, ~read_only, NEW a \in Address \ Bad
               PROVE  mem[a] \in fresh[a]
    BY DEF FenceAfterWriteback
  <2>1. bstate = "flush_check" /\ ~is_dirty /\ LastBlock /\ upret = "flush_check"
    BY DEF FenceOut, IInv, Handshake
  <2>2. a.idx \in Block /\ addr.idx \in Block
    BY DEF IInv, TypeOK, Address
  <2>3. a.idx < addr.idx \/ a.idx = addr.idx
    BY <2>1, <2>2, CacheAssumption DEF LastBlock, Block
  <2>4. ~Dirty(a.idx)
    BY <2>1, <2>2, <2>3 DEF IInv, SeenInv, BusInv, Dirty
  <2> QED BY <2>1, <2>4 DEF IInv, MemInv, Uploading, Upload
<1> QED BY <1>1, Invariant, PTL

(* The cache answers nobody who has not asked, but for the error it holds  *)
(* a second cycle after a refused store (neorv32_cache.vhd:466-516). *)
THEOREM AnswersAreAwaited == Spec => []ResponsesAnswerRequests
<1>1. IInv => ResponsesAnswerRequests
  BY DEF IInv, Working, ResponsesAnswerRequests, ack, err
<1> QED BY <1>1, Invariant, PTL

=============================================================================
