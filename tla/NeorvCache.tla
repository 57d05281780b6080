---------------------------- MODULE NeorvCache ------------------------------
(***************************************************************************)
(* The direct-mapped cache of the processor in the form the ASIC uses      *)
(* (neorv32_cache.vhd of the sg13g2 directory): host controller, status,   *)
(* tag and data memories and bus controller, clock by clock, between a     *)
(* processor and a memory that answers when it likes.  The same entity     *)
(* makes a read-only cache (the XIP cache of this SoC) and a write-back    *)
(* one, so the mode is a part of the initial state.                        *)
(*                                                                         *)
(* An address is taken apart as in the code: tag, index and offset of a    *)
(* word.                                                                   *)
(***************************************************************************)
EXTENDS Naturals

CONSTANTS
  Blocks, Words, Tags,  \* blocks, words of a block, tags
  Modes,                \* the values of READ_ONLY
  Value,                \* what a word may hold
  Values,               \* of these, what may be stored at each address
  Initial,              \* what the memory holds at first
  Junk,                 \* what is on a bus or in an SRAM that nobody has written
  Requests,             \* addresses the processor uses
  Stores,               \* those it stores to
  Bad,                  \* addresses the memory answers with an error
  Changing              \* addresses that others write, behind a read-only cache

Block == 0 .. Blocks - 1
Offset == 0 .. Words - 1
Address == [tag : 0 .. Tags - 1, idx : Block, ofs : Offset]

ASSUME CacheAssumption ==
  /\ {Blocks, Words, Tags} \subseteq Nat \ {0}
  /\ Modes \subseteq BOOLEAN
  /\ Junk \in Value
  /\ Values \in [Address -> SUBSET Value]
  /\ Initial \in [Address -> Value]
  /\ Requests \subseteq Address /\ Stores \subseteq Requests
  /\ Bad \subseteq Address /\ Changing \subseteq Address \ Bad

VARIABLES
  read_only,                \* the generic READ_ONLY
  hstate, req_buf, sync_buf,  \* host controller
  valid, dirty, tag,        \* status and tag memories, by block
  word,                     \* data memory: [data, stat], by block and offset
  seen,                     \* the read registers of the memories
  bstate, upret, addr,      \* bus controller
  req, open,                \* the processor's request lines; an access is open
  mem,                      \* the memory behind the cache
  fresh,                    \* the values a read that begins now may return
  want,                     \* the values the open read may return
  refused                   \* a store to a read-only cache has been refused

hostVars == <<hstate, req_buf, sync_buf>>
memoryVars == <<valid, dirty, tag, word, seen>>
busVars == <<bstate, upret, addr>>
envVars == <<read_only, req, open, mem, fresh, want, refused>>
vars == <<hostVars, memoryVars, busVars, envVars>>

Lines == [addr : Address, rw : BOOLEAN, data : Value]

-----------------------------------------------------------------------------
(* Signals. *)

hit == seen.valid /\ seen.tag = seen.acc_tag
is_dirty == seen.valid /\ seen.dirty /\ ~read_only
busy == bstate # "idle"

(* The address that is applied to the memories: cache_in.addr. *)
Applied(r) == IF busy THEN addr ELSE r.addr

ack == hstate = "check" /\ hit /\ ~(seen.stat /\ seen.valid)
err == hstate = "error" \/ (hstate = "check" /\ hit /\ seen.stat /\ seen.valid)

LastWord == addr.ofs = Words - 1
LastBlock == addr.idx = Blocks - 1

(* The fence that is passed on to the memory. *)
FenceOut ==
  \/ bstate = "flush_start" /\ read_only
  \/ bstate = "flush_check" /\ ~is_dirty /\ LastBlock /\ ~read_only

(* A response of the memory in this cycle: ready. *)
Awaited == bstate \in {"download_rsp", "upload_rsp"}

-----------------------------------------------------------------------------
(* Host controller. *)

HostIdle(stb, r) ==
  /\ hstate = "idle"
  /\ hstate' = IF sync_buf THEN "wait_sync"
               ELSE IF ~(stb \/ req_buf) THEN "idle"
               ELSE IF r.rw /\ read_only THEN "error" ELSE "check"

HostCheck ==
  /\ hstate = "check"
  /\ hstate' = IF hit THEN "idle" ELSE "wait_miss"

HostWait ==
  \/ hstate = "wait_sync" /\ hstate' = IF busy THEN hstate ELSE "idle"
  \/ hstate = "wait_miss" /\ hstate' = IF busy THEN hstate ELSE "check"
  \/ hstate = "error" /\ hstate' = "idle"

(* Mutants: the request is not taken out of its buffer; it is only noticed *)
(* by an idle controller.                                                  *)
ReqBufKept(stb) == req_buf' = (req_buf \/ stb)
ReqBufIdle(stb) == req_buf' = (stb /\ hstate = "idle" /\ sync_buf)

ReqBuf(stb) == req_buf' = ((req_buf \/ stb) /\ hstate # "check")
SyncBuf(fence) == sync_buf' = ((sync_buf \/ fence) /\ hstate # "wait_sync")

Host(stb, fence, r) ==
  /\ HostIdle(stb, r) \/ HostCheck \/ HostWait
  /\ ReqBuf(stb)
  /\ SyncBuf(fence)

-----------------------------------------------------------------------------
(* Status, tag and data memories.  All have registered reads. *)

(* Mutant: a flush writes the blocks back and leaves them valid. *)
InvalidatesNever == FALSE

MakesNew == Awaited
Invalidates == bstate = "flush_check"
StoresWord(r) == ~busy /\ hstate = "check" /\ hit /\ r.rw /\ ~read_only

Status(r) ==
  LET i == Applied(r).idx
  IN  /\ valid' = [valid EXCEPT ![i] = MakesNew \/ (@ /\ ~Invalidates)]
      /\ dirty' = [dirty EXCEPT ![i] = ~MakesNew /\ (@ \/ StoresWord(r))]
      /\ tag' = [tag EXCEPT ![i] = IF MakesNew THEN Applied(r).tag ELSE @]

(* A download writes the word in every cycle until the response is there.  *)
(* A store of the host leaves the status bit of the word alone.            *)
DataIn(w, r, ready) ==
  IF bstate = "download_rsp"
    THEN [data |-> IF ready THEN mem[addr] ELSE Junk, stat |-> ready /\ addr \in Bad]
  ELSE IF StoresWord(r) THEN [w EXCEPT !.data = r.data]
  ELSE w

Data(r, ready) ==
  word' = [word EXCEPT ![Applied(r).idx][Applied(r).ofs] = DataIn(@, r, ready)]

ReadRegisters(r) ==
  LET a == Applied(r)
  IN  seen' = [valid |-> valid[a.idx], dirty |-> dirty[a.idx], tag |-> tag[a.idx],
               acc_tag |-> a.tag, acc_idx |-> a.idx,
               data |-> word'[a.idx][a.ofs].data, stat |-> word'[a.idx][a.ofs].stat]

Memories(r, ready) ==
  /\ Status(r)
  /\ Data(r, ready)
  /\ ReadRegisters(r)

-----------------------------------------------------------------------------
(* Bus controller. *)

BusIdle ==
  /\ bstate = "idle"
  /\ addr' = [addr EXCEPT !.ofs = 0]
  /\ bstate' = IF hstate = "idle" /\ sync_buf THEN "flush_start"
               ELSE IF hstate = "check" /\ ~hit THEN "check" ELSE "idle"
  /\ UNCHANGED upret

(* Upload the block if it is dirty, download the requested one otherwise.  *)
BusCheck(r) ==
  /\ bstate = "check"
  /\ upret' = "download_req"
  /\ addr' = [addr EXCEPT !.idx = seen.acc_idx,
                          !.tag = IF is_dirty THEN seen.tag ELSE r.addr.tag]
  /\ bstate' = IF is_dirty THEN "upload_get" ELSE "download_req"

(* Mutant: the offset counts on after the last word. *)
NextWordOverrun == addr' = [addr EXCEPT !.ofs = @ + 1]

NextWord == addr' = [addr EXCEPT !.ofs = (@ + 1) % Words]

Transfer(ready) ==
  /\ UNCHANGED upret
  /\ \/ /\ bstate \in {"download_req", "upload_get", "upload_req"}
        /\ bstate' = CASE bstate = "download_req" -> "download_rsp"
                       [] bstate = "upload_get" -> "upload_req"
                       [] OTHER -> "upload_rsp"
        /\ UNCHANGED addr
     \/ /\ Awaited /\ ready
        /\ bstate' = IF bstate = "download_rsp"
                       THEN IF LastWord THEN "idle" ELSE "download_req"
                       ELSE IF LastWord THEN upret ELSE "upload_get"
        /\ NextWord
     \/ /\ Awaited /\ ~ready
        /\ UNCHANGED <<bstate, addr>>

FlushStart ==
  /\ bstate = "flush_start"
  /\ addr' = [addr EXCEPT !.idx = 0]
  /\ upret' = "flush_check"
  /\ bstate' = "flush_read"

FlushRead ==
  /\ bstate = "flush_read"
  /\ bstate' = "flush_check"
  /\ UNCHANGED <<upret, addr>>

(* Mutant: the flush does not wait for the read of the next block. *)
FlushCheckNoLatency ==
  /\ bstate = "flush_check"
  /\ addr' = [addr EXCEPT !.tag = seen.tag,
                          !.idx = IF is_dirty THEN @ ELSE (@ + 1) % Blocks]
  /\ bstate' = IF is_dirty THEN "upload_get"
               ELSE IF LastBlock THEN "idle" ELSE "flush_check"
  /\ UNCHANGED upret

FlushCheck ==
  /\ bstate = "flush_check"
  /\ addr' = [addr EXCEPT !.tag = seen.tag,
                          !.idx = IF is_dirty THEN @ ELSE (@ + 1) % Blocks]
  /\ bstate' = IF is_dirty THEN "upload_get"
               ELSE IF LastBlock THEN "idle" ELSE "flush_read"
  /\ UNCHANGED upret

Bus(r, ready) ==
  BusIdle \/ BusCheck(r) \/ Transfer(ready) \/ FlushStart \/ FlushRead \/ FlushCheck

-----------------------------------------------------------------------------
(* Processor and memory. *)

Accesses ==
  {[addr |-> a, rw |-> FALSE, data |-> Junk] : a \in Requests} \cup
  {l \in [addr : Stores, rw : {TRUE}, data : Value] : l.data \in Values[l.addr]}

(* The request lines in this cycle.  They only change between accesses:    *)
(* with a new access, or with an access to another device.  The model      *)
(* looks at the latter only where it makes a difference, after a store     *)
(* has been refused.                                                       *)
LinesIn(stb, r) ==
  IF stb
    THEN /\ ~open /\ ~refused
         /\ r \in Accesses
    ELSE r = req \/ (~open /\ refused /\ r = [req EXCEPT !.rw = FALSE])

(* An access that is answered has an effect on what later reads may        *)
(* return; so has a fence, behind which a read-only cache is as good as    *)
(* new.                                                                    *)
Environment(stb, fence, r, ready) ==
  /\ LinesIn(stb, r)
  /\ ready => Awaited
  /\ req' = r
  /\ open' = (stb \/ (open /\ ~(ack \/ err)))
  /\ refused' = (refused \/ hstate = "error")
  /\ want' = IF stb THEN fresh[r.addr] ELSE IF open' THEN want ELSE {}
  /\ mem' = IF ready /\ bstate = "upload_rsp" /\ addr \notin Bad
              THEN [mem EXCEPT ![addr] = seen.data] ELSE mem
  /\ fresh' = IF fence /\ read_only THEN [a \in Address |-> IF a \in Bad THEN {} ELSE {mem[a]}]
              ELSE IF open /\ ack /\ r.rw THEN [fresh EXCEPT ![r.addr] = {r.data}]
              ELSE fresh
  /\ UNCHANGED read_only

Edge(stb, fence, r, ready) ==
  /\ Environment(stb, fence, r, ready)
  /\ Host(stb, fence, r)
  /\ Memories(r, ready)
  /\ Bus(r, ready)

Clock(ready) ==
  \E stb, fence \in BOOLEAN :
    \E r \in IF stb THEN Accesses ELSE {req, [req EXCEPT !.rw = FALSE]} :
      Edge(stb, fence, r, ready)

(* The contents of the memory behind a read-only cache change. *)
Change(a) ==
  /\ read_only
  /\ \E v \in Values[a] \ {mem[a]} :
       /\ mem' = [mem EXCEPT ![a] = v]
       /\ fresh' = [fresh EXCEPT ![a] = @ \cup {v}]
       /\ want' = IF open /\ req.addr = a THEN want \cup {v} ELSE want
  /\ UNCHANGED <<hostVars, memoryVars, busVars, read_only, req, open, refused>>

(* After a reset.  The SRAM and the tag memory are not reset; the block of *)
(* every tag is drawn alike.                                               *)
Init ==
  /\ read_only \in Modes
  /\ hstate = "idle" /\ req_buf = FALSE /\ sync_buf = FALSE
  /\ valid = [i \in Block |-> FALSE]
  /\ dirty = [i \in Block |-> FALSE]
  /\ \E t \in 0 .. Tags - 1, s \in BOOLEAN :
       /\ tag = [i \in Block |-> t]
       /\ word = [i \in Block |-> [o \in Offset |-> [data |-> Junk, stat |-> s]]]
       /\ seen = [valid |-> FALSE, dirty |-> FALSE, tag |-> t, acc_tag |-> 0, acc_idx |-> 0,
                  data |-> Junk, stat |-> s]
  /\ bstate = "idle" /\ upret = "idle"
  /\ addr = [tag |-> 0, idx |-> 0, ofs |-> 0]
  /\ req = [addr |-> addr, rw |-> FALSE, data |-> Junk]
  /\ open = FALSE /\ refused = FALSE
  /\ mem = Initial
  /\ fresh = [a \in Address |-> IF a \in Bad THEN {} ELSE {Initial[a]}]
  /\ want = {}

Next ==
  \/ \E ready \in BOOLEAN : Clock(ready)
  \/ \E a \in Changing : Change(a)

(* The clock runs and the memory answers. *)
Fairness ==
  /\ WF_vars(\E ready \in BOOLEAN : Clock(ready))
  /\ WF_vars(Clock(TRUE))

Spec == Init /\ [][Next]_vars /\ Fairness

-----------------------------------------------------------------------------
(* Properties. *)

(* The registers and the memories of the cache hold values of their types. *)
TypeOK ==
  /\ hstate \in {"idle", "check", "wait_sync", "wait_miss", "error"}
  /\ bstate \in {"idle", "check", "download_req", "download_rsp", "upload_get", "upload_req",
                 "upload_rsp", "flush_start", "flush_read", "flush_check"}
  /\ upret \in {"idle", "download_req", "flush_check"}
  /\ {read_only, req_buf, sync_buf, open, refused} \subseteq BOOLEAN
  /\ valid \in [Block -> BOOLEAN] /\ dirty \in [Block -> BOOLEAN]
  /\ tag \in [Block -> 0 .. Tags - 1]
  /\ word \in [Block -> [Offset -> [data : Value, stat : BOOLEAN]]]
  /\ seen \in [valid : BOOLEAN, dirty : BOOLEAN, tag : 0 .. Tags - 1, acc_tag : 0 .. Tags - 1,
               acc_idx : Block, data : Value, stat : BOOLEAN]
  /\ addr \in Address
  /\ req \in Lines
  /\ mem \in [Address -> Value]
  /\ fresh \in [Address -> SUBSET Value] /\ want \in SUBSET Value

(* A read that is acknowledged returns what was last stored at its address *)
(* or, behind a read-only cache, a value the memory has held since the     *)
(* last fence before the read, whatever was evicted, uploaded or flushed   *)
(* in between.  A word the memory cannot deliver is never acknowledged.    *)
(* Only accesses before a refused store to a read-only cache are meant:    *)
(* none is issued after it (refused, LinesIn).                             *)
ReadsFresh == open /\ ack /\ ~req.rw => seen.data \in want

(* A write-back cache passes a fence on only when everything stored before *)
(* is in the memory.                                                       *)
FenceAfterWriteback ==
  FenceOut /\ ~read_only => \A a \in Address \ Bad : mem[a] \in fresh[a]

(* The cache answers nobody who has not asked: its acknowledge and error   *)
(* lines are quiet while no access is open.  The gateway joins the lines   *)
(* of all devices, so they would end an access to another one.  After a    *)
(* refused store the code breaks this rule.                                *)
ResponsesAnswerRequests == (ack \/ err) => open \/ refused

(* Every access is answered, also one that comes in the middle of a flush  *)
(* or together with a fence.                                               *)
RequestsAnswered == open ~> ~open
=============================================================================
