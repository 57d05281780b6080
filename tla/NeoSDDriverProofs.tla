-------------------------- MODULE NeoSDDriverProofs --------------------------
(***************************************************************************)
(* The driver makes permitted accesses only, each of its steps keeps the   *)
(* driver's half of the invariant, and what follows from the invariant.    *)
(***************************************************************************)
EXTENDS NeoSDControllerProofs, SequenceTheorems

-----------------------------------------------------------------------------
(* Sequences of accesses. *)

(* Short plans, and what they do. *)
LEMMA ShortOps ==
  /\ Ops(<<>>) = {}
  /\ \A a : Ops(<<a>>) = {a}
  /\ \A a, b : Ops(<<a, b>>) = {a, b}
BY DEF Ops

(* No access, one, and two different ones are plans. *)
LEMMA ShortPlans ==
  /\ Plan(<<>>)
  /\ \A a \in Operations : Plan(<<a>>)
  /\ \A a, b \in Operations : a # b /\ (a.adr = "CMD" => ~Commands(b)) => Plan(<<a, b>>)
<1>1. Plan(<<>>)
  BY DEF Plan, Ordered
<1>2. ASSUME NEW a \in Operations PROVE Plan(<<a>>)
  BY DEF Plan, Ordered
<1>3. ASSUME NEW a \in Operations, NEW b \in Operations, a # b, a.adr = "CMD" => ~Commands(b)
      PROVE  Plan(<<a, b>>)
  <2>1. <<a, b>> \in Seq(Operations) /\ Len(<<a, b>>) = 2 /\ <<a, b>>[1] = a /\ <<a, b>>[2] = b
    OBVIOUS
  <2> DEFINE s == <<a, b>>
  <2> HIDE DEF s
  <2>2. Len(s) = 2 /\ s[1] = a /\ s[2] = b
    BY <2>1 DEF s
  <2>3. Ordered(s)
    BY <1>3, <2>2 DEF Ordered
  <2> QED BY <2>1, <2>3 DEF Plan, s
<1> QED BY <1>1, <1>2, <1>3

(* One plan after another. *)
LEMMA JoinedPlans ==
  ASSUME NEW s, NEW t, Plan(s), Plan(t)
  PROVE  /\ Ops(s \o t) = Ops(s) \cup Ops(t)
         /\ s \o t = <<>> <=> s = <<>> /\ t = <<>>
         /\ s = <<>> => s \o t = t
         /\ t = <<>> => s \o t = s
         /\ /\ Ops(s) \cap Ops(t) \subseteq {Read("CTRL")}
            /\ (\E o \in Ops(s) : o.adr = "CMD") => \A o \in Ops(t) : ~Commands(o)
            => Plan(s \o t)
<1> DEFINE u == s \o t
           m == Len(s)
           n1 == Len(t)
<1>1. s \in Seq(Operations) /\ t \in Seq(Operations) /\ Ordered(s) /\ Ordered(t)
  BY DEF Plan
<1>2. /\ u \in Seq(Operations) /\ Len(u) = m + n1 /\ m \in Nat /\ n1 \in Nat
      /\ \A i \in 1 .. m + n1 : u[i] = IF i <= m THEN s[i] ELSE t[i - m]
  BY <1>1, ConcatProperties, LenProperties
<1>3. (u = <<>> <=> s = <<>> /\ t = <<>>) /\ (s = <<>> => u = t) /\ (t = <<>> => u = s)
  BY <1>1, ConcatEqualIffEmpty, ConcatEmptySeq
<1>4. Ops(u) = Ops(s) \cup Ops(t)
  <2> HIDE DEF u, m, n1
  <2>0. Len(s) = m /\ Len(t) = n1
    BY DEF m, n1
  <2>1. \A i \in 1 .. m : i \in 1 .. m + n1 /\ u[i] = s[i]
    BY <1>2
  <2>2. \A i \in 1 .. n1 : i + m \in 1 .. m + n1 /\ u[i + m] = t[i]
    BY <1>2
  <2>3. \A i \in 1 .. m + n1 : i \in 1 .. m \/ (i - m \in 1 .. n1 /\ u[i] = t[i - m])
    BY <1>2
  <2>4. ASSUME NEW o \in Ops(u) PROVE o \in Ops(s) \cup Ops(t)
    <3>1. PICK i \in 1 .. m + n1 : o = u[i]
      BY <1>2 DEF Ops
    <3> QED BY <2>0, <2>1, <2>3, <3>1 DEF Ops
  <2>5. ASSUME NEW o \in Ops(s) PROVE o \in Ops(u)
    BY <1>2, <2>0, <2>1 DEF Ops
  <2>6. ASSUME NEW o \in Ops(t) PROVE o \in Ops(u)
    <3>1. PICK i \in 1 .. n1 : o = t[i]
      BY <2>0 DEF Ops
    <3> QED BY <1>2, <2>2, <3>1 DEF Ops
  <2> QED BY <2>4, <2>5, <2>6
<1>5. ASSUME Ops(s) \cap Ops(t) \subseteq {Read("CTRL")},
             (\E o \in Ops(s) : o.adr = "CMD") => \A o \in Ops(t) : ~Commands(o)
      PROVE  Plan(u)
  <2> HIDE DEF u, m, n1
  <2>0. Len(s) = m /\ Len(t) = n1
    BY DEF m, n1
  <2>1. ASSUME NEW i \in 1 .. m + n1, NEW j \in 1 .. m + n1, i < j
        PROVE  (u[i] = u[j] => u[i] = Read("CTRL")) /\ (u[i].adr = "CMD" => ~Commands(u[j]))
    <3>1. CASE j <= m
      <4>1. i \in 1 .. m /\ j \in 1 .. m /\ u[i] = s[i] /\ u[j] = s[j]
        BY <1>2, <2>1, <3>1
      <4> QED BY <1>1, <2>0, <2>1, <4>1 DEF Ordered
    <3>2. CASE i > m
      <4>1. /\ i - m \in 1 .. n1 /\ j - m \in 1 .. n1 /\ i - m < j - m
            /\ u[i] = t[i - m] /\ u[j] = t[j - m]
        BY <1>2, <2>1, <3>2
      <4> QED BY <1>1, <2>0, <4>1 DEF Ordered
    <3>3. CASE i <= m /\ j > m
      <4>1. i \in 1 .. m /\ u[i] = s[i] /\ j - m \in 1 .. n1 /\ u[j] = t[j - m]
        BY <1>2, <3>3
      <4>2. u[i] \in Ops(s) /\ u[j] \in Ops(t)
        BY <2>0, <4>1 DEF Ops
      <4> QED BY <1>5, <4>2
    <3> QED BY <1>2, <3>1, <3>2, <3>3
  <2> QED BY <1>2, <2>1 DEF Plan, Ordered
<1> QED BY <1>3, <1>4, <1>5

(* The rest of a plan. *)
LEMMA RestOfPlan ==
  ASSUME NEW s, Plan(s), s # <<>>
  PROVE  /\ Plan(Tail(s)) /\ Head(s) \in Operations
         /\ Ops(s) = {Head(s)} \cup Ops(Tail(s))
         /\ Head(s) # Read("CTRL") => Head(s) \notin Ops(Tail(s))
         /\ Head(s).adr = "CMD" => \A o \in Ops(Tail(s)) : ~Commands(o)
<1> DEFINE t == Tail(s)
           m == Len(t)
<1>1. s \in Seq(Operations) /\ Ordered(s)
  BY DEF Plan
<1>2. /\ t \in Seq(Operations) /\ m \in Nat /\ Len(s) = m + 1 /\ Head(s) = s[1]
      /\ Head(s) \in Operations
      /\ \A i \in 1 .. m : t[i] = s[i + 1]
  BY <1>1, HeadTailProperties, LenProperties, EmptySeq
<1> HIDE DEF t, m
<1>0. Len(t) = m
  BY DEF m
<1>3. Ordered(t)
  <2>1. ASSUME NEW i \in 1 .. m, NEW j \in 1 .. m, i < j
        PROVE  (t[i] = t[j] => t[i] = Read("CTRL")) /\ (t[i].adr = "CMD" => ~Commands(t[j]))
    <3>1. i + 1 \in 1 .. Len(s) /\ j + 1 \in 1 .. Len(s) /\ i + 1 < j + 1
          /\ t[i] = s[i + 1] /\ t[j] = s[j + 1]
      BY <1>2, <2>1
    <3> QED BY <1>1, <3>1 DEF Ordered
  <2> QED BY <1>0, <2>1 DEF Ordered
<1>4. ASSUME NEW o \in Ops(t) PROVE \E j \in 2 .. Len(s) : o = s[j]
  <2>1. PICK i \in 1 .. m : o = t[i]
    BY <1>0 DEF Ops
  <2>2. i + 1 \in 2 .. Len(s) /\ o = s[i + 1]
    BY <1>2, <2>1
  <2> QED BY <2>2
<1>5. Ops(s) = {s[1]} \cup Ops(t)
  <2>1. ASSUME NEW o \in Ops(s) PROVE o = s[1] \/ o \in Ops(t)
    <3>1. PICK i \in 1 .. m + 1 : o = s[i]
      BY <1>2 DEF Ops
    <3>2. CASE i = 1
      BY <3>1, <3>2
    <3>3. CASE i # 1
      <4>1. i - 1 \in 1 .. m /\ t[i - 1] = s[i]
        <5>1. i - 1 \in 1 .. m /\ (i - 1) + 1 = i
          BY <1>2, <3>3
        <5> QED BY <1>2, <5>1
      <4> QED BY <1>0, <3>1, <4>1 DEF Ops
    <3> QED BY <3>2, <3>3
  <2>2. s[1] \in Ops(s)
    <3> 1 \in 1 .. Len(s)
      BY <1>2
    <3> QED BY DEF Ops
  <2>3. ASSUME NEW o \in Ops(t) PROVE o \in Ops(s)
    <3>1. PICK j \in 2 .. Len(s) : o = s[j]
      BY <1>4
    <3>2. j \in 1 .. Len(s)
      BY <1>2
    <3> QED BY <3>1, <3>2 DEF Ops
  <2> QED BY <2>1, <2>2, <2>3
<1>6. ASSUME NEW o \in Ops(t)
      PROVE  (s[1] = o => o = Read("CTRL")) /\ (s[1].adr = "CMD" => ~Commands(o))
  <2>1. PICK j \in 2 .. Len(s) : o = s[j]
    BY <1>4
  <2>2. 1 \in 1 .. Len(s) /\ j \in 1 .. Len(s) /\ 1 < j
    BY <1>2
  <2> QED BY <1>1, <2>1, <2>2 DEF Ordered
<1> QED BY <1>2, <1>3, <1>5, <1>6 DEF t, Plan

-----------------------------------------------------------------------------
(* The accesses that the flags call for. *)

(* The fields of an access. *)
LEMMA Fields ==
  /\ \A a : Read(a).op = "read" /\ Read(a).adr = a
  /\ \A b : Clear(b).op = "clear" /\ Clear(b).adr = "CTRL" /\ Clear(b).bits = b
  /\ \A b : Set(b).op = "set" /\ Set(b).adr = "CTRL" /\ Set(b).bits = b
  /\ \A a, k : Write(a, k).op = "write" /\ Write(a, k).adr = a /\ Write(a, k).cmd = k
  /\ Poll.op = "read" /\ Poll.adr = "IRQ"
BY DEF Read, Clear, Set, Write, Poll

(* Which accesses there are. *)
LEMMA Kinds ==
  /\ {Poll, Read("CTRL"), Read("RESP"), Read("DATA"), Set({"RST"}),
      Write("DATA", Sd!NoCommand), Write("CMDARG", Sd!NoCommand)} \subseteq Operations
  /\ \A b \in Clears : Clear(b) \in Operations
  /\ \A k : Formed(k) => Write("CMD", k) \in Operations
  /\ \A o \in Operations :
       \/ o \in {Poll, Read("CTRL"), Read("RESP"), Read("DATA"), Set({"RST"}),
                 Write("DATA", Sd!NoCommand), Write("CMDARG", Sd!NoCommand)}
       \/ \E b \in Clears : o = Clear(b)
       \/ \E k : Formed(k) /\ o = Write("CMD", k)
BY Zenon DEF Operations, Formed

(* What an access acknowledges. *)
LEMMA Acknowledges ==
  /\ \A b : Acks(Clear(b)) = b
  /\ Acks(Read("DATA")) = {"DAT_DATA"} /\ Acks(Read("RESP")) = {"CMD_RESP"}
  /\ Acks(Poll) = {} /\ Acks(Read("CTRL")) = {} /\ \A b : Acks(Set(b)) = {}
  /\ \A a, k : Acks(Write(a, k)) = {}
<1>1. /\ Read("DATA") # Read("RESP") /\ Poll # Read("DATA") /\ Poll # Read("RESP")
      /\ Read("CTRL") # Read("DATA") /\ Read("CTRL") # Read("RESP")
  BY Fields
<1> QED BY <1>1, Fields DEF Acks

(* A flag is acknowledged when one of the accesses does so. *)
LEMMA AckedBy ==
  ASSUME NEW s
  PROVE  \A x : x \in Acked(s) <=> \E o \in Ops(s) : x \in Acks(o)
BY Zenon DEF Acked

(* The commands that a loop gives. *)
AbortCommand == Sd!Command("none", FALSE, TRUE, "NONE", "NONE")
StopCommand(dmode) == Sd!Command("STOP", TRUE, TRUE, dmode, "SHORT")

(* These commands are well formed. *)
LEMMA StopsFormed ==
  /\ Formed(AbortCommand) /\ Formed(StopCommand("NONE")) /\ Formed(StopCommand("BUSY"))
  /\ AbortCommand.idx = "none" /\ AbortCommand.abrt /\ ~AbortCommand.commit
  /\ \A m : /\ StopCommand(m).idx = "STOP" /\ StopCommand(m).abrt /\ StopCommand(m).commit
            /\ StopCommand(m).dmode = m
BY DEF Formed, AbortCommand, StopCommand, Sd!Command, CommandSet, Indices, DataModes, RespModes,
       PhasesOf

(* Giving them is a plan. *)
LEMMA StopPlans ==
  /\ Plan(Abort) /\ Ops(Abort) = {Write("CMD", AbortCommand)}
  /\ \A m \in {"NONE", "BUSY"} :
       /\ Plan(Commit("STOP", "SHORT", m, TRUE))
       /\ Ops(Commit("STOP", "SHORT", m, TRUE)) =
            {Write("CMDARG", Sd!NoCommand), Write("CMD", StopCommand(m))}
<1>1. Abort = <<Write("CMD", AbortCommand)>> /\ Write("CMD", AbortCommand) \in Operations
  BY StopsFormed, Kinds DEF Abort, AbortCommand
<1>2. ASSUME NEW m \in {"NONE", "BUSY"}
      PROVE  /\ Commit("STOP", "SHORT", m, TRUE) =
                  <<Write("CMDARG", Sd!NoCommand), Write("CMD", StopCommand(m))>>
             /\ Write("CMD", StopCommand(m)) \in Operations
             /\ Write("CMDARG", Sd!NoCommand) \in Operations
             /\ Write("CMDARG", Sd!NoCommand) # Write("CMD", StopCommand(m))
             /\ Write("CMDARG", Sd!NoCommand).adr # "CMD"
  <2>1. Commit("STOP", "SHORT", m, TRUE) =
          <<Write("CMDARG", Sd!NoCommand), Write("CMD", StopCommand(m))>>
    BY Zenon DEF Commit, StopCommand
  <2>2. Formed(StopCommand(m))
    BY StopsFormed
  <2>3. Write("CMD", StopCommand(m)) \in Operations /\ Write("CMDARG", Sd!NoCommand) \in Operations
    BY <2>2, Kinds
  <2>4. Write("CMDARG", Sd!NoCommand).adr = "CMDARG" /\ Write("CMD", StopCommand(m)).adr = "CMD"
    BY DEF Write
  <2> QED BY <2>1, <2>3, <2>4
<1>3. Plan(Abort) /\ Ops(Abort) = {Write("CMD", AbortCommand)}
  BY <1>1, ShortOps, ShortPlans
<1>4. ASSUME NEW m \in {"NONE", "BUSY"}
      PROVE  /\ Plan(Commit("STOP", "SHORT", m, TRUE))
             /\ Ops(Commit("STOP", "SHORT", m, TRUE)) =
                  {Write("CMDARG", Sd!NoCommand), Write("CMD", StopCommand(m))}
  <2> DEFINE a == Write("CMDARG", Sd!NoCommand)
             k == Write("CMD", StopCommand(m))
  <2> HIDE DEF a, k
  <2>1. Commit("STOP", "SHORT", m, TRUE) = <<a, k>> /\ a \in Operations /\ k \in Operations
        /\ a # k /\ a.adr # "CMD"
    BY <1>2 DEF a, k
  <2>2. Plan(<<a, k>>) /\ Ops(<<a, k>>) = {a, k}
    BY <2>1, ShortOps, ShortPlans
  <2> QED BY <2>1, <2>2 DEF a, k
<1> QED BY <1>3, <1>4

(* A flag is cleared by a read and a write. *)
LEMMA TurnOffPlan ==
  ASSUME NEW b \in Clears
  PROVE  Plan(TurnOff(b)) /\ Ops(TurnOff(b)) = {Read("CTRL"), Clear(b)}
<1> DEFINE a == Read("CTRL")
           k == Clear(b)
<1>1. a \in Operations /\ k \in Operations /\ a # k /\ a.adr # "CMD" /\ TurnOff(b) = <<a, k>>
  BY Kinds, Fields DEF TurnOff
<1> HIDE DEF a, k
<1>2. Plan(<<a, k>>) /\ Ops(<<a, k>>) = {a, k}
  BY <1>1, ShortOps, ShortPlans
<1> QED BY <1>1, <1>2 DEF a, k

(* The accesses in S if the flag has been seen. *)
On(flag, S) == IF flag \in Flags THEN S ELSE {}

(* Accesses that depend on a flag are a plan. *)
LEMMA WhenPlan ==
  ASSUME NEW flag, NEW s, Plan(s)
  PROVE  Plan(When(flag, s)) /\ Ops(When(flag, s)) = On(flag, Ops(s))
BY ShortOps, ShortPlans DEF When, On

(* The parts of the loops. *)
LEMMA Pieces ==
  /\ Plan(GetResponse) /\ Plan(GetData) /\ Plan(PutData) /\ Plan(EndData)
  /\ Ops(GetResponse) = On("CMD_RESP", {Read("RESP")})
                        \cup On("CMD_DONE", {Read("CTRL"), Clear({"CMD_DONE"})})
  /\ Ops(GetData) = On("DAT_DATA", {Read("DATA")})
  /\ Ops(PutData) = IF sent < Words * Blocks
                      THEN On("DAT_DATA", {Write("DATA", Sd!NoCommand)})
                      ELSE {}
  /\ Ops(EndData) = On("DAT_DONE", {Read("CTRL"), Clear({"DAT_DONE"})})
<1>1. /\ Plan(<<Read("RESP")>>) /\ Ops(<<Read("RESP")>>) = {Read("RESP")}
      /\ Plan(<<Read("DATA")>>) /\ Ops(<<Read("DATA")>>) = {Read("DATA")}
      /\ Plan(<<Write("DATA", Sd!NoCommand)>>)
      /\ Ops(<<Write("DATA", Sd!NoCommand)>>) = {Write("DATA", Sd!NoCommand)}
  BY Kinds, ShortOps, ShortPlans
<1>2. {"CMD_DONE"} \in Clears /\ {"DAT_DONE"} \in Clears
  BY DEF Clears
<1>3. Plan(GetData) /\ Ops(GetData) = On("DAT_DATA", {Read("DATA")})
  BY <1>1, WhenPlan DEF GetData
<1>4. Plan(EndData) /\ Ops(EndData) = On("DAT_DONE", {Read("CTRL"), Clear({"DAT_DONE"})})
  BY <1>2, TurnOffPlan, WhenPlan DEF EndData
<1>5. /\ Plan(PutData)
      /\ Ops(PutData) = IF sent < Words * Blocks
                          THEN On("DAT_DATA", {Write("DATA", Sd!NoCommand)})
                          ELSE {}
  <2>1. CASE sent < Words * Blocks
    BY <1>1, <2>1, WhenPlan DEF PutData
  <2>2. CASE ~(sent < Words * Blocks)
    BY <2>2, ShortOps, ShortPlans DEF PutData
  <2> QED BY <2>1, <2>2
<1>6. /\ Plan(GetResponse)
      /\ Ops(GetResponse) = On("CMD_RESP", {Read("RESP")})
                            \cup On("CMD_DONE", {Read("CTRL"), Clear({"CMD_DONE"})})
  <2> DEFINE s == When("CMD_RESP", <<Read("RESP")>>)
             t == When("CMD_DONE", TurnOff({"CMD_DONE"}))
  <2>1. Plan(s) /\ Ops(s) = On("CMD_RESP", {Read("RESP")})
    BY <1>1, WhenPlan
  <2>2. Plan(t) /\ Ops(t) = On("CMD_DONE", {Read("CTRL"), Clear({"CMD_DONE"})})
    BY <1>2, TurnOffPlan, WhenPlan
  <2>3. GetResponse = s \o t
    BY DEF GetResponse
  <2> HIDE DEF s, t
  <2>4. /\ Ops(s) \subseteq {Read("RESP")} /\ Ops(t) \subseteq {Read("CTRL"), Clear({"CMD_DONE"})}
    BY <2>1, <2>2 DEF On
  <2>5. Read("RESP") # Read("CTRL") /\ Read("RESP") # Clear({"CMD_DONE"})
          /\ Read("RESP").adr # "CMD"
    BY DEF Read, Clear
  <2>6. Ops(s) \cap Ops(t) \subseteq {Read("CTRL")} /\ \A o \in Ops(s) : o.adr # "CMD"
    BY <2>4, <2>5
  <2>7. Plan(s \o t) /\ Ops(s \o t) = Ops(s) \cup Ops(t)
    BY <2>1, <2>2, <2>6, JoinedPlans
  <2> QED BY <2>1, <2>2, <2>3, <2>7
<1> QED BY <1>3, <1>4, <1>5, <1>6

(* What a loop acknowledges is apart from the rest. *)
LEMMA Apart ==
  /\ \A a, b : Read(a) = Read(b) => a = b
  /\ \A a, b : Clear(a) = Clear(b) => a = b
  /\ \A a, b, k : Read(a) # Clear(b) /\ Read(a) # Set(b) /\ Read(a) # Write(b, k)
       /\ Clear(a) # Write(b, k)
  /\ \A a, b : Clear(a) # Set(b)
  /\ \A a, b, k : Set(a) # Write(b, k)
  /\ \A a, b, j, k : Write(a, j) = Write(b, k) => a = b /\ j = k
  /\ \A a : Commands(Read(a)) => a \in {"CMD", "CMDARG"}
  /\ \A b : ~Commands(Clear(b)) /\ ~Commands(Set(b))
BY DEF Read, Clear, Set, Write, Commands

(* The loop of a transfer: the response, the data, what follows a block,   *)
(* and the end of the data phase.                                          *)
LEMMA LoopPlan ==
  ASSUME NEW d \in {GetData, PutData}, NEW e, Plan(e),
         \A o \in Ops(e) :
           \/ o \in {Read("CTRL"), Clear({"BLK_DONE"}), Clear({"BLK_DONE", "CRCERR"})}
                          \/ Commands(o)
  PROVE  /\ Plan(GetResponse \o d \o e \o EndData)
         /\ Ops(GetResponse \o d \o e \o EndData)
              = Ops(GetResponse) \cup Ops(d) \cup Ops(e) \cup Ops(EndData)
<1> DEFINE r == GetResponse
           z == EndData
<1>1. /\ Plan(r) /\ Plan(d) /\ Plan(z)
      /\ Ops(r) \subseteq {Read("RESP"), Read("CTRL"), Clear({"CMD_DONE"})}
      /\ Ops(d) \subseteq {Read("DATA"), Write("DATA", Sd!NoCommand)}
      /\ Ops(z) \subseteq {Read("CTRL"), Clear({"DAT_DONE"})}
  BY Pieces DEF On
<1>3. \A o \in Ops(r) \cup Ops(d) \cup Ops(z) : ~Commands(o)
  BY <1>1 DEF Read, Clear, Write, Commands
<1> HIDE DEF r, z
<1>4. Ops(r) \cap Ops(d) = {}
  BY <1>1 DEF Read, Clear, Write
<1>5. Plan(r \o d) /\ Ops(r \o d) = Ops(r) \cup Ops(d)
  BY <1>1, <1>3, <1>4, JoinedPlans DEF Commands
<1>6. (Ops(r) \cup Ops(d)) \cap Ops(e) \subseteq {Read("CTRL")}
  <2>1. ASSUME NEW o \in Ops(r) \cup Ops(d), o \in Ops(e), o # Read("CTRL") PROVE FALSE
    <3>1. ~Commands(o)
      BY <1>3
    <3>2. o \in {Clear({"BLK_DONE"}), Clear({"BLK_DONE", "CRCERR"})}
      BY <2>1, <3>1
    <3>3. o = Clear({"CMD_DONE"})
      BY <1>1, <2>1, <3>2, Apart
    <3>4. {"CMD_DONE"} \in {{"BLK_DONE"}, {"BLK_DONE", "CRCERR"}}
      BY <3>2, <3>3, Apart
    <3> QED BY <3>4
  <2> QED BY <2>1
<1>7. Plan(r \o d \o e) /\ Ops(r \o d \o e) = Ops(r) \cup Ops(d) \cup Ops(e)
  <2>1. \A o \in Ops(r \o d) : o.adr # "CMD"
    BY <1>3, <1>5 DEF Commands
  <2>2. Ops(r \o d) \cap Ops(e) \subseteq {Read("CTRL")}
    BY <1>5, <1>6
  <2> DEFINE x == r \o d
  <2>3. Plan(x) /\ Ops(x) = Ops(r) \cup Ops(d)
    BY <1>5
  <2>4. Ops(x) \cap Ops(e) \subseteq {Read("CTRL")} /\ ~(\E o \in Ops(x) : o.adr = "CMD")
    BY <2>1, <2>2
  <2> HIDE DEF x
  <2>5. Plan(x \o e) /\ Ops(x \o e) = Ops(x) \cup Ops(e)
    BY <2>3, <2>4, JoinedPlans
  <2> QED BY <2>3, <2>5 DEF x
<1>8. (Ops(r) \cup Ops(d) \cup Ops(e)) \cap Ops(z) \subseteq {Read("CTRL")}
  <2>1. ASSUME NEW o \in Ops(z), o \in Ops(r) \cup Ops(d) \cup Ops(e), o # Read("CTRL") PROVE FALSE
    <3>1. ~Commands(o) /\ o = Clear({"DAT_DONE"})
      BY <1>1, <1>3, <2>1
    <3>2. o \notin Ops(d)
      BY <1>1, <3>1, Apart
    <3>3. o \in {Clear({"CMD_DONE"}), Clear({"BLK_DONE"}), Clear({"BLK_DONE", "CRCERR"})}
      BY <1>1, <2>1, <3>1, <3>2, Apart
    <3>4. {"DAT_DONE"} \in {{"BLK_DONE"}, {"BLK_DONE", "CRCERR"}, {"CMD_DONE"}}
      BY <3>1, <3>3, Apart
    <3> QED BY <3>4
  <2> QED BY <2>1
<1>9. Plan(r \o d \o e \o z) /\ Ops(r \o d \o e \o z) = Ops(r) \cup Ops(d) \cup Ops(e) \cup Ops(z)
  <2>1. \A o \in Ops(z) : ~Commands(o)
    BY <1>3
  <2>2. Ops(r \o d \o e) \cap Ops(z) \subseteq {Read("CTRL")}
    BY <1>7, <1>8
  <2> DEFINE x == r \o d \o e
  <2>3. Plan(x) /\ Ops(x) = Ops(r) \cup Ops(d) \cup Ops(e)
    BY <1>7
  <2>4. Ops(x) \cap Ops(z) \subseteq {Read("CTRL")}
    BY <2>2
  <2> HIDE DEF x
  <2>5. Plan(x \o z) /\ Ops(x \o z) = Ops(x) \cup Ops(z)
    BY <1>1, <2>1, <2>3, <2>4, JoinedPlans
  <2> QED BY <2>3, <2>5 DEF x
<1> QED BY <1>9 DEF r, z

(* What each loop does about what it sees. *)
LEMMA ReadBlockPlan ==
  /\ Plan(ReadBlockLoop)
  /\ Ops(ReadBlockLoop) =
       Ops(GetResponse) \cup Ops(GetData) \cup Ops(EndData)
       \cup On("BLK_DONE", {Read("CTRL"), Clear({"BLK_DONE"}), Write("CMD", AbortCommand)})
<1> DEFINE b == {"BLK_DONE"}
           t == TurnOff(b)
           cs == {Write("CMD", AbortCommand)}
           e == When("BLK_DONE", t \o Abort)
<1>1. b \in Clears /\ b \in {{"BLK_DONE"}, {"BLK_DONE", "CRCERR"}}
  BY DEF Clears
<1>2. Plan(t) /\ Ops(t) = {Read("CTRL"), Clear(b)} /\ Plan(Abort) /\ Ops(Abort) = cs
  BY <1>1, TurnOffPlan, StopPlans
<1>3. (\A o \in Ops(t) : o.adr # "CMD") /\ Ops(t) \cap Ops(Abort) \subseteq {Read("CTRL")}
  BY <1>2 DEF Read, Clear, Write
<1>4. \A o \in cs : Commands(o)
  BY Fields DEF Commands
<1>5. ReadBlockLoop = GetResponse \o GetData \o e \o EndData
  BY DEF ReadBlockLoop
<1> HIDE DEF b, t, cs
<1>6. Plan(t \o Abort) /\ Ops(t \o Abort) = {Read("CTRL"), Clear(b)} \cup cs
  BY <1>2, <1>3, JoinedPlans
<1>7. Plan(e) /\ Ops(e) = On("BLK_DONE", {Read("CTRL"), Clear(b)} \cup cs)
  BY <1>6, WhenPlan
<1> HIDE DEF e
<1>8. /\ Plan(ReadBlockLoop)
      /\ Ops(ReadBlockLoop) = Ops(GetResponse) \cup Ops(GetData) \cup Ops(e) \cup Ops(EndData)
  <2>1. \A o \in Ops(e) :
          \/ o \in {Read("CTRL"), Clear({"BLK_DONE"}), Clear({"BLK_DONE", "CRCERR"})}
                         \/ Commands(o)
    BY <1>4, <1>7 DEF On, b
  <2> QED BY <1>5, <1>7, <2>1, LoopPlan
<1> QED BY <1>7, <1>8 DEF b, cs

(* What follows a block is a plan. *)
LEMMA EndBlockPlan ==
  ASSUME NEW s, NEW cs, Plan(s), Ops(s) = cs, \A o \in cs : Commands(o)
  PROVE  /\ Plan(EndBlock({"BLK_DONE", "CRCERR"}, s))
         /\ Ops(EndBlock({"BLK_DONE", "CRCERR"}, s)) =
              On("BLK_DONE", {Read("CTRL"), Clear({"BLK_DONE", "CRCERR"})}
                             \cup IF blocks + 1 = Blocks THEN cs ELSE {})
<1> DEFINE b == {"BLK_DONE", "CRCERR"}
           t == TurnOff(b)
           u == IF blocks + 1 = Blocks THEN s ELSE <<>>
<1>1. b \in Clears
  BY DEF Clears
<1>2. Plan(t) /\ Ops(t) = {Read("CTRL"), Clear(b)}
  BY <1>1, TurnOffPlan
<1>3. (\A o \in Ops(t) : o.adr # "CMD") /\ Ops(t) \cap Ops(s) \subseteq {Read("CTRL")}
  BY <1>2, Apart, Fields
<1>4. Plan(u) /\ Ops(u) = IF blocks + 1 = Blocks THEN cs ELSE {}
  BY ShortOps, ShortPlans
<1>5. EndBlock({"BLK_DONE", "CRCERR"}, s) = When("BLK_DONE", t \o u)
  BY DEF EndBlock
<1>6. Ops(t) \cap Ops(u) \subseteq {Read("CTRL")}
  BY <1>3, <1>4
<1> HIDE DEF t, u
<1>7. Plan(t \o u) /\ Ops(t \o u) = Ops(t) \cup Ops(u)
  BY <1>2, <1>3, <1>4, <1>6, JoinedPlans
<1> QED BY <1>2, <1>4, <1>5, <1>7, WhenPlan

StopOps(m) == {Write("CMDARG", Sd!NoCommand), Write("CMD", StopCommand(m))}

(* The loops of the multiple transfers are plans. *)
LEMMA BlocksPlans ==
  /\ Plan(ReadBlocksLoop) /\ Plan(WriteBlocksLoop)
  /\ Ops(ReadBlocksLoop) =
       Ops(GetResponse) \cup Ops(GetData) \cup Ops(EndData)
       \cup On("BLK_DONE", {Read("CTRL"), Clear({"BLK_DONE", "CRCERR"})}
                           \cup IF blocks + 1 = Blocks THEN StopOps("NONE") ELSE {})
  /\ Ops(WriteBlocksLoop) =
       Ops(GetResponse) \cup Ops(PutData) \cup Ops(EndData)
       \cup On("BLK_DONE", {Read("CTRL"), Clear({"BLK_DONE", "CRCERR"})}
                           \cup IF blocks + 1 = Blocks THEN StopOps("BUSY") ELSE {})
<1> DEFINE b == {"BLK_DONE", "CRCERR"}
           more(m) == IF blocks + 1 = Blocks THEN StopOps(m) ELSE {}
           e(m) == EndBlock(b, Commit("STOP", "SHORT", m, TRUE))
<1>1. b \in Clears /\ b \in {{"BLK_DONE"}, {"BLK_DONE", "CRCERR"}}
  BY DEF Clears
<1>2. \A m : \A o \in StopOps(m) : Commands(o)
  BY Fields DEF Commands, StopOps
<1>3. ASSUME NEW m \in {"NONE", "BUSY"}
      PROVE  /\ Plan(e(m)) /\ Ops(e(m)) = On("BLK_DONE", {Read("CTRL"), Clear(b)} \cup more(m))
             /\ \A o \in more(m) : Commands(o)
  BY <1>2, StopPlans, EndBlockPlan DEF StopOps
<1>4. /\ ReadBlocksLoop = GetResponse \o GetData \o e("NONE") \o EndData
      /\ WriteBlocksLoop = GetResponse \o PutData \o e("BUSY") \o EndData
  BY DEF ReadBlocksLoop, WriteBlocksLoop
<1> HIDE DEF e, more, b
<1>0. ASSUME NEW m \in {"NONE", "BUSY"}, NEW o \in Ops(e(m))
      PROVE  \/ o \in {Read("CTRL"), Clear({"BLK_DONE"}), Clear({"BLK_DONE", "CRCERR"})}
             \/ Commands(o)
  BY <1>0, <1>3 DEF On, b
<1>5. /\ Plan(ReadBlocksLoop)
      /\ Ops(ReadBlocksLoop) =
           Ops(GetResponse) \cup Ops(GetData) \cup Ops(e("NONE")) \cup Ops(EndData)
  BY <1>0, <1>3, <1>4, LoopPlan
<1>6. /\ Plan(WriteBlocksLoop)
      /\ Ops(WriteBlocksLoop) =
           Ops(GetResponse) \cup Ops(PutData) \cup Ops(e("BUSY")) \cup Ops(EndData)
  BY <1>0, <1>3, <1>4, LoopPlan
<1> QED BY <1>3, <1>5, <1>6 DEF more, b

(* So are their second loops. *)
LEMMA StopLoopPlan ==
  ASSUME NEW bits \in {{"BLK_DONE"}, {"BLK_DONE", "CRCERR"}}
  PROVE  /\ Plan(StopLoop(bits))
         /\ Ops(StopLoop(bits)) =
              Ops(GetResponse) \cup Ops(GetData) \cup Ops(EndData)
              \cup On("BLK_DONE", {Read("CTRL"), Clear(bits)})
<1> DEFINE e == When("BLK_DONE", TurnOff(bits))
<1>1. bits \in Clears
  BY DEF Clears
<1>2. Plan(e) /\ Ops(e) = On("BLK_DONE", {Read("CTRL"), Clear(bits)} \cup {})
  BY <1>1, TurnOffPlan, WhenPlan
<1>3. StopLoop(bits) = GetResponse \o GetData \o e \o EndData
  BY DEF StopLoop
<1> HIDE DEF e
<1>4. /\ Plan(StopLoop(bits))
      /\ Ops(StopLoop(bits)) = Ops(GetResponse) \cup Ops(GetData) \cup Ops(e) \cup Ops(EndData)
  <2>1. \A o \in Ops(e) :
          \/ o \in {Read("CTRL"), Clear({"BLK_DONE"}), Clear({"BLK_DONE", "CRCERR"})}
                         \/ Commands(o)
    BY <1>2 DEF On
  <2> QED BY <1>2, <1>3, <2>1, LoopPlan
<1> QED BY <1>2, <1>4

(* So is the end of a reset. *)
LEMMA ResetPlan ==
  /\ Plan(ResetEnd) /\ ResetEnd # <<>>
  /\ Ops(ResetEnd) = {Read("RESP"), Read("DATA"), Read("CTRL"), Clear({"RST"}),
                      Clear({"CMD_DONE", "DAT_DONE", "BLK_DONE", "CRCERR"})}
<1> DEFINE b == {"CMD_DONE", "DAT_DONE", "BLK_DONE", "CRCERR"}
           r == {"RST"}
           s == <<Read("RESP"), Read("DATA")>>
<1>1. b \in Clears /\ r \in Clears /\ b # r
  BY DEF Clears
<1>2. Plan(s) /\ Ops(s) = {Read("RESP"), Read("DATA")} /\ s # <<>>
  <2> DEFINE x == Read("RESP")
             y == Read("DATA")
  <2>1. x \in Operations /\ y \in Operations /\ x # y /\ x.adr # "CMD"
    BY Kinds, Fields
  <2> HIDE DEF x, y
  <2>2. Plan(<<x, y>>) /\ Ops(<<x, y>>) = {x, y} /\ <<x, y>> # <<>>
    BY <2>1, ShortOps, ShortPlans
  <2> QED BY <2>2 DEF x, y
<1>3. /\ Plan(TurnOff(b)) /\ Ops(TurnOff(b)) = {Read("CTRL"), Clear(b)}
      /\ Plan(TurnOff(r)) /\ Ops(TurnOff(r)) = {Read("CTRL"), Clear(r)}
  BY <1>1, TurnOffPlan
<1>4. ResetEnd = s \o TurnOff(b) \o TurnOff(r)
  BY DEF ResetEnd
<1> HIDE DEF s, b, r
<1>5. (\A o \in Ops(s) \cup Ops(TurnOff(b)) : o.adr # "CMD") /\ Ops(s) \cap Ops(TurnOff(b)) = {}
  BY <1>2, <1>3 DEF Read, Clear
<1>6. Plan(s \o TurnOff(b)) /\ Ops(s \o TurnOff(b)) = Ops(s) \cup Ops(TurnOff(b))
        /\ s \o TurnOff(b) # <<>>
  BY <1>2, <1>3, <1>5, JoinedPlans
<1> DEFINE x == s \o TurnOff(b)
           z == TurnOff(r)
<1>7. /\ Plan(x) /\ Plan(z) /\ x # <<>> /\ Ops(z) = {Read("CTRL"), Clear(r)}
      /\ ~(\E o \in Ops(x) : o.adr = "CMD")
      /\ Ops(x) = {Read("RESP"), Read("DATA"), Read("CTRL"), Clear(b)}
  BY <1>2, <1>3, <1>5, <1>6
<1>8. Ops(x) \cap Ops(z) \subseteq {Read("CTRL")}
  <2>1. Clear(b) # Clear(r) /\ Read("RESP") # Clear(r) /\ Read("DATA") # Clear(r)
    BY <1>1, Apart
  <2> QED BY <1>7, <2>1
<1>9. ResetEnd = x \o z
  BY <1>4
<1> HIDE DEF x, z
<1>10. Plan(x \o z) /\ Ops(x \o z) = Ops(x) \cup Ops(z) /\ x \o z # <<>>
  BY <1>7, <1>8, JoinedPlans
<1> QED BY <1>7, <1>9, <1>10 DEF b, r

(* What is cleared is acknowledged, and what is read. *)
LEMMA AcksOf ==
  ASSUME NEW s
  PROVE  /\ \A b : Clear(b) \in Ops(s) => b \subseteq Acked(s)
         /\ Read("DATA") \in Ops(s) => "DAT_DATA" \in Acked(s)
         /\ Read("RESP") \in Ops(s) => "CMD_RESP" \in Acked(s)
BY AckedBy, Acknowledges

Transfers == {"read_block", "read_blocks_stop", "write_blocks_stop"}

(* What the accesses of a loop are that has just seen the flags. *)
Answering ==
  /\ Plan(Handle) /\ Poll \notin Ops(Handle) /\ Set({"RST"}) \notin Ops(Handle)
  /\ Read("RESP") \in Ops(Handle) /\ call # "reset" => "CMD_RESP" \in Flags
  /\ Write("DATA", Sd!NoCommand) \in Ops(Handle) => sent < Words * Blocks
  /\ (\E o \in Ops(Handle) : Commands(o)) =>
       /\ "BLK_DONE" \in Flags /\ call \in Transfers /\ loop = 1
       /\ call # "read_block" => blocks + 1 = Blocks
       /\ \A o \in Ops(Handle) : o.adr = "CMD" => o \in Ops(StopOf(call))
  /\ "CMD_DONE" \in Flags /\ (loop = 1 \/ call = "read_blocks_stop") /\ call # "reset"
       => "CMD_DONE" \in Acked(Handle)
  /\ "CMD_DONE" \in Flags /\ call = "write_blocks_stop" => "CMD_DONE" \in Acked(Handle)
  /\ call \in Transfers /\ loop = 1 => {"BLK_DONE", "DAT_DONE"} \cap Flags \subseteq Acked(Handle)
  /\ call \in {"read_block", "read_blocks_stop"} /\ loop = 1 /\ "DAT_DATA" \in Flags
       => "DAT_DATA" \in Acked(Handle)
  /\ call = "write_blocks_stop" /\ loop = 2 => DataFlags \cap Flags \subseteq Acked(Handle)
  /\ call = "select" /\ loop = 2 /\ Idle => "DAT_DONE" \in Acked(Handle)
  /\ call = "reset" /\ Idle => {"CMD_DONE", "DAT_DONE", "RST"} \subseteq Acked(Handle)

(* Such a loop, from its parts. *)
LEMMA PartsAnswer ==
  ASSUME NEW s,
         Ops(GetResponse) \cup Ops(EndData) \subseteq Ops(s)
  PROVE  /\ "CMD_DONE" \in Flags => "CMD_DONE" \in Acked(s)
         /\ "DAT_DONE" \in Flags => "DAT_DONE" \in Acked(s)
         /\ "DAT_DATA" \in Flags /\ Ops(GetData) \subseteq Ops(s) => "DAT_DATA" \in Acked(s)
<1>1. /\ "CMD_DONE" \in Flags => Clear({"CMD_DONE"}) \in Ops(s)
      /\ "DAT_DONE" \in Flags => Clear({"DAT_DONE"}) \in Ops(s)
      /\ "DAT_DATA" \in Flags /\ Ops(GetData) \subseteq Ops(s) => Read("DATA") \in Ops(s)
  BY Pieces DEF On
<1> QED BY <1>1, AcksOf

(* The accesses of the parts. *)
LEMMA PartsOps ==
  ASSUME NEW o
  PROVE  /\ o \in Ops(GetResponse) =>
              o \in {Read("CTRL"), Clear({"CMD_DONE"})}
                \/ (o = Read("RESP") /\ "CMD_RESP" \in Flags)
         /\ o \in Ops(GetData) => o = Read("DATA")
         /\ o \in Ops(PutData) => o = Write("DATA", Sd!NoCommand) /\ sent < Words * Blocks
         /\ o \in Ops(EndData) => o \in {Read("CTRL"), Clear({"DAT_DONE"})}
BY Pieces DEF On

(* What the parts of a loop do not contain. *)
LEMMA PartsApart ==
  ASSUME NEW o \in Ops(GetResponse) \cup Ops(GetData) \cup Ops(PutData) \cup Ops(EndData)
  PROVE  /\ o # Poll /\ o # Set({"RST"}) /\ ~Commands(o) /\ o.adr # "CMD"
         /\ o = Read("RESP") => "CMD_RESP" \in Flags
         /\ o = Write("DATA", Sd!NoCommand) => sent < Words * Blocks
<1>1. \/ o \in {Read("CTRL"), Clear({"CMD_DONE"}), Read("DATA"), Clear({"DAT_DONE"})}
      \/ o = Read("RESP") /\ "CMD_RESP" \in Flags
      \/ o = Write("DATA", Sd!NoCommand) /\ sent < Words * Blocks
  BY PartsOps
<1>2. CASE o \in {Read("CTRL"), Clear({"CMD_DONE"}), Read("DATA"), Clear({"DAT_DONE"})}
  BY <1>2 DEF Read, Clear, Write, Set, Poll, Commands
<1>3. CASE o = Read("RESP") /\ "CMD_RESP" \in Flags
  BY <1>3 DEF Read, Clear, Write, Set, Poll, Commands
<1>4. CASE o = Write("DATA", Sd!NoCommand) /\ sent < Words * Blocks
  BY <1>4 DEF Read, Clear, Write, Set, Poll, Commands
<1> QED BY <1>1, <1>2, <1>3, <1>4

(* No access is taken for another of these. *)
LEMMA EndsApart ==
  /\ \A b \in Clears : Clear(b) # Poll /\ Clear(b) # Set({"RST"}) /\ Clear(b) # Read("RESP")
                       /\ Clear(b) # Write("DATA", Sd!NoCommand) /\ ~Commands(Clear(b))
                            /\ Clear(b).adr # "CMD"
  /\ \A a, k : /\ Write(a, k) # Poll /\ Write(a, k) # Set({"RST"}) /\ Write(a, k) # Read("RESP")
               /\ a # "DATA" => Write(a, k) # Write("DATA", Sd!NoCommand)
  /\ \A a \in {"CTRL", "DATA", "RESP"} : Read(a) # Poll /\ Read(a) # Set({"RST"})
                       /\ Read(a) # Write("DATA", Sd!NoCommand) /\ ~Commands(Read(a))
                            /\ Read(a).adr # "CMD"
  /\ Read("CTRL") # Read("RESP")
BY DEF Read, Clear, Write, Set, Poll, Commands

(* The loop of a single read answers the flags it sees. *)
LEMMA ReadBlockAnswers ==
  ASSUME call = "read_block", loop = 1
  PROVE  Answering
<1> DEFINE s == ReadBlockLoop
           w == Write("CMD", AbortCommand)
           x == On("BLK_DONE", {Read("CTRL"), Clear({"BLK_DONE"}), w})
<1>1. Handle = s
  BY DEF Handle, Limited
<1>2. Plan(s) /\ Ops(s) = Ops(GetResponse) \cup Ops(GetData) \cup Ops(EndData) \cup x
  BY ReadBlockPlan
<1>3. Clear({"BLK_DONE"}) # Poll /\ w # Poll /\ w # Set({"RST"}) /\ w # Read("RESP")
        /\ w # Write("DATA", Sd!NoCommand)
  BY EndsApart DEF Clears
<1>4. ASSUME NEW o \in x
      PROVE  /\ o # Poll /\ o # Set({"RST"}) /\ o # Read("RESP") /\ o # Write("DATA", Sd!NoCommand)
             /\ "BLK_DONE" \in Flags
             /\ Commands(o) \/ o.adr = "CMD" => o = w
  BY <1>3, <1>4, EndsApart DEF On, Clears
<1>5. w \in Ops(StopOf(call))
  BY StopPlans DEF StopOf
<1>6. "BLK_DONE" \in Flags => Clear({"BLK_DONE"}) \in Ops(s)
  BY <1>2 DEF On
<1>7. /\ "CMD_DONE" \in Flags => "CMD_DONE" \in Acked(s)
      /\ "DAT_DONE" \in Flags => "DAT_DONE" \in Acked(s)
      /\ "DAT_DATA" \in Flags => "DAT_DATA" \in Acked(s)
  BY <1>2, PartsAnswer
<1>8. "BLK_DONE" \in Flags => "BLK_DONE" \in Acked(s)
  BY <1>6, AcksOf
<1>9. \A o \in Ops(s) : o \in x
        \/ o \in Ops(GetResponse) \cup Ops(GetData) \cup Ops(PutData) \cup Ops(EndData)
  BY <1>2
<1> HIDE DEF s, x, w
<1>10. \A o \in Ops(s) :
         /\ o # Poll /\ o # Set({"RST"})
         /\ o = Read("RESP") => "CMD_RESP" \in Flags
         /\ o = Write("DATA", Sd!NoCommand) => sent < Words * Blocks
         /\ Commands(o) \/ o.adr = "CMD" => "BLK_DONE" \in Flags /\ o = w
  BY <1>4, <1>9, PartsApart
<1> QED BY <1>1, <1>2, <1>5, <1>7, <1>8, <1>10 DEF Answering, Transfers

(* So do the first loops of the multiple transfers. *)
LEMMA BlocksAnswer ==
  ASSUME call \in {"read_blocks_stop", "write_blocks_stop"}, loop = 1
  PROVE  Answering
<1> DEFINE s == Handle
           m == IF call = "read_blocks_stop" THEN "NONE" ELSE "BUSY"
           b == {"BLK_DONE", "CRCERR"}
           x == On("BLK_DONE", {Read("CTRL"), Clear(b)}
                               \cup IF blocks + 1 = Blocks THEN StopOps(m) ELSE {})
           g == IF call = "read_blocks_stop" THEN Ops(GetData) ELSE Ops(PutData)
<1>2. Plan(s) /\ Ops(s) = Ops(GetResponse) \cup g \cup Ops(EndData) \cup x
  <2>1. CASE call = "read_blocks_stop"
    BY <2>1, BlocksPlans DEF Handle, Limited
  <2>2. CASE call = "write_blocks_stop"
    BY <2>2, BlocksPlans DEF Handle, Limited
  <2> QED BY <2>1, <2>2
<1>4. ASSUME NEW o \in x
      PROVE  /\ o # Poll /\ o # Set({"RST"}) /\ o # Read("RESP") /\ o # Write("DATA", Sd!NoCommand)
             /\ "BLK_DONE" \in Flags
             /\ Commands(o) \/ o.adr = "CMD" => o \in StopOps(m) /\ blocks + 1 = Blocks
  <2>1. b \in Clears
    BY DEF Clears
  <2>2. o \in {Read("CTRL"), Clear(b)} \/ (o \in StopOps(m) /\ blocks + 1 = Blocks)
    BY <1>4 DEF On
  <2>3. "BLK_DONE" \in Flags
    BY <1>4 DEF On
  <2>4. CASE o \in {Read("CTRL"), Clear(b)}
    BY <2>1, <2>3, <2>4, EndsApart
  <2>5. CASE o \in StopOps(m) /\ blocks + 1 = Blocks
    <3>1. o = Write("CMDARG", Sd!NoCommand) \/ o = Write("CMD", StopCommand(m))
      BY <2>5 DEF StopOps
    <3> QED BY <2>3, <2>5, <3>1, EndsApart
  <2> QED BY <2>2, <2>4, <2>5
<1>5. StopOps(m) \subseteq Ops(StopOf(call))
  BY StopPlans DEF StopOf, StopOps
<1>6. "BLK_DONE" \in Flags => Clear(b) \in Ops(s)
  BY <1>2 DEF On
<1>7. /\ "CMD_DONE" \in Flags => "CMD_DONE" \in Acked(s)
      /\ "DAT_DONE" \in Flags => "DAT_DONE" \in Acked(s)
      /\ "DAT_DATA" \in Flags /\ call = "read_blocks_stop" => "DAT_DATA" \in Acked(s)
  <2>1. Ops(GetResponse) \cup Ops(EndData) \subseteq Ops(s)
        /\ (call = "read_blocks_stop" => Ops(GetData) \subseteq Ops(s))
    BY <1>2
  <2> HIDE DEF s
  <2> QED BY <2>1, PartsAnswer
<1>8. "BLK_DONE" \in Flags => "BLK_DONE" \in Acked(s)
  <2> HIDE DEF s
  <2> QED BY <1>6, AcksOf
<1>9. \A o \in Ops(s) : o \in x
        \/ o \in Ops(GetResponse) \cup Ops(GetData) \cup Ops(PutData) \cup Ops(EndData)
  BY <1>2
<1> HIDE DEF x, b, m
<1>10. \A o \in Ops(s) :
         /\ o # Poll /\ o # Set({"RST"})
         /\ o = Read("RESP") => "CMD_RESP" \in Flags
         /\ o = Write("DATA", Sd!NoCommand) => sent < Words * Blocks
         /\ Commands(o) \/ o.adr = "CMD" =>
              "BLK_DONE" \in Flags /\ o \in StopOps(m) /\ blocks + 1 = Blocks
  BY <1>4, <1>9, PartsApart
<1> QED BY <1>2, <1>5, <1>7, <1>8, <1>10 DEF Answering, Transfers

(* So do their second loops. *)
LEMMA StopsAnswer ==
  ASSUME call \in {"read_blocks_stop", "write_blocks_stop"}, loop = 2
  PROVE  Answering
<1> DEFINE b == IF call = "read_blocks_stop" THEN {"BLK_DONE", "CRCERR"} ELSE {"BLK_DONE"}
           short == call = "read_blocks_stop" /\ "CMD_DONE" \in Flags
           s == IF short THEN GetResponse ELSE StopLoop(b)
           x == On("BLK_DONE", {Read("CTRL"), Clear(b)})
<1>1. Handle = s
  <2>1. CASE call = "read_blocks_stop" /\ "CMD_DONE" \in Flags
    BY <2>1 DEF Handle, Limited
  <2>2. CASE call = "read_blocks_stop" /\ "CMD_DONE" \notin Flags
    BY <2>2 DEF Handle, Limited
  <2>3. CASE call = "write_blocks_stop"
    BY <2>3 DEF Handle, Limited
  <2> QED BY <2>1, <2>2, <2>3
<1>2. b \in {{"BLK_DONE"}, {"BLK_DONE", "CRCERR"}} /\ b \in Clears
  BY DEF Clears
<1>3. /\ Plan(s)
      /\ \A o \in Ops(s) : o \in x
           \/ o \in Ops(GetResponse) \cup Ops(GetData) \cup Ops(PutData) \cup Ops(EndData)
      /\ Ops(GetResponse) \subseteq Ops(s)
      /\ ~short => /\ Ops(EndData) \subseteq Ops(s) /\ Ops(GetData) \subseteq Ops(s)
                   /\ "BLK_DONE" \in Flags => Clear(b) \in Ops(s)
  <2> HIDE DEF b, short
  <2>1. CASE short
    BY <2>1, Pieces
  <2>2. CASE ~short
    BY <1>2, <2>2, StopLoopPlan DEF On
  <2> QED BY <2>1, <2>2
<1>4. ASSUME NEW o \in x
      PROVE  /\ o # Poll /\ o # Set({"RST"}) /\ o # Read("RESP") /\ o # Write("DATA", Sd!NoCommand)
             /\ ~Commands(o) /\ o.adr # "CMD"
  BY <1>2, <1>4, EndsApart DEF On
<1>5. "CMD_DONE" \in Flags => "CMD_DONE" \in Acked(s)
  <2>1. "CMD_DONE" \in Flags => Clear({"CMD_DONE"}) \in Ops(s)
    BY <1>3, Pieces DEF On
  <2> HIDE DEF s
  <2> QED BY <2>1, AcksOf
<1>6. ~short => DataFlags \cap Flags \subseteq Acked(s)
  <2> SUFFICES ASSUME ~short PROVE DataFlags \cap Flags \subseteq Acked(s)
    OBVIOUS
  <2>1. /\ Ops(GetResponse) \cup Ops(EndData) \subseteq Ops(s) /\ Ops(GetData) \subseteq Ops(s)
        /\ "BLK_DONE" \in Flags => Clear(b) \in Ops(s)
        /\ "BLK_DONE" \in b
    BY <1>3
  <2> HIDE DEF s, b
  <2> QED BY <2>1, PartsAnswer, AcksOf DEF DataFlags
<1> HIDE DEF x, b
<1>10. \A o \in Ops(s) :
         /\ o # Poll /\ o # Set({"RST"}) /\ ~Commands(o)
         /\ o = Read("RESP") => "CMD_RESP" \in Flags
         /\ o = Write("DATA", Sd!NoCommand) => sent < Words * Blocks
  <2> HIDE DEF s
  <2> QED BY <1>3, <1>4, PartsApart
<1>11. call = "write_blocks_stop" => ~short
  OBVIOUS
<1> HIDE DEF s, short
<1> QED BY <1>1, <1>3, <1>5, <1>6, <1>10, <1>11 DEF Answering, Transfers

(* So do the functions without data, and a reset. *)
LEMMA OthersAnswer ==
  ASSUME call \in Limited \cup {"reset"}, loop \in 1 .. 2, loop = 2 => call = "select"
  PROVE  Answering
<1>0. Plan(<<>>) /\ Ops(<<>>) = {}
  BY ShortOps, ShortPlans
<1>1. CASE loop = 1 /\ call \in Limited
  <2>1. Handle = GetResponse
    BY <1>1 DEF Handle, Limited
  <2>2. "CMD_DONE" \in Flags => "CMD_DONE" \in Acked(GetResponse)
    <3>1. "CMD_DONE" \in Flags => Clear({"CMD_DONE"}) \in Ops(GetResponse)
      BY Pieces DEF On
    <3> QED BY <3>1, AcksOf
  <2>3. Plan(GetResponse)
    BY Pieces
  <2>4. \A o \in Ops(GetResponse) :
         /\ o # Poll /\ o # Set({"RST"}) /\ ~Commands(o)
         /\ o = Read("RESP") => "CMD_RESP" \in Flags
         /\ o = Write("DATA", Sd!NoCommand) => sent < Words * Blocks
    BY PartsApart
  <2> QED BY <1>1, <2>1, <2>2, <2>3, <2>4 DEF Answering, Transfers, Limited
<1>2. CASE loop = 2 /\ call = "select"
  <2> DEFINE b == {"DAT_DONE"}
  <2>0. b \in Clears
    BY DEF Clears
  <2>1. Handle = IF Idle THEN TurnOff(b) ELSE <<>>
    BY <1>2 DEF Handle, Limited
  <2>2. Plan(TurnOff(b)) /\ Ops(TurnOff(b)) = {Read("CTRL"), Clear(b)}
    BY <2>0, TurnOffPlan
  <2>3. "DAT_DONE" \in Acked(TurnOff(b))
    <3>1. Clear(b) \in Ops(TurnOff(b)) /\ "DAT_DONE" \in b
      BY <2>2
    <3> HIDE DEF b
    <3> QED BY <3>1, AcksOf
  <2> HIDE DEF b
  <2>4. \A o \in Ops(Handle) :
         /\ o # Poll /\ o # Set({"RST"}) /\ ~Commands(o)
         /\ o # Read("RESP") /\ o # Write("DATA", Sd!NoCommand)
    BY <1>0, <2>0, <2>1, <2>2, EndsApart
  <2>5. Plan(Handle) /\ (Idle => "DAT_DONE" \in Acked(Handle))
    BY <1>0, <2>1, <2>2, <2>3
  <2> QED BY <1>2, <2>4, <2>5 DEF Answering, Transfers
<1>3. CASE call = "reset"
  <2> DEFINE b == {"CMD_DONE", "DAT_DONE", "BLK_DONE", "CRCERR"}
             r == {"RST"}
  <2>0. b \in Clears /\ r \in Clears
    BY DEF Clears
  <2>1. Handle = IF Idle THEN ResetEnd ELSE <<>>
    BY <1>3 DEF Handle, Limited
  <2>2. Plan(ResetEnd)
          /\ Ops(ResetEnd) = {Read("RESP"), Read("DATA"), Read("CTRL"), Clear(r), Clear(b)}
    BY ResetPlan
  <2>3. {"CMD_DONE", "DAT_DONE", "RST"} \subseteq Acked(ResetEnd)
    <3>1. Clear(b) \in Ops(ResetEnd) /\ Clear(r) \in Ops(ResetEnd)
            /\ {"CMD_DONE", "DAT_DONE"} \subseteq b /\ "RST" \in r
      BY <2>2
    <3> HIDE DEF b, r
    <3> QED BY <3>1, AcksOf
  <2> HIDE DEF b, r
  <2>4. \A o \in Ops(Handle) :
         o # Poll /\ o # Set({"RST"}) /\ ~Commands(o) /\ o # Write("DATA", Sd!NoCommand)
    BY <1>0, <2>0, <2>1, <2>2, EndsApart
  <2>5. Plan(Handle) /\ (Idle => {"CMD_DONE", "DAT_DONE", "RST"} \subseteq Acked(Handle))
    BY <1>0, <2>1, <2>2, <2>3
  <2>6. loop = 1
    BY <1>3
  <2> QED BY <1>3, <2>4, <2>5, <2>6 DEF Answering, Transfers
<1> QED BY <1>1, <1>2, <1>3 DEF Limited

(* Every loop answers what it sees. *)
LEMMA AllAnswer ==
  ASSUME DriverTypes, call # "none"
  PROVE  Answering
<1>1. \/ call = "read_block" /\ loop = 1
      \/ call \in {"read_blocks_stop", "write_blocks_stop"} /\ loop = 1
      \/ call \in {"read_blocks_stop", "write_blocks_stop"} /\ loop = 2
      \/ call \in Limited \cup {"reset"} /\ loop \in 1 .. 2 /\ (loop = 2 => call = "select")
  <2>1. call \in Calls \cup {"reset"} /\ loop \in 1 .. 2
        /\ (loop = 2 => call \in {"read_blocks_stop", "write_blocks_stop", "select"})
    BY DEF DriverTypes
  <2>2. call \in {"read_block", "read_blocks_stop", "write_blocks_stop", "all_send_cid",
                  "select", "reset"}
    BY <2>1, NeoSDAssumption, Zenon
  <2>3. loop = 1 \/ loop = 2
    BY <2>1
  <2> QED BY ONLY <2>1, <2>2, <2>3 DEF Limited
<1> QED BY <1>1, ReadBlockAnswers, BlocksAnswer, StopsAnswer, OthersAnswer

(* What a read of CTRL shows. *)
LEMMA Sees ==
  ASSUME Types, todo = <<Poll>>
  PROVE  /\ Flags = Sd!CtrlRead /\ ctrl \subseteq Flags /\ Flags \subseteq Bits \cup BusyFlags
         /\ \A x \in Bits : x \in Flags <=> x \in ctrl
         /\ "CMD_BUSY" \in Flags <=> cmd.state # "IDLE"
         /\ "DAT_BUSY" \in Flags <=> dat.state # "IDLE"
<1>1. Head(todo) = Poll
  OBVIOUS
<1>2. Flags = Sd!CtrlRead
  BY <1>1 DEF Flags
<1>3. ctrl \subseteq Bits /\ BusyFlags \cap Bits = {}
  BY DEF Types, Bits, BusyFlags, Sd!CtrlBits, Sd!Settings
<1> QED BY <1>2, <1>3 DEF Sd!CtrlRead, Sd!status_idle_cmd, Sd!status_idle_dat, BusyFlags

(* A status line that was high has not risen. *)
LEMMA NotRisen ==
  /\ "idle_cmd" \in status_last => ~Sd!Rose("idle_cmd")
  /\ "idle_dat" \in status_last => ~Sd!Rose("idle_dat")
BY DEF Sd!Rose

(* Which flags can be up. *)
LEMMA FlagsUp ==
  ASSUME ControllerInv
  PROVE  /\ ctrl \subseteq Bits /\ "IDLE_SDCLK" \notin ctrl
         /\ "CMD_RESP" \in ctrl => Active /\ ~Rests
         /\ First /\ Active => ctrl \cap DataFlags = {} /\ ~dat.block_done
         /\ command.idx \in Flow => First /\ "DAT_DONE" \notin ctrl
         /\ command.idx \in Flow /\ "BLK_DONE" \in ctrl => ~Active /\ dat.state # "IDLE"
         /\ First /\ "CMD_DONE" \in ctrl => Rests /\ "idle_cmd" \in status_last
BY DEF ControllerInv, Types, FlagsInv, FirstInv, FlowInv, DataFlags, Flow, First, Active, Rests

(* A loop sees the flags and decides: what was true of the function while  *)
(* it waited is true of it with the accesses that it now has to make.      *)
LEMMA PollView ==
  ASSUME ControllerInv, DriverTypes, todo = <<Poll>>, call # "none",
         During(call, loop, <<Poll>>, {}, blocks),
         NEW b, b = blocks + IF "BLK_DONE" \in Flags THEN 1 ELSE 0
  PROVE  During(call, loop, Handle, Flags, b)
<1> DEFINE s == Handle
           f == Flags
<1>0. Types /\ Formed(command) /\ blocks \in Nat /\ loop \in 1 .. 2 /\ Answering
      /\ b \in Nat /\ b >= blocks /\ Blocks \in Nat
  BY AllAnswer, Constants DEF ControllerInv, Types, DriverTypes
<1>1. Which(call, blocks) /\ RespInv(call) /\ BusyAwaited(call)
  BY DEF During
<1>2. Which(call, b)
  BY <1>0, <1>1 DEF Which
<1>3. Legal(call, s, b)
  <2>1. Read("RESP") \in Ops(s) /\ call # "reset" => "CMD_RESP" \in ctrl
    BY <1>0, Sees DEF Answering, Bits, Sd!CtrlBits
  <2>2. /\ Write("DATA", Sd!NoCommand) \in Ops(s) => sent < Words * Blocks
        /\ Set({"RST"}) \notin Ops(s)
    BY <1>0 DEF Answering
  <2>3. ASSUME \E o \in Ops(s) : Commands(o)
        PROVE  /\ ~Active /\ call \in Transfers
               /\ call # "read_block" => command.idx \in Flow /\ b >= Blocks /\ dat.state # "IDLE"
               /\ \A o \in Ops(s) : o.adr = "CMD" => o \in Ops(StopOf(call))
    <3>1. /\ "BLK_DONE" \in f /\ call \in Transfers /\ loop = 1
          /\ call # "read_block" => blocks + 1 = Blocks
          /\ \A o \in Ops(s) : o.adr = "CMD" => o \in Ops(StopOf(call))
      BY <1>0, <2>3 DEF Answering
    <3>2. "BLK_DONE" \in ctrl /\ b = blocks + 1
      BY <1>0, <3>1, Sees DEF Bits, Sd!CtrlBits, Sd!Settings
    <3>3. call # "read_block" => command.idx \in Flow /\ b >= Blocks
      <4>1. call # "read_block" => ~(blocks >= Blocks) /\ b >= Blocks
        BY <1>0, <3>1, <3>2
      <4> QED BY <1>1, <3>1, <4>1 DEF Which, CommandsOf, Transfers, First, Flow
    <3>4. First
      <4>1. call = "read_block" => command.idx \in {"READ", "none"}
        BY <1>1 DEF Which, CommandsOf
      <4> QED BY <3>3, <4>1, FlagsUp DEF First
    <3>5. ~Active
      BY <3>2, <3>4, FlagsUp DEF DataFlags
    <3> QED BY <3>1, <3>2, <3>3, <3>5, FlagsUp
  <2> QED BY <2>1, <2>2, <2>3 DEF Legal, Transfers
<1>4. \A x \in Bits : x \in f <=> x \in ctrl
  BY <1>0, Sees
<1>5. {"CMD_DONE", "DAT_DONE", "BLK_DONE", "DAT_DATA", "RST", "CMD_RESP", "CRCERR"} \subseteq Bits
      /\ Bits = {"CMD_DONE", "DAT_DONE", "BLK_DONE", "DAT_DATA", "RST", "CMD_RESP", "CRCERR",
         "IDLE_SDCLK"}
  BY DEF Bits, Sd!CtrlBits, Sd!Settings
<1>6. ReadBlockInv(call, s, f)
  <2> SUFFICES ASSUME call = "read_block", "DAT_DONE" \in f PROVE Quits(s)
    BY DEF ReadBlockInv
  <2>1. "DAT_DONE" \in ctrl /\ "RST" \notin ctrl /\ command.idx = "none" /\ loop = 1
    BY <1>1, <1>4, <1>5, FlagsUp DEF Which, CommandsOf, Flow, DriverTypes
  <2>2. Settled
    BY <2>1 DEF ControllerInv, AbortInv
  <2>3. ctrl \ {"CRCERR"} \subseteq {"CMD_DONE", "DAT_DONE", "BLK_DONE", "DAT_DATA"}
    BY <1>5, <2>1, <2>2, FlagsUp DEF Settled
  <2>4. ctrl \ {"CRCERR"} \subseteq Acked(s)
    BY <1>0, <1>4, <1>5, <2>1, <2>3 DEF Answering, Transfers
  <2> QED BY <2>2, <2>4, NotRisen DEF Quits, Settled
<1>7. StopDone(call, loop, s, f)
  <2> SUFFICES ASSUME call \in {"read_blocks_stop", "write_blocks_stop"}
               PROVE  /\ "DAT_DONE" \in f \/ loop = 2 => ~First /\ ~Moving
                      /\ ~First /\ "CMD_DONE" \in ctrl =>
                           \/ Rests /\ "idle_cmd" \in status_last
                           \/ loop = 1 /\ ("DAT_DONE" \in f => "CMD_DONE" \in Acked(s))
    BY DEF StopDone
  <2>1. /\ loop = 2 => ~First /\ ~Moving
        /\ ~First /\ "CMD_DONE" \in ctrl => (Rests /\ "idle_cmd" \in status_last) \/ loop = 1
    BY DEF During, StopDone
  <2>2. "DAT_DONE" \in f => ~First /\ ~Moving
    BY <1>1, <1>4, <1>5, FlagsUp DEF Which, CommandsOf, Flow, First, ControllerInv, StopInv
  <2>3. "CMD_DONE" \in ctrl /\ loop = 1 => "CMD_DONE" \in Acked(s)
    BY <1>0, <1>4, <1>5 DEF Answering
  <2> QED BY <2>1, <2>2, <2>3
<1>8. ReadBlocksInv(call, loop, s, f)
  <2> SUFFICES ASSUME call = "read_blocks_stop"
               PROVE  /\ "DAT_DONE" \in f \/ loop = 2
                           => dat.state = "IDLE" /\ "idle_dat" \in status_last
                      /\ loop = 1 /\ "DAT_DONE" \in f => ctrl \cap DataFlags \subseteq Acked(s)
                      /\ loop = 2 => ctrl \cap DataFlags = {}
                      /\ loop = 2 /\ "CMD_DONE" \in f => Quits(s)
    BY DEF ReadBlocksInv
  <2>1. loop = 2 => dat.state = "IDLE" /\ "idle_dat" \in status_last /\ ctrl \cap DataFlags = {}
    BY DEF During, ReadBlocksInv
  <2>2. "DAT_DONE" \in f => dat.state = "IDLE" /\ "idle_dat" \in status_last
    <3> SUFFICES ASSUME "DAT_DONE" \in f PROVE dat.state = "IDLE" /\ "idle_dat" \in status_last
      OBVIOUS
    <3>1. "DAT_DONE" \in ctrl /\ ~First /\ ~Moving
      BY <1>4, <1>5, <1>7 DEF StopDone
    <3>2. command.idx = "STOP" /\ command.dmode = "NONE"
      BY <1>1, <3>1 DEF Which, First
    <3>3. dat.state \notin {"TAIL", "WAIT_BUSY"} /\ "idle_dat" \in status_last
      BY <3>1, <3>2 DEF ControllerInv, StopInv
    <3> QED BY <3>1, <3>3 DEF Moving, Busy
  <2>3. loop = 1 /\ "DAT_DONE" \in f => ctrl \cap DataFlags \subseteq Acked(s)
    BY <1>0, <1>4, <1>5 DEF Answering, Transfers, DataFlags
  <2>4. loop = 2 /\ "CMD_DONE" \in f => Quits(s)
    <3> SUFFICES ASSUME loop = 2, "CMD_DONE" \in f PROVE Quits(s)
      OBVIOUS
    <3>1. "CMD_DONE" \in ctrl /\ ~First /\ Rests /\ "idle_cmd" \in status_last
      BY <1>4, <1>5, <1>7 DEF StopDone
    <3>2. "RST" \notin ctrl
      BY <1>1 DEF Which
    <3>3. ctrl \ {"CRCERR"} \subseteq {"CMD_DONE"}
      BY <1>5, <2>1, <3>1, <3>2, FlagsUp DEF DataFlags
    <3>4. ctrl \ {"CRCERR"} \subseteq Acked(s)
      BY <1>0, <3>3 DEF Answering
    <3> QED BY <2>1, <3>1, <3>4, NotRisen DEF Quits
  <2> QED BY <2>1, <2>2, <2>3, <2>4
<1>9. WriteBlocksInv(call, loop, s, f)
  <2> SUFFICES ASSUME call = "write_blocks_stop", "DAT_DONE" \in f \/ loop = 2
               PROVE  /\ ~dat.block_done
                      /\ dat.state # "IDLE" => ~Active
                      /\ Sd!Rose("idle_dat") => Rests
                      /\ "BLK_DONE" \in ctrl => loop = 1 /\ "BLK_DONE" \in Acked(s)
                      /\ "DAT_DONE" \in ctrl => Settled \/ (loop = 1 /\ "DAT_DONE" \in Acked(s))
                      /\ loop = 2 /\ "DAT_DONE" \in f => Quits(s)
    BY DEF WriteBlocksInv
  <2>1. CASE loop = 1
    <3>1. "DAT_DONE" \in ctrl /\ ~First /\ ~Moving
      BY <1>4, <1>5, <1>7, <2>1 DEF StopDone
    <3>2. /\ ~dat.block_done
          /\ cmd.state = "WRITE" => dat.state = "IDLE"
          /\ Sent => dat.state = "IDLE"
          /\ cmd.state = "IDLE" => ~command.commit
          /\ Sd!Rose("idle_dat") => Rests
      BY <3>1 DEF ControllerInv, StopInv, First
    <3>3. dat.state # "IDLE" => ~Active
      BY <3>2 DEF Active, Sent
    <3>4. {"BLK_DONE", "DAT_DONE"} \cap ctrl \subseteq Acked(s)
      BY <1>0, <1>4, <1>5, <2>1 DEF Answering, Transfers
    <3> QED BY <2>1, <3>2, <3>3, <3>4
  <2>2. CASE loop = 2
    <3>1. /\ ~dat.block_done
          /\ dat.state # "IDLE" => ~Active
          /\ Sd!Rose("idle_dat") => Rests
          /\ "BLK_DONE" \notin ctrl
          /\ "DAT_DONE" \in ctrl => Settled
      BY <2>2 DEF During, WriteBlocksInv
    <3>2. "DAT_DONE" \in f => Quits(s)
      <4> SUFFICES ASSUME "DAT_DONE" \in f PROVE Quits(s)
        OBVIOUS
      <4>1. "DAT_DONE" \in ctrl /\ Settled /\ "RST" \notin ctrl
        BY <1>1, <1>4, <1>5, <3>1 DEF Which
      <4>2. ctrl \ {"CRCERR"} \subseteq {"CMD_DONE", "DAT_DONE", "DAT_DATA"}
        BY <1>5, <3>1, <4>1, FlagsUp DEF Settled
      <4>3. ctrl \ {"CRCERR"} \subseteq Acked(s)
        BY <1>0, <1>4, <1>5, <2>2, <4>2 DEF Answering, DataFlags
      <4> QED BY <4>1, <4>3, NotRisen DEF Quits, Settled
    <3> QED BY <2>2, <3>1, <3>2
  <2> QED BY <1>0, <2>1, <2>2
<1>10. call = "select" => First
  BY <1>1 DEF Which, CommandsOf, First
<1>11. SelectLoops(call, loop, s, f)
  <2> SUFFICES ASSUME call = "select"
               PROVE  /\ "CMD_DONE" \in f \/ loop = 2 => Rests /\ "idle_cmd" \in status_last
                      /\ loop = 1 /\ "CMD_DONE" \in f /\ "CMD_DONE" \in ctrl
                           => "CMD_DONE" \in Acked(s)
                      /\ loop = 2 => "CMD_DONE" \notin ctrl
                      /\ loop = 2 /\ Poll \notin Ops(s) /\ f \cap BusyFlags = {} => Quits(s)
    BY DEF SelectLoops
  <2>1. loop = 2 => Rests /\ "idle_cmd" \in status_last /\ "CMD_DONE" \notin ctrl
    BY DEF During, SelectLoops
  <2>2. "CMD_DONE" \in f => Rests /\ "idle_cmd" \in status_last
    BY <1>4, <1>5, <1>10, FlagsUp
  <2>3. loop = 1 /\ "CMD_DONE" \in f => "CMD_DONE" \in Acked(s)
    BY <1>0 DEF Answering
  <2>4. ASSUME loop = 2, f \cap BusyFlags = {} PROVE Quits(s)
    <3>1. dat.state = "IDLE" /\ Idle
      BY <1>0, <2>4, Sees DEF Idle, BusyFlags
    <3>2. "DAT_DONE" \in Acked(s)
      BY <1>0, <2>4, <3>1 DEF Answering
    <3>3. "RST" \notin ctrl /\ command.idx = "SELECT"
      BY <1>1 DEF Which, CommandsOf
    <3>4. ctrl \cap {"BLK_DONE", "DAT_DATA"} = {}
      BY <3>3 DEF ControllerInv, SelectInv
    <3>5. ctrl \ {"CRCERR"} \subseteq {"DAT_DONE"}
      BY <1>5, <2>1, <2>4, <3>3, <3>4, FlagsUp
    <3> QED BY <2>1, <2>4, <3>1, <3>2, <3>5, NotRisen DEF Quits
  <2> QED BY <2>1, <2>2, <2>3, <2>4
<1>12. CidLoop(call, s, f)
  <2> SUFFICES ASSUME call = "all_send_cid", "CMD_DONE" \in f PROVE Quits(s)
    BY DEF CidLoop
  <2>1. command.idx = "ALL_SEND_CID" /\ "RST" \notin ctrl /\ loop = 1
    BY <1>1 DEF Which, CommandsOf, DriverTypes
  <2>2. Rests /\ "idle_cmd" \in status_last
    BY <1>4, <1>5, <2>1, FlagsUp DEF First
  <2>3. dat.state = "IDLE" /\ "idle_dat" \in status_last /\ ctrl \cap DataFlags = {}
    BY <2>1 DEF ControllerInv, CidInv
  <2>4. ctrl \ {"CRCERR"} \subseteq {"CMD_DONE"}
    BY <1>5, <2>1, <2>2, <2>3, FlagsUp DEF DataFlags
  <2>5. ctrl \ {"CRCERR"} \subseteq Acked(s)
    BY <1>0, <2>1, <2>4 DEF Answering
  <2> QED BY <2>2, <2>3, <2>5, NotRisen DEF Quits
<1>13. ResetInv(call, s, f)
  <2> SUFFICES ASSUME call = "reset"
               PROVE  /\ ResetReady /\ "idle_dat" \in status_last
                      /\ ctrl \subseteq {"CRCERR", "RST", "CMD_DONE"}
                      /\ f \cap BusyFlags = {} => Quits(s)
                      /\ resp = <<>>
    BY DEF ResetInv
  <2>1. /\ ResetReady /\ "idle_dat" \in status_last
        /\ ctrl \subseteq {"CRCERR", "RST", "CMD_DONE"} /\ resp = <<>>
    BY DEF During, ResetInv
  <2>2. ASSUME f \cap BusyFlags = {} PROVE Quits(s)
    <3>1. cmd.state = "IDLE" /\ dat.state = "IDLE" /\ Idle
      BY <1>0, <2>2, Sees DEF Idle, BusyFlags
    <3>2. {"CMD_DONE", "DAT_DONE", "RST"} \subseteq Acked(s)
      BY <1>0, <3>1 DEF Answering
    <3>3. Rests
      BY <2>1, <3>1 DEF ResetReady, Rests
    <3> QED BY <2>1, <3>1, <3>2, <3>3 DEF Quits
  <2> QED BY <2>1, <2>2
<1> HIDE DEF s, f
<1>14. During(call, loop, s, f, b)
  BY <1>1, <1>2, <1>3, <1>6, <1>7, <1>8, <1>9, <1>11, <1>12, <1>13 DEF During
<1> QED BY <1>14 DEF s, f

-----------------------------------------------------------------------------
(* One step of the controller, as the driver sees it. *)

(* An edge of the clock in a state of the invariant. *)
Stepping(acc, fits) ==
  ControllerInv /\ fits \in BOOLEAN /\ Edge(acc, fits) /\ Permitted(acc)

(* Without a new command the register keeps the last one. *)
LEMMA SameCommand ==
  ASSUME NEW acc, NEW fits, Stepping(acc, fits), ~Sd!Writes(acc, "CMD")
  PROVE  /\ command'.idx = command.idx /\ command'.dmode = command.dmode
         /\ command'.rmode = command.rmode /\ command'.abrt = command.abrt
         /\ command'.commit <=> command.commit /\ ~clkstrb
         /\ First' <=> First
         /\ Active' => Active
         /\ Rests => Rests' /\ "idle_cmd" \in status_last'
<1>0. Types
  BY DEF Stepping, ControllerInv
<1>1. /\ command'.idx = command.idx /\ command'.dmode = command.dmode
      /\ command'.rmode = command.rmode /\ command'.abrt = command.abrt
      /\ command'.commit <=> command.commit /\ ~clkstrb
  BY <1>0, CommandMoves DEF Stepping
<1>2. Active' => Active
  BY CommandStarts DEF Stepping
<1>3. Rests => Rests' /\ "idle_cmd" \in status_last'
  <2>1. Rests => cmd'.state = "IDLE"
    BY CmdRests DEF Stepping, Rests
  <2>2. cmd.state = "IDLE" => "idle_cmd" \in status_last'
    BY <1>0, CommandMoves DEF Stepping
  <2> QED BY <1>1, <2>1, <2>2 DEF Rests
<1> QED BY <1>1, <1>2, <1>3 DEF First

(* A flag is up because it was, or because it comes up now. *)
LEMMA FlagMoves ==
  ASSUME NEW acc, NEW fits, Stepping(acc, fits)
  PROVE  /\ ctrl' \subseteq Bits /\ "IDLE_SDCLK" \notin ctrl'
         /\ "CMD_DONE" \in ctrl' => "CMD_DONE" \in ctrl \/ Sd!Rose("idle_cmd")
         /\ "DAT_DONE" \in ctrl' => "DAT_DONE" \in ctrl \/ Sd!Rose("idle_dat")
         /\ "CMD_RESP" \in ctrl' => "CMD_RESP" \in ctrl \/ Sd!Rose("resp_cmd")
         /\ "DAT_DATA" \in ctrl' => "DAT_DATA" \in ctrl \/ Sd!Rose("data_dat")
         /\ "BLK_DONE" \in ctrl' => "BLK_DONE" \in ctrl \/ (clkstrb /\ dat.block_done)
         /\ Sd!Rose("idle_cmd") => cmd.state = "IDLE"
         /\ Sd!Rose("idle_dat") => dat.state = "IDLE"
         /\ Sd!Rose("resp_cmd") => cmd.state = "REGOUT"
         /\ Sd!Rose("data_dat") => dat.state \in {"REGOUT", "WRITE_REGIN"}
         /\ dat.state = "IDLE" => ~dat.block_done
         /\ "RST" \in ctrl' => "RST" \in ctrl \/ Sd!Writes(acc, "CTRL")
<1>1. Types /\ "IDLE_SDCLK" \notin ctrl /\ (dat.state = "IDLE" => ~dat.block_done)
  BY DEF Stepping, ControllerInv, FlagsInv, DatShape, Shaped
<1>2. "RST" \in ctrl' => "RST" \in ctrl \/ Sd!Writes(acc, "CTRL")
  BY Tops DEF Stepping, Sd!CtrlNext, Sd!Sets
<1>3. /\ Sd!Rose("idle_cmd") => cmd.state = "IDLE"
      /\ Sd!Rose("idle_dat") => dat.state = "IDLE"
      /\ Sd!Rose("resp_cmd") => cmd.state = "REGOUT"
      /\ Sd!Rose("data_dat") => dat.state \in {"REGOUT", "WRITE_REGIN"}
  BY DEF Sd!Rose, Sd!Status, Sd!status_idle_cmd, Sd!status_idle_dat, Sd!status_resp_cmd,
         Sd!status_data_dat
<1> QED BY <1>1, <1>2, <1>3, CtrlMoves DEF Stepping

(* What is ready to end stays ready. *)
LEMMA QuitsStays ==
  ASSUME NEW acc, NEW fits, Stepping(acc, fits), NEW s, NEW t, Quits(s),
         ~command'.commit,
         Acked(s) \cap ctrl' \subseteq Acked(t), "RST" \in ctrl' => "RST" \in ctrl
  PROVE  Quits(t)' /\ Settled'
<1>1. /\ cmd.state = "IDLE" /\ ~command.commit /\ dat.state = "IDLE"
      /\ ctrl \ {"CRCERR"} \subseteq Acked(s)
      /\ Sd!Rose("idle_cmd") => "CMD_DONE" \in Acked(s)
      /\ Sd!Rose("idle_dat") => "DAT_DONE" \in Acked(s)
  BY DEF Quits, Rests
<1>2. Settled'
  BY <1>1, SettledStays DEF Stepping
<1>3. ~Sd!Rose("idle_cmd")' /\ ~Sd!Rose("idle_dat")'
  BY <1>2 DEF Sd!Rose, Settled
<1>4. ctrl' \ {"CRCERR"} \subseteq Acked(t)
  <2>1. ASSUME NEW x \in ctrl', x # "CRCERR" PROVE x \in Acked(s)
    <3>1. x \in {"CMD_DONE", "DAT_DONE", "BLK_DONE", "DAT_DATA", "RST", "CMD_RESP"}
      BY <2>1, FlagMoves DEF Bits, Sd!CtrlBits, Sd!Settings
    <3>2. x \in ctrl \/ (x = "CMD_DONE" /\ Sd!Rose("idle_cmd"))
            \/ (x = "DAT_DONE" /\ Sd!Rose("idle_dat"))
      BY <1>1, <3>1, FlagMoves
    <3> QED BY <1>1, <2>1, <3>2
  <2> QED BY <2>1
<1> QED BY <1>2, <1>3, <1>4 DEF Quits, Settled

(* Access acc takes function c from the accesses s to the accesses t.      *)
Advances(acc, c, s, t) ==
  /\ ~Sd!Writes(acc, "CMD")
  /\ Acked(s) \cap ctrl' \subseteq Acked(t)
  /\ Ops(t) \subseteq Ops(s)
  /\ Poll \in Ops(s) => Poll \in Ops(t)
  /\ sent' = sent \/ Write("DATA", Sd!NoCommand) \notin Ops(t)
  /\ Sd!Reads(acc, "RESP") => Read("RESP") \in Ops(s) /\ Read("RESP") \notin Ops(t)
  /\ resp' = IF Sd!Reads(acc, "RESP") /\ c # "reset" THEN Append(resp, cmd_reg.last) ELSE resp
  /\ "RST" \in ctrl' => "RST" \in ctrl \/ (c = "reset" /\ Poll \in Ops(t))

(* A response that is offered stays until it is read. *)
LEMMA OfferStays ==
  ASSUME NEW acc, NEW fits, Stepping(acc, fits), ~Sd!Reads(acc, "RESP"), "CMD_RESP" \in ctrl
  PROVE  "CMD_RESP" \in ctrl'
<1>1. ctrl' = Sd!CtrlNext(acc)
  BY Tops DEF Stepping
<1>2. "CMD_RESP" \in Sd!CtrlBits /\ "CMD_RESP" \notin Sd!Settings
  BY DEF Sd!CtrlBits, Sd!Settings
<1> QED BY <1>1, <1>2 DEF Sd!CtrlNext

(* A transfer goes on. *)
LEMMA FlowGoesOn ==
  ASSUME NEW acc, NEW fits, Stepping(acc, fits), ~Sd!Writes(acc, "CMD"),
         command.idx \in Flow, ~Active, dat.state # "IDLE", "RST" \notin ctrl
  PROVE  dat'.state # "IDLE"
<1>1. Moving /\ ~command.abrt
  BY DEF Stepping, ControllerInv, FlowInv, Types, Formed, Flow
<1>2. CASE clkstrb
  BY <1>1, <1>2, DatSteps
     DEF Stepping, DatResets, DatMove, DatWaits, DatStarts, DatTails, DatBusy, DatAborts,
         DatMoves, Moving, Busy
<1>3. CASE ~clkstrb
  BY <1>3, StillBetween DEF Stepping
<1> QED BY <1>2, <1>3

(* An access that is no command leaves the command as it is. *)
LEMMA WhichStays ==
  ASSUME NEW acc, NEW fits, Stepping(acc, fits), NEW c, NEW s, NEW t, NEW b,
         Advances(acc, c, s, t), Which(c, b)
  PROVE  Which(c, b)'
<1>1. /\ command'.idx = command.idx /\ command'.dmode = command.dmode
      /\ command'.abrt = command.abrt
      /\ "RST" \in ctrl' => "RST" \in ctrl \/ c = "reset"
  BY SameCommand DEF Advances
<1> QED BY <1>1 DEF Which, First

(* The accesses that remain stay right. *)
LEMMA LegalStays ==
  ASSUME NEW acc, NEW fits, Stepping(acc, fits), NEW c, NEW s, NEW t, NEW b,
         Advances(acc, c, s, t), Which(c, b), Legal(c, s, b)
  PROVE  Legal(c, t, b)'
<1>1. /\ command'.idx = command.idx /\ (Active' => Active)
      /\ Ops(t) \subseteq Ops(s) /\ (Poll \in Ops(s) => Poll \in Ops(t))
  BY SameCommand DEF Advances
<1>2. c # "reset" /\ Read("RESP") \in Ops(t) => "CMD_RESP" \in ctrl'
  BY <1>1, OfferStays DEF Advances, Legal
<1>3. Write("DATA", Sd!NoCommand) \in Ops(t) => sent' < Words * Blocks
  BY <1>1 DEF Advances, Legal
<1>4. ASSUME \E o \in Ops(t) : Commands(o)
      PROVE  /\ ~Active' /\ c \in {"read_block", "read_blocks_stop", "write_blocks_stop"}
             /\ c # "read_block" => command'.idx \in Flow /\ b >= Blocks /\ dat'.state # "IDLE"
             /\ \A o \in Ops(t) : o.adr = "CMD" => o \in Ops(StopOf(c))
  <2>1. /\ ~Active /\ c \in {"read_block", "read_blocks_stop", "write_blocks_stop"}
        /\ c # "read_block" => command.idx \in Flow /\ b >= Blocks /\ dat.state # "IDLE"
        /\ \A o \in Ops(t) : o.adr = "CMD" => o \in Ops(StopOf(c))
    BY <1>1, <1>4 DEF Legal
  <2>2. "RST" \notin ctrl
    BY <2>1 DEF Which
  <2>3. c # "read_block" => dat'.state # "IDLE"
    BY <2>1, <2>2, FlowGoesOn DEF Advances
  <2> QED BY <1>1, <2>1, <2>3
<1>5. Set({"RST"}) \in Ops(t) => c = "reset" /\ Poll \in Ops(t)
  BY <1>1 DEF Legal
<1> QED BY <1>2, <1>3, <1>4, <1>5 DEF Legal

(* The functions that end when everything is at rest. *)
LEMMA EndsStay ==
  ASSUME NEW acc, NEW fits, Stepping(acc, fits), NEW c, NEW s, NEW t, NEW f,
         Advances(acc, c, s, t), Quits(s), c = "reset" => Poll \notin Ops(t)
  PROVE  Quits(t)'
<1>1. ~command'.commit
  BY SameCommand DEF Advances, Quits, Rests
<1> QED BY <1>1, QuitsStays DEF Advances

(* A stop command that has ended the data phase has done so for good. *)
LEMMA StopDoneStays ==
  ASSUME NEW acc, NEW fits, Stepping(acc, fits), NEW c, NEW l \in 1 .. 2, NEW s, NEW t, NEW f,
         NEW b,
         Advances(acc, c, s, t), Which(c, b), StopDone(c, l, s, f)
  PROVE  StopDone(c, l, t, f)'
<1> SUFFICES ASSUME c \in {"read_blocks_stop", "write_blocks_stop"}
             PROVE  /\ "DAT_DONE" \in f \/ l = 2 => ~First' /\ ~Moving'
                    /\ ~First' /\ "CMD_DONE" \in ctrl' =>
                         \/ Rests' /\ "idle_cmd" \in status_last'
                         \/ l = 1 /\ ("DAT_DONE" \in f => "CMD_DONE" \in Acked(t))
  BY DEF StopDone
<1>0. /\ command'.idx = command.idx /\ (First' <=> First) /\ (Active' => Active)
      /\ Rests => Rests' /\ "idle_cmd" \in status_last'
      /\ Types /\ Formed(command) /\ "RST" \notin ctrl
  BY SameCommand DEF Advances, Stepping, ControllerInv, Types, Which
<1>1. "DAT_DONE" \in f \/ l = 2 => ~First' /\ ~Moving'
  <2> SUFFICES ASSUME "DAT_DONE" \in f \/ l = 2 PROVE ~Moving'
    BY <1>0 DEF StopDone
  <2>1. ~Moving /\ command.dmode \in {"NONE", "BUSY"}
    BY <1>0 DEF StopDone, First, Formed, PhasesOf
  <2>2. CASE clkstrb
    BY <1>0, <2>1, <2>2, DatSteps
     DEF Stepping, DatResets, DatMove, DatWaits, DatStarts, DatTails, DatBusy, DatAborts,
         DatMoves, Moving, Busy
  <2>3. CASE ~clkstrb
    BY <2>1, <2>3, StillBetween DEF Stepping, Moving
  <2> QED BY <2>2, <2>3
<1>2. ASSUME ~First, "CMD_DONE" \in ctrl'
      PROVE  \/ Rests' /\ "idle_cmd" \in status_last'
             \/ l = 1 /\ ("DAT_DONE" \in f => "CMD_DONE" \in Acked(t))
  <2>1. CASE "CMD_DONE" \in ctrl
    <3>1. \/ Rests /\ "idle_cmd" \in status_last
          \/ l = 1 /\ ("DAT_DONE" \in f => "CMD_DONE" \in Acked(s))
      BY <1>2, <2>1 DEF StopDone
    <3> QED BY <1>0, <1>2, <3>1 DEF Advances
  <2>2. CASE Sd!Rose("idle_cmd")
    <3>1. "DAT_DONE" \in f \/ l = 2 => ~Moving
      BY DEF StopDone
    <3>2. cmd.state = "IDLE" /\ (command.commit => Moving)
      BY <1>2, <2>2, FlagMoves DEF First, Stepping, ControllerInv, StopInv
    <3>3. CASE command.commit
      BY <3>1, <3>2, <3>3, <1>2
    <3>4. CASE ~command.commit
      BY <1>0, <3>2, <3>4 DEF Rests
    <3> QED BY <3>3, <3>4
  <2> QED BY <1>2, <2>1, <2>2, FlagMoves
<1> QED BY <1>0, <1>1, <1>2

(* A single read that has seen its end is at its end. *)
LEMMA ReadBlockStays ==
  ASSUME NEW acc, NEW fits, Stepping(acc, fits), NEW c, NEW s, NEW t, NEW f,
         Advances(acc, c, s, t), ReadBlockInv(c, s, f)
  PROVE  ReadBlockInv(c, t, f)'
<1>1. c = "read_block" /\ "DAT_DONE" \in f => Quits(t)'
  BY EndsStay DEF ReadBlockInv
<1> QED BY <1>1 DEF ReadBlockInv

(* A multiple read that has seen the end of its data has seen all of it. *)
LEMMA ReadBlocksStays ==
  ASSUME NEW acc, NEW fits, Stepping(acc, fits), NEW c, NEW l \in 1 .. 2, NEW s, NEW t, NEW f,
         NEW b,
         Advances(acc, c, s, t), Which(c, b), StopDone(c, l, s, f), ReadBlocksInv(c, l, s, f)
  PROVE  ReadBlocksInv(c, l, t, f)'
<1> SUFFICES ASSUME c = "read_blocks_stop"
             PROVE  /\ "DAT_DONE" \in f \/ l = 2
                         => dat'.state = "IDLE" /\ "idle_dat" \in status_last'
                    /\ l = 1 /\ "DAT_DONE" \in f => ctrl' \cap DataFlags \subseteq Acked(t)
                    /\ l = 2 => ctrl' \cap DataFlags = {}
                    /\ l = 2 /\ "CMD_DONE" \in f => Quits(t)'
  BY DEF ReadBlocksInv
<1>1. ASSUME "DAT_DONE" \in f \/ l = 2
      PROVE  /\ dat'.state = "IDLE" /\ "idle_dat" \in status_last'
             /\ ctrl' \cap DataFlags \subseteq ctrl
  <2>1. dat.state = "IDLE" /\ "idle_dat" \in status_last /\ command.dmode = "NONE"
    BY <1>1 DEF ReadBlocksInv, StopDone, Which
  <2>2. dat'.state = "IDLE" /\ "idle_dat" \in status_last'
    BY <2>1, DatRests DEF Stepping
  <2>3. ctrl' \cap DataFlags \subseteq ctrl
    BY <2>1, FlagMoves, NotRisen DEF DataFlags
  <2> QED BY <2>2, <2>3
<1>2. l = 1 /\ "DAT_DONE" \in f => ctrl' \cap DataFlags \subseteq Acked(t)
  BY <1>1 DEF ReadBlocksInv, Advances
<1>3. l = 2 => ctrl' \cap DataFlags = {}
  BY <1>1 DEF ReadBlocksInv
<1>4. l = 2 /\ "CMD_DONE" \in f => Quits(t)'
  BY EndsStay DEF ReadBlocksInv
<1> QED BY <1>1, <1>2, <1>3, <1>4

(* A multiple write that has seen the end of its data waits for the card   *)
(* only.                                                                   *)
LEMMA WriteBlocksStays ==
  ASSUME NEW acc, NEW fits, Stepping(acc, fits), NEW c, NEW l \in 1 .. 2, NEW s, NEW t, NEW f,
         NEW b,
         Advances(acc, c, s, t), Which(c, b), StopDone(c, l, s, f), WriteBlocksInv(c, l, s, f)
  PROVE  WriteBlocksInv(c, l, t, f)'
<1> SUFFICES ASSUME c = "write_blocks_stop", "DAT_DONE" \in f \/ l = 2
             PROVE  /\ ~dat'.block_done
                    /\ dat'.state # "IDLE" => ~Active'
                    /\ Sd!Rose("idle_dat")' => Rests'
                    /\ "BLK_DONE" \in ctrl' => l = 1 /\ "BLK_DONE" \in Acked(t)
                    /\ "DAT_DONE" \in ctrl' => Settled' \/ (l = 1 /\ "DAT_DONE" \in Acked(t))
                    /\ l = 2 /\ "DAT_DONE" \in f => Quits(t)'
  BY DEF WriteBlocksInv
<1>0. /\ ~First /\ ~Moving /\ "RST" \notin ctrl /\ ~dat.block_done
      /\ dat.state # "IDLE" => ~Active
      /\ Sd!Rose("idle_dat") => Rests
      /\ "BLK_DONE" \in ctrl => l = 1 /\ "BLK_DONE" \in Acked(s)
      /\ "DAT_DONE" \in ctrl => Settled \/ (l = 1 /\ "DAT_DONE" \in Acked(s))
      /\ l = 2 /\ "DAT_DONE" \in f => Quits(s)
  BY DEF Which, StopDone, WriteBlocksInv
<1>a. command.idx = "STOP" /\ command.dmode = "BUSY"
  BY <1>0 DEF Which, First
<1>b. /\ command'.idx = command.idx
      /\ command'.commit <=> command.commit /\ ~clkstrb
      /\ Active' => Active
      /\ Rests => Rests'
  BY SameCommand DEF Advances
<1>c. Types /\ CmdShape /\ DatShape /\ StopInv
  BY DEF Stepping, ControllerInv
<1>d. Types'
  BY TypesStep DEF Stepping
<1>e. dat.state \in DatStates /\ cmd.state \in CmdStates
  BY <1>c DEF DatShape, Shaped, DatRecord, Types, CmdRecord
<1>1. /\ command.idx = "STOP" /\ command.dmode = "BUSY" /\ command'.idx = command.idx
      /\ command'.commit <=> command.commit /\ ~clkstrb
      /\ Active' => Active
      /\ Rests => Rests'
      /\ Types /\ Types' /\ CmdShape /\ StopInv
      /\ dat.state \in DatStates /\ cmd.state \in CmdStates
  BY <1>a, <1>b, <1>c, <1>d, <1>e
<1>2. ~dat'.block_done
  <2>1. CASE clkstrb
    BY <1>0, <2>1, DatSteps DEF Stepping
  <2>2. CASE ~clkstrb
    BY <1>0, <2>2, StillBetween DEF Stepping
  <2> QED BY <2>1, <2>2
<1>3. dat'.state # "IDLE" => ~Active'
  <2>1. CASE dat.state # "IDLE"
    BY <1>0, <1>1, <2>1
  <2>2. CASE dat.state = "IDLE" /\ dat'.state # "IDLE"
    <3>1. clkstrb /\ cmd.start_dat
      BY <2>2, DatRests DEF Stepping
    <3>2. cmd.state = "TAIL"
      BY <1>1, <3>1 DEF CmdShape
    <3>3. ~Active
      BY <3>2 DEF Active
    <3> QED BY <1>1, <3>3
  <2> QED BY <2>1, <2>2
<1>4. Sd!Rose("idle_dat")' => Rests'
  <2> SUFFICES ASSUME Sd!Rose("idle_dat")' PROVE Rests'
    OBVIOUS
  <2>1. dat'.state = "IDLE" /\ "idle_dat" \notin status_last'
    BY DEF Sd!Rose, Sd!Status, Sd!status_idle_dat
  <2>2. dat.state # "IDLE" /\ ~Active
    BY <1>0, <1>1, <2>1, CommandMoves DEF Stepping
  <2>3. clkstrb
    BY <2>1, <2>2, StillBetween DEF Stepping
  <2>4. dat.state = "TAIL"
    BY <1>0, <1>1, <2>1, <2>2, <2>3, DatSteps
       DEF Stepping, DatResets, DatMove, DatWaits, DatStarts, DatTails, DatBusy, DatAborts,
           DatMoves, Moving, Busy
  <2>5. cmd.state \in {"IDLE", "TAIL"} /\ (cmd.state = "IDLE" => ~command.commit)
    BY <1>1, <2>2 DEF Active, CmdStates
  <2>6. TailsMeet
    BY <1>1 DEF StopInv, TailsMeet
  <2>7. cmd'.state = "IDLE"
    BY <1>0, <2>1, <2>4, <2>5, <2>6, Tails DEF Stepping
  <2> QED BY <1>1, <2>3, <2>7 DEF Rests
<1>5. "BLK_DONE" \in ctrl' => l = 1 /\ "BLK_DONE" \in Acked(t)
  BY <1>0, FlagMoves DEF Advances
<1>6. "DAT_DONE" \in ctrl' => Settled' \/ (l = 1 /\ "DAT_DONE" \in Acked(t))
  <2> SUFFICES ASSUME "DAT_DONE" \in ctrl' PROVE Settled' \/ (l = 1 /\ "DAT_DONE" \in Acked(t))
    OBVIOUS
  <2>1. Rests /\ dat.state = "IDLE" => Settled'
    <3>1. Rests => cmd.state = "IDLE" /\ ~command.commit /\ ~command'.commit
      BY <1>1 DEF Rests
    <3> QED BY <3>1, SettledStays DEF Stepping
  <2>2. CASE "DAT_DONE" \in ctrl
    BY <1>0, <2>1, <2>2 DEF Advances, Settled
  <2>3. CASE Sd!Rose("idle_dat")
    BY <1>0, <2>1, <2>3, FlagMoves
  <2> QED BY <2>2, <2>3, FlagMoves
<1>7. l = 2 /\ "DAT_DONE" \in f => Quits(t)'
  BY <1>0, EndsStay
<1> QED BY <1>2, <1>3, <1>4, <1>5, <1>6, <1>7

(* A SELECT that has seen its response is done with the command side. *)
LEMMA SelectStays ==
  ASSUME NEW acc, NEW fits, Stepping(acc, fits), NEW c, NEW l \in 1 .. 2, NEW s, NEW t, NEW f,
         Advances(acc, c, s, t), SelectLoops(c, l, s, f)
  PROVE  SelectLoops(c, l, t, f)'
<1> SUFFICES ASSUME c = "select"
             PROVE  /\ "CMD_DONE" \in f \/ l = 2 => Rests' /\ "idle_cmd" \in status_last'
                    /\ l = 1 /\ "CMD_DONE" \in f /\ "CMD_DONE" \in ctrl' => "CMD_DONE" \in Acked(t)
                    /\ l = 2 => "CMD_DONE" \notin ctrl'
                    /\ l = 2 /\ Poll \notin Ops(t) /\ f \cap BusyFlags = {} => Quits(t)'
  BY DEF SelectLoops
<1>1. Rests => Rests' /\ "idle_cmd" \in status_last'
  BY SameCommand DEF Advances
<1>2. "idle_cmd" \in status_last => ("CMD_DONE" \in ctrl' => "CMD_DONE" \in ctrl)
  BY FlagMoves, NotRisen
<1>3. l = 1 /\ "CMD_DONE" \in f /\ "CMD_DONE" \in ctrl' => "CMD_DONE" \in Acked(t)
  BY <1>2 DEF SelectLoops, Advances
<1>4. l = 2 /\ Poll \notin Ops(t) /\ f \cap BusyFlags = {} => Quits(t)'
  BY EndsStay DEF SelectLoops, Advances
<1> QED BY <1>1, <1>2, <1>3, <1>4 DEF SelectLoops

(* ALL_SEND_CID that has seen its response is at its end. *)
LEMMA CidStays ==
  ASSUME NEW acc, NEW fits, Stepping(acc, fits), NEW c, NEW s, NEW t, NEW f,
         Advances(acc, c, s, t), CidLoop(c, s, f)
  PROVE  CidLoop(c, t, f)'
<1>1. c = "all_send_cid" /\ "CMD_DONE" \in f => Quits(t)'
  BY EndsStay DEF CidLoop
<1> QED BY <1>1 DEF CidLoop

(* A reset keeps both state machines at rest. *)
LEMMA ResetGoesOn ==
  ASSUME NEW acc, NEW fits, Stepping(acc, fits), NEW c, NEW s, NEW t, NEW f, ~EarlyData,
         Advances(acc, c, s, t), ResetInv(c, s, f)
  PROVE  ResetInv(c, t, f)'
<1> SUFFICES ASSUME c = "reset"
             PROVE  /\ ResetReady' /\ "idle_dat" \in status_last'
                    /\ ctrl' \subseteq {"CRCERR", "RST", "CMD_DONE"}
                    /\ Poll \notin Ops(t) /\ f \cap BusyFlags = {} => Quits(t)'
                    /\ resp' = <<>>
  BY DEF ResetInv
<1>1. ResetReady /\ "idle_dat" \in status_last /\ ctrl \subseteq {"CRCERR", "RST", "CMD_DONE"}
      /\ resp = <<>>
  BY DEF ResetInv
<1>2. ResetReady'
  BY <1>1, ResetStays DEF Stepping, Advances
<1>3. dat.state = "IDLE" /\ cmd.state \in {"WAIT_RESP", "IDLE"}
  BY <1>1 DEF ResetReady
<1>4. "idle_dat" \in status_last'
  BY <1>3, DatRests DEF Stepping
<1>5. ctrl' \subseteq {"CRCERR", "RST", "CMD_DONE"}
  BY <1>1, <1>3, FlagMoves, NotRisen DEF Bits, Sd!CtrlBits, Sd!Settings
<1>6. Poll \notin Ops(t) /\ f \cap BusyFlags = {} => Quits(t)'
  BY EndsStay DEF ResetInv, Advances
<1>7. resp' = <<>>
  BY <1>1 DEF Advances
<1> QED BY <1>2, <1>4, <1>5, <1>6, <1>7

(* A card that is busy is waited for until it rests. *)
LEMMA BusyStays ==
  ASSUME NEW acc, NEW fits, Stepping(acc, fits), NEW c, NEW s, NEW t, NEW b,
         Advances(acc, c, s, t), Which(c, b), BusyAwaited(c)
  PROVE  BusyAwaited(c)'
<1> SUFFICES ASSUME c = "select"
             PROVE  /\ task' = "busy" => Active' \/ cmd'.start_dat \/ dat'.state = "WAIT_BUSY"
                    /\ cmd'.start_dat => dat'.state = "IDLE"
  BY DEF BusyAwaited
<1>1. command.idx = "SELECT" /\ "RST" \notin ctrl
  BY DEF Which, CommandsOf
<1>2. Types /\ CmdShape /\ FirstInv /\ SelectInv /\ Strobes
  BY DEF Stepping, ControllerInv
<1>3. command.dmode = "BUSY" /\ ~command.abrt
  BY <1>1, <1>2 DEF Types, Formed, PhasesOf
<1>4. /\ task = "busy" => Active \/ cmd.start_dat \/ dat.state = "WAIT_BUSY"
      /\ cmd.start_dat => dat.state = "IDLE"
  BY DEF BusyAwaited
<1>5. command'.commit <=> command.commit /\ ~clkstrb
  BY SameCommand DEF Advances
<1>6. cmd'.start_dat => dat'.state = "IDLE"
  <2>1. CASE clkstrb /\ cmd'.start_dat
    <3>1. cmd.state = "REGOUT"
      BY <1>1, <1>3, <2>1, CmdMoves
         DEF Stepping, CmdResets, CmdMove, CmdStarts, CmdHolds, CmdCounts, CmdWaits, CmdResponds,
             CmdOffers, CmdReadsOn, CmdTrails, CmdEnds, CmdGoes, CmdQuiet
    <3>2. Active /\ First /\ ~cmd.start_dat
      BY <1>1, <1>2, <3>1 DEF Active, First, CmdShape
    <3>3. dat.state = "IDLE"
      BY <1>2, <1>3, <3>2 DEF FirstInv
    <3> QED BY <3>2, <3>3, DatRests DEF Stepping
  <2>2. CASE ~clkstrb
    BY <1>4, <2>2, StillBetween DEF Stepping
  <2> QED BY <2>1, <2>2
<1>7. ASSUME task' = "busy" PROVE Active' \/ cmd'.start_dat \/ dat'.state = "WAIT_BUSY"
  <2>1. CASE clkstrb
    <3>1. task = "busy"
      BY <1>2, <1>7, <2>1, Phases
         DEF Stepping, Between, RisesNow, RisesNot, FallsNow, FallsNot, Strobed
    <3>2. CASE Active
      <4>1. cmd'.state \in {"WRITE", "WAIT_RESP", "READ_RESP", "REGOUT"} \/ cmd'.start_dat
        BY <1>1, <1>3, <2>1, <3>2, CmdMoves
           DEF Stepping, Active, CmdResets, CmdMove, CmdStarts, CmdHolds, CmdCounts, CmdWaits,
               CmdResponds,
               CmdOffers, CmdReadsOn, CmdTrails, CmdEnds, CmdGoes
      <4> QED BY <4>1 DEF Active
    <3>3. CASE cmd.start_dat
      BY <1>1, <1>3, <1>4, <2>1, <3>3, DatSteps
         DEF Stepping, DatResets, DatMove, DatWaits, DatStarts, DatTails, DatBusy, DatAborts,
             DatMoves, Moving, Busy
    <3>4. CASE dat.state = "WAIT_BUSY"
      <4>1. Card!low
        BY <3>1 DEF Card!low
      <4> QED BY <1>1, <1>3, <2>1, <3>4, <4>1, DatSteps
         DEF Stepping, DatResets, DatMove, DatWaits, DatStarts, DatTails, DatBusy, DatAborts,
             DatMoves, Moving, Busy
    <3> QED BY <1>4, <3>1, <3>2, <3>3, <3>4
  <2>2. CASE ~clkstrb
    <3>1. cmd' = cmd /\ dat' = dat
      BY <2>2, StillBetween DEF Stepping
    <3>2. Active' <=> Active
      BY <1>5, <2>2, <3>1 DEF Active
    <3>3. CASE task = "busy"
      BY <1>4, <3>1, <3>2, <3>3
    <3>4. CASE task # "busy"
      <4>1. cmd.oe
        <5>1. \/ Card!Rise(cmd.oe, cmd_reg.idx, Sd!HostDat) /\ ~cmd.oe
              \/ cmd.oe
              \/ Card!Fall
          BY <1>2, <1>7, <2>2, <3>4, Phases
             DEF Stepping, Between, RisesNow, RisesNot, FallsNow, FallsNot, Strobed
        <5>2. ~Card!Fall
          BY <1>7, <3>4 DEF Card!Fall, Card!Move, Card!AfterWait
        <5>3. ~(Card!Rise(cmd.oe, cmd_reg.idx, Sd!HostDat) /\ ~cmd.oe)
          BY <1>7, <3>4 DEF Card!Rise, Card!TakeDataBit
        <5> QED BY <5>1, <5>2, <5>3
      <4>2. Active
        BY <1>2, <4>1 DEF CmdShape, Active
      <4> QED BY <3>2, <4>2
    <3> QED BY <3>3, <3>4
  <2> QED BY <2>1, <2>2
<1> QED BY <1>6, <1>7

(* The responses of a function have the form that it expects. *)
LEMMA ResponseKind ==
  ASSUME NEW acc, NEW fits, Stepping(acc, fits), NEW c \in Transfers \cup Limited, NEW b,
         Which(c, b), Active
  PROVE  /\ command.rmode = KindOf(c) /\ (command.rmode = "LONG" => First)
         /\ command.idx \in Flow => command.rmode = "SHORT" /\ First
         /\ Sd!Registered(command.rmode) = Parts[KindOf(c)]
<1>1. /\ Formed(command) /\ command.idx # "none"
  BY DEF Stepping, ControllerInv, CmdShape, Types
<1>2. command.idx \in CommandsOf(c)
  BY DEF Which
<1>3. command.rmode = IF command.idx = "ALL_SEND_CID" THEN "LONG" ELSE "SHORT"
  BY <1>1 DEF Formed
<1>4. command.idx = "ALL_SEND_CID" <=> c = "all_send_cid"
  BY <1>1, <1>2 DEF CommandsOf, Transfers, Limited
<1>5. Sd!Registered("LONG") = Parts["LONG"] /\ Sd!Registered("SHORT") = Parts["SHORT"]
  BY DEF Sd!Registered, Parts
<1> QED BY <1>3, <1>4, <1>5 DEF KindOf, First, Flow

(* What is read next comes where the function expects it. *)
LEMMA NextCut ==
  ASSUME NEW kind \in {"SHORT", "LONG"}, NEW base \in {0, 2}, kind = "LONG" => base = 0,
         NEW k \in 1 .. Parts[kind]
  PROVE  LastBit(kind, k) = Cut(kind, base + k)
<1>1. \A m \in Nat : m < 2 => m % 2 = m /\ (m + 2) % 2 = m
  OBVIOUS
<1>2. \A m \in Nat : m < 5 => m % 5 = m
  OBVIOUS
<1>3. k - 1 \in Nat /\ k - 1 < Parts[kind] /\ Parts["SHORT"] = 2 /\ Parts["LONG"] = 5
  BY DEF Parts
<1>4. ((base + k) - 1) % Parts[kind] = k - 1
  <2>1. CASE kind = "LONG"
    <3>1. (base + k) - 1 = k - 1
      BY <2>1, <1>3
    <3> QED BY <1>2, <1>3, <2>1, <3>1
  <2>2. CASE kind = "SHORT" /\ base = 0
    <3>1. (base + k) - 1 = k - 1
      BY <2>2, <1>3
    <3> QED BY <1>1, <1>3, <2>2, <3>1
  <2>3. CASE kind = "SHORT" /\ base = 2
    <3>1. (base + k) - 1 = (k - 1) + 2
      BY <2>3, <1>3
    <3> QED BY <1>1, <1>3, <2>3, <3>1
  <2> QED BY <2>1, <2>2, <2>3
<1> QED BY <1>4 DEF LastBit, Cut

(* The register is offered, or has been read. *)
Offered == Sd!Rose("resp_cmd") \/ "CMD_RESP" \in ctrl

(* How many registers have been read, by the state. *)
LEMMA SoFar ==
  /\ cmd.state = "READ_RESP" => ReadSoFar = (IF First THEN 0 ELSE 2) + Taken
  /\ cmd.state = "REGOUT" /\ Offered => ReadSoFar = (IF First THEN 0 ELSE 2) + (Taken - 1)
  /\ cmd.state = "REGOUT" /\ ~Offered => ReadSoFar = (IF First THEN 0 ELSE 2) + Taken
  /\ cmd.state \notin {"READ_RESP", "REGOUT"} => ReadSoFar = (IF First THEN 0 ELSE 2) + 0
BY DEF ReadSoFar, Offered

(* Reading takes the register that is offered. *)
LEMMA OfferTaken ==
  ASSUME NEW acc, NEW fits, Stepping(acc, fits), Sd!Reads(acc, "RESP"), "CMD_RESP" \in ctrl,
         "RST" \notin ctrl
  PROVE  /\ cmd.state = "REGOUT" /\ cmd'.state = "REGOUT" /\ cmd'.word = cmd.word
         /\ ~Offered'
<1>1. cmd.state = "REGOUT" /\ Types
  BY DEF Stepping, ControllerInv, FlagsInv
<1>2. cmd'.state = "REGOUT" /\ cmd'.word = cmd.word
  <2>1. CASE clkstrb
    BY <1>1, <2>1, CmdMoves
       DEF Stepping, CmdResets, CmdMove, CmdStarts, CmdHolds, CmdCounts, CmdWaits, CmdResponds,
           CmdOffers, CmdReadsOn, CmdTrails, CmdEnds, CmdGoes
  <2>2. CASE ~clkstrb
    BY <1>1, <2>2, StillBetween DEF Stepping
  <2> QED BY <2>1, <2>2
<1>3. "resp_cmd" \in status_last'
  BY <1>1, CommandMoves DEF Stepping
<1>4. "CMD_RESP" \notin ctrl'
  <2>1. ctrl' = Sd!CtrlNext(acc)
    BY Tops DEF Stepping
  <2>2. ~Sd!Writes(acc, "CTRL") /\ "CMD_RESP" \notin Sd!Settings
    BY DEF Sd!Reads, Sd!Writes, Sd!Settings
  <2> QED BY <2>1, <2>2 DEF Sd!CtrlNext
<1> QED BY <1>1, <1>2, <1>3, <1>4 DEF Offered, Sd!Rose

(* Otherwise an offer stays, and none comes up late. *)
LEMMA OfferKept ==
  ASSUME NEW acc, NEW fits, Stepping(acc, fits), ~Sd!Reads(acc, "RESP"), cmd.state = "REGOUT"
  PROVE  Offered' <=> Offered
<1>1. "resp_cmd" \in status_last' /\ Types
  BY CommandMoves DEF Stepping, ControllerInv
<1>2. ctrl' = Sd!CtrlNext(acc)
  BY Tops DEF Stepping
<1>3. "CMD_RESP" \notin Sd!Settings /\ "CMD_RESP" \in Sd!CtrlBits
  BY DEF Sd!Settings, Sd!CtrlBits
<1>4. "CMD_RESP" \in ctrl' <=> "CMD_RESP" \in ctrl \/ Sd!Rose("resp_cmd")
  BY <1>2, <1>3 DEF Sd!CtrlNext, Sd!Sets
<1> QED BY <1>1, <1>4 DEF Offered, Sd!Rose

(* Without a read the account of the response stays. *)
LEMMA AccountKept ==
  ASSUME NEW acc, NEW fits, Stepping(acc, fits), ~Sd!Writes(acc, "CMD"), ~Sd!Reads(acc, "RESP"),
         Active, "RST" \notin ctrl
  PROVE  /\ Active' => ReadSoFar' = ReadSoFar
         /\ ~Active' => ReadSoFar = (IF First THEN 0 ELSE 2) + Sd!Registered(command.rmode)
<1> DEFINE base == IF First THEN 0 ELSE 2
           regs == Sd!Registered(command.rmode)
<1>0. /\ First' <=> First
      /\ command'.rmode = command.rmode /\ (command'.commit <=> command.commit /\ ~clkstrb)
      /\ cmd.state \in CmdStates /\ regs \in Nat /\ cmd.word \in Nat /\ Types
      /\ cmd.state = "WAIT_RESP" => cmd.word = regs
      /\ Sd!Rose("resp_cmd") => ~clkstrb
  BY SameCommand DEF Stepping, ControllerInv, Types, CmdRecord, CmdShape, FlagsInv, Sd!Registered
<1>1. (IF First THEN 0 ELSE 2)' = base /\ Sd!Registered(command.rmode)' = regs
  BY <1>0
<1>2. /\ Taken = regs - cmd.word
      /\ Taken' = regs - cmd'.word
  BY <1>1 DEF Taken
<1>3. /\ cmd'.state = "READ_RESP" => ReadSoFar' = base + (regs - cmd'.word)
      /\ cmd'.state = "REGOUT" /\ Offered' => ReadSoFar' = base + ((regs - cmd'.word) - 1)
      /\ cmd'.state = "REGOUT" /\ ~Offered' => ReadSoFar' = base + (regs - cmd'.word)
      /\ cmd'.state \notin {"READ_RESP", "REGOUT"} => ReadSoFar' = base + 0
  BY <1>1, <1>2, SoFar DEF ReadSoFar, Offered
<1>4. /\ cmd.state = "READ_RESP" => ReadSoFar = base + (regs - cmd.word)
      /\ cmd.state = "REGOUT" /\ Offered => ReadSoFar = base + ((regs - cmd.word) - 1)
      /\ cmd.state = "REGOUT" /\ ~Offered => ReadSoFar = base + (regs - cmd.word)
      /\ cmd.state \notin {"READ_RESP", "REGOUT"} => ReadSoFar = base + 0
  BY <1>2, SoFar
<1>5. base \in {0, 2}
  OBVIOUS
<1> HIDE DEF base, regs
<1>6. CASE ~clkstrb
  <2>1. cmd' = cmd /\ Active'
    <3>1. cmd' = cmd
      BY <1>6, StillBetween DEF Stepping
    <3> QED BY <1>0, <1>6, <3>1 DEF Active
  <2>2. CASE cmd.state = "REGOUT"
    BY <1>3, <1>4, <2>1, <2>2, OfferKept
  <2>3. CASE cmd.state # "REGOUT"
    BY <1>3, <1>4, <2>1, <2>3
  <2> QED BY <2>1, <2>2, <2>3
<1>7. CASE clkstrb
  <2>1. CmdMove
    BY <1>7, CmdMoves DEF Stepping, CmdResets
  <2>2. CASE CmdStarts
    BY <1>3, <1>4, <2>2 DEF CmdStarts, CmdGoes, Active
  <2>3. CASE CmdHolds
    <3>1. CASE cmd.state = "REGOUT"
      <4>1. Offered /\ cmd'.state = "REGOUT" /\ cmd'.word = cmd.word
        BY <2>3, <3>1 DEF CmdHolds, CmdGoes, Offered
      <4>2. Offered' /\ Active'
        BY <3>1, <4>1, OfferKept DEF Active
      <4> QED BY <1>3, <1>4, <3>1, <4>1, <4>2
    <3>2. CASE cmd.state = "WAIT_RESP"
      <4>1. cmd'.state = "WAIT_RESP" /\ Active'
        BY <2>3, <3>2 DEF CmdHolds, CmdGoes, Active
      <4> QED BY <1>3, <1>4, <3>2, <4>1
    <3> QED BY <2>3, <3>1, <3>2 DEF CmdHolds, Active
  <2>4. CASE CmdCounts
    <3>1. cmd'.state = cmd.state /\ cmd'.word = cmd.word /\ cmd.state \in {"WRITE", "READ_RESP"}
            /\ Active'
      BY <2>4 DEF CmdCounts, CmdGoes, Active
    <3> QED BY <1>3, <1>4, <3>1
  <2>5. CASE CmdWaits
    <3>1. cmd'.state = "WAIT_RESP" /\ cmd.state = "WRITE" /\ Active'
      BY <2>5 DEF CmdWaits, CmdGoes, Active
    <3> QED BY <1>3, <1>4, <3>1
  <2>6. CASE CmdResponds
    <3>1. cmd.state = "WAIT_RESP" /\ cmd'.state = "READ_RESP" /\ cmd'.word = regs /\ Active'
      BY <1>0, <2>6 DEF CmdResponds, CmdGoes, Active
    <3> QED BY <1>0, <1>3, <1>4, <1>5, <3>1
  <2>7. CASE CmdOffers
    <3>1. cmd.state = "READ_RESP" /\ cmd'.state = "REGOUT" /\ cmd'.word = cmd.word - 1 /\ Active'
      BY <2>7 DEF CmdOffers, CmdGoes, Active
    <3>2. Offered'
      <4>1. "resp_cmd" \notin status_last'
        BY <1>0, <3>1, CommandMoves DEF Stepping
      <4> QED BY <3>1, <4>1 DEF Offered, Sd!Rose, Sd!Status, Sd!status_resp_cmd
    <3> QED BY <1>0, <1>3, <1>4, <1>5, <3>1, <3>2
  <2>8. CASE CmdReadsOn
    <3>1. cmd.state = "REGOUT" /\ cmd'.state = "READ_RESP" /\ cmd'.word = cmd.word /\ ~Offered
            /\ Active'
      BY <1>0, <1>7, <2>8 DEF CmdReadsOn, CmdGoes, Active, Offered
    <3> QED BY <1>3, <1>4, <3>1
  <2>9. CASE CmdTrails
    <3>1. cmd.state = "REGOUT" /\ cmd'.state = "TAIL" /\ cmd.word = 0 /\ ~Offered /\ ~Active'
      BY <1>0, <1>7, <2>9 DEF CmdTrails, CmdGoes, Active, Offered
    <3> QED BY <1>0, <1>4, <3>1 DEF base, regs
  <2>10. CASE CmdEnds
    BY <2>10 DEF CmdEnds, Active
  <2> QED BY <2>1, <2>2, <2>3, <2>4, <2>5, <2>6, <2>7, <2>8, <2>9, <2>10 DEF CmdMove
<1> QED BY <1>6, <1>7

(* What has been read agrees with what the controller has taken.           *)
LEMMA RespStays ==
  ASSUME NEW acc, NEW fits, Stepping(acc, fits), NEW c \in Transfers \cup Limited, NEW s, NEW t,
         NEW b,
         Advances(acc, c, s, t), Which(c, b), Legal(c, s, b), RespInv(c), resp \in Seq(Nat)
  PROVE  RespInv(c)' /\ resp' \in Seq(Nat)
<1>0. /\ ~Sd!Writes(acc, "CMD") /\ "RST" \notin ctrl /\ c # "reset"
      /\ command'.idx = command.idx /\ (Active' => Active)
      /\ \A i \in 1 .. Len(resp) : resp[i] = Cut(KindOf(c), i)
      /\ Active => Len(resp) = ReadSoFar
      /\ ~Active /\ command.idx \in Flow => Len(resp) = 2
      /\ Len(resp) \in Nat
  BY SameCommand DEF Advances, Which, RespInv, Transfers, Limited
<1>1. CASE Sd!Reads(acc, "RESP")
  <2>1. "CMD_RESP" \in ctrl
    BY <1>0, <1>1 DEF Advances, Legal
  <2>2. /\ cmd.state = "REGOUT" /\ cmd'.state = "REGOUT" /\ cmd'.word = cmd.word /\ ~Offered'
        /\ Offered /\ Active /\ Active'
    BY <1>0, <1>1, <2>1, OfferTaken DEF Offered, Active
  <2> DEFINE base == IF First THEN 0 ELSE 2
             k == Taken
             x == cmd_reg.last
             kind == KindOf(c)
  <2>3. /\ k \in 1 .. Parts[kind] /\ base \in {0, 2} /\ (kind = "LONG" => base = 0)
        /\ kind \in {"SHORT", "LONG"} /\ x = LastBit(kind, k) /\ x \in Nat
        /\ Taken' = k /\ (IF First THEN 0 ELSE 2)' = base
    <3>1. /\ command.rmode = kind /\ (command.rmode = "LONG" => First)
          /\ Sd!Registered(command.rmode) = Parts[kind]
      BY <1>0, <2>2, ResponseKind
    <3>2. cmd.word < Sd!Registered(command.rmode) /\ cmd.word \in Nat /\ x \in Nat
          /\ x = LastBit(command.rmode, Taken)
      BY <2>2 DEF Stepping, ControllerInv, Types, CmdRecord, CmdShape, Answered
    <3>3. Sd!Registered(command.rmode) \in Nat
      BY DEF Sd!Registered
    <3>4. k \in 1 .. Parts[kind]
      BY <3>1, <3>2, <3>3 DEF Taken
    <3>5. Taken' = k /\ (First' <=> First)
      BY <1>0, <2>2, SameCommand DEF Taken
    <3> QED BY <3>1, <3>2, <3>4, <3>5 DEF KindOf
  <2>4. ReadSoFar = base + (k - 1) /\ ReadSoFar' = base + k
    <3>1. ReadSoFar = base + (k - 1)
      BY <2>2, SoFar
    <3>2. ReadSoFar' = (IF First THEN 0 ELSE 2)' + Taken'
      BY <2>2 DEF ReadSoFar, Offered
    <3> QED BY <2>3, <3>1, <3>2
  <2>5. resp' = Append(resp, x)
    BY <1>0, <1>1 DEF Advances
  <2> HIDE DEF base, k, x, kind
  <2>6. k \in Nat /\ Parts["SHORT"] = 2 /\ Parts["LONG"] = 5
    BY <2>3 DEF Parts
  <2>7. Len(resp) + 1 = base + k
    BY <1>0, <2>2, <2>3, <2>4, <2>6
  <2>8. x = Cut(kind, base + k)
    BY <2>3, NextCut
  <2>9. /\ resp' \in Seq(Nat) /\ Len(resp') = Len(resp) + 1
        /\ \A i \in 1 .. Len(resp) : resp'[i] = resp[i]
        /\ resp'[Len(resp) + 1] = x
    BY <2>3, <2>5, AppendProperties
  <2>10. \A i \in 1 .. Len(resp') : resp'[i] = Cut(kind, i)
    <3>1. \A i \in 1 .. Len(resp) + 1 : i \in 1 .. Len(resp) \/ i = Len(resp) + 1
      BY <1>0
    <3> QED BY <1>0, <2>7, <2>8, <2>9, <3>1 DEF kind
  <2>11. Active' => Len(resp') = ReadSoFar'
    BY <2>4, <2>7, <2>9
  <2>12. \A i \in 1 .. Len(resp') : resp'[i] = Cut(KindOf(c), i)
    BY <2>10 DEF kind
  <2> QED BY <2>2, <2>9, <2>11, <2>12 DEF RespInv, Cut
<1>2. CASE ~Sd!Reads(acc, "RESP")
  <2>1. resp' = resp
    BY <1>2 DEF Advances
  <2>2. Active' => Len(resp) = ReadSoFar'
    BY <1>0, <1>2, AccountKept
  <2>3. ~Active' /\ command.idx \in Flow => Len(resp) = 2
    <3>1. Active /\ ~Active' /\ command.idx \in Flow => Len(resp) = 2
      <4> SUFFICES ASSUME Active, ~Active', command.idx \in Flow PROVE Len(resp) = 2
        OBVIOUS
      <4>1. ReadSoFar = (IF First THEN 0 ELSE 2) + Sd!Registered(command.rmode)
        BY <1>0, <1>2, AccountKept
      <4>2. First /\ command.rmode = "SHORT"
        BY ResponseKind
      <4> QED BY <1>0, <4>1, <4>2 DEF Sd!Registered
    <3> QED BY <1>0, <3>1
  <2> QED BY <1>0, <2>1, <2>2, <2>3 DEF RespInv, Cut
<1> QED BY <1>1, <1>2

(* During a reset nothing has been read. *)
LEMMA NothingRead ==
  ASSUME NEW c, ResetReady, resp = <<>>
  PROVE  RespInv(c)
<1>1. /\ First /\ command.idx \notin Flow /\ (Active => cmd.state = "WAIT_RESP")
      /\ Len(resp) = 0 /\ 1 .. Len(resp) = {}
  BY DEF ResetReady, First, Flow, Active
<1>2. Active => ReadSoFar = 0
  BY <1>1 DEF ReadSoFar
<1> QED BY <1>1, <1>2 DEF RespInv

(* An access that only takes a function further keeps what is true of it.  *)
LEMMA DuringStays ==
  ASSUME NEW acc, NEW fits, Stepping(acc, fits), ~EarlyData,
         NEW c \in Transfers \cup Limited \cup {"reset"}, NEW l \in 1 .. 2, NEW s, NEW t, NEW f,
         NEW b,
         Advances(acc, c, s, t), During(c, l, s, f, b), resp \in Seq(Nat)
  PROVE  During(c, l, t, f, b)' /\ resp' \in Seq(Nat)
<1>0. /\ Which(c, b) /\ Legal(c, s, b)
      /\ ReadBlockInv(c, s, f) /\ StopDone(c, l, s, f)
      /\ ReadBlocksInv(c, l, s, f) /\ WriteBlocksInv(c, l, s, f)
      /\ SelectLoops(c, l, s, f) /\ BusyAwaited(c) /\ CidLoop(c, s, f)
      /\ ResetInv(c, s, f) /\ RespInv(c)
  BY DEF During
<1>1. Which(c, b)' /\ Legal(c, t, b)'
  BY <1>0, WhichStays, LegalStays
<1>2. ReadBlockInv(c, t, f)' /\ StopDone(c, l, t, f)'
  BY <1>0, ReadBlockStays, StopDoneStays
<1>3. ReadBlocksInv(c, l, t, f)' /\ WriteBlocksInv(c, l, t, f)'
  BY <1>0, ReadBlocksStays, WriteBlocksStays
<1>4. SelectLoops(c, l, t, f)' /\ BusyAwaited(c)' /\ CidLoop(c, t, f)'
  BY <1>0, SelectStays, BusyStays, CidStays
<1>5. ResetInv(c, t, f)'
  BY <1>0, ResetGoesOn
<1>6. RespInv(c)' /\ resp' \in Seq(Nat)
  <2>1. CASE c \in Transfers \cup Limited
    BY <1>0, <2>1, RespStays
  <2>2. CASE c = "reset"
    <3>1. ResetReady' /\ resp' = <<>>
      BY <1>5, <2>2 DEF ResetInv
    <3>2. /\ First' /\ command'.idx \notin Flow /\ (Active' => cmd'.state = "WAIT_RESP")
          /\ Len(resp') = 0 /\ 1 .. Len(resp') = {}
      BY <3>1 DEF ResetReady, First, Flow, Active
    <3>3. Active' => ReadSoFar' = 0
      BY <3>2 DEF ReadSoFar
    <3>4. RespInv(c)'
      BY <3>2, <3>3 DEF RespInv, Flow
    <3> QED BY <3>1, <3>4
  <2> QED BY <2>1, <2>2
<1> QED BY <1>1, <1>2, <1>3, <1>4, <1>5, <1>6 DEF During

(* The access that ends a data phase. *)
LEMMA StopGiven ==
  ASSUME NEW acc, NEW fits, Stepping(acc, fits),
         NEW c, NEW l \in 1 .. 2, NEW s, NEW t, NEW f, NEW b, NEW k,
         During(c, l, s, f, b), resp \in Seq(Nat),
         acc = Sd!Access("CMD", TRUE, k), Write("CMD", k) \in Ops(s),
         Ops(t) \subseteq Ops(s), Acked(s) \subseteq Acked(t), \A o \in Ops(t) : ~Commands(o),
         resp' = resp, sent' = sent
  PROVE  During(c, l, t, f, b)' /\ resp' \in Seq(Nat)
<1>0. /\ Which(c, b) /\ Legal(c, s, b) /\ ReadBlockInv(c, s, f) /\ StopDone(c, l, s, f)
           /\ RespInv(c)
  BY DEF During
<1>1. Commands(Write("CMD", k)) /\ Write("CMD", k).adr = "CMD"
  BY DEF Commands, Write
<1>2. /\ ~Active /\ c \in Transfers
      /\ c # "read_block" => command.idx \in Flow /\ b >= Blocks /\ dat.state # "IDLE"
      /\ Write("CMD", k) \in Ops(StopOf(c))
  BY <1>0, <1>1 DEF Legal, Transfers
<1>3. /\ Sd!Writes(acc, "CMD") /\ ~Sd!Writes(acc, "CTRL") /\ ~Sd!Reads(acc, "RESP")
      /\ acc.data = k /\ Types
  BY DEF Sd!Writes, Sd!Reads, Sd!Access, Stepping, ControllerInv
<1>4. command' = k
  BY <1>3, CommandMoves DEF Stepping
<1>5. "RST" \notin ctrl /\ "RST" \notin ctrl' /\ c # "reset" /\ c # "select" /\ c # "all_send_cid"
  BY <1>0, <1>2, <1>3, FlagMoves DEF Which, Transfers
<1>6. Active' => command'.commit /\ cmd'.state = "IDLE"
  BY <1>2, CommandStarts DEF Stepping
<1>7. Legal(c, t, b)'
  <2>1. Read("RESP") \notin Ops(t)
    <3>1. "CMD_RESP" \notin ctrl
      BY <1>2 DEF Stepping, ControllerInv, FlagsInv, Active
    <3> QED BY <1>0, <1>5, <3>1 DEF Legal
  <2>2. Write("DATA", Sd!NoCommand) \in Ops(t) => sent' < Words * Blocks
    BY <1>0 DEF Legal
  <2>3. Set({"RST"}) \notin Ops(t)
    BY <1>0, <1>5 DEF Legal
  <2> QED BY <2>1, <2>2, <2>3 DEF Legal
<1>8. /\ SelectLoops(c, l, t, f)' /\ BusyAwaited(c)' /\ CidLoop(c, t, f)' /\ ResetInv(c, t, f)'
  BY <1>5 DEF SelectLoops, BusyAwaited, CidLoop, ResetInv
<1>9. \A i \in 1 .. Len(resp') : resp'[i] = Cut(KindOf(c), i)
  BY <1>0 DEF RespInv
<1>10. CASE c = "read_block"
  <2>1. k = AbortCommand
    BY <1>2, <1>10, StopPlans, Apart DEF StopOf
  <2>2. command'.idx = "none" /\ command'.abrt /\ ~command'.commit
    BY <1>4, <2>1, StopsFormed
  <2>3. Which(c, b)'
    BY <1>5, <1>10, <2>2 DEF Which, CommandsOf
  <2>4. ReadBlockInv(c, t, f)'
    <3>1. "DAT_DONE" \in f => Quits(t)'
      <4> SUFFICES ASSUME "DAT_DONE" \in f PROVE Quits(t)'
        OBVIOUS
      <4>1. Quits(s)
        BY <1>0, <1>10 DEF ReadBlockInv
      <4> QED BY <1>5, <2>2, <4>1, QuitsStays
    <3> QED BY <3>1 DEF ReadBlockInv
  <2>5. StopDone(c, l, t, f)' /\ ReadBlocksInv(c, l, t, f)' /\ WriteBlocksInv(c, l, t, f)'
    BY <1>10 DEF StopDone, ReadBlocksInv, WriteBlocksInv
  <2>6. ~Active' /\ command'.idx \notin Flow
    BY <1>6, <2>2 DEF Flow
  <2>7. RespInv(c)'
    BY <1>9, <2>6 DEF RespInv, Cut
  <2> QED BY <1>7, <1>8, <2>3, <2>4, <2>5, <2>7 DEF During
<1>11. CASE c # "read_block"
  <2> DEFINE m == IF c = "read_blocks_stop" THEN "NONE" ELSE "BUSY"
  <2>1. k = StopCommand(m)
    <3>1. /\ m \in {"NONE", "BUSY"} /\ StopOf(c) = Commit("STOP", "SHORT", m, TRUE)
      BY <1>2, <1>11 DEF StopOf, Transfers
    <3> HIDE DEF m
    <3>2. Write("CMD", k) \in {Write("CMDARG", Sd!NoCommand), Write("CMD", StopCommand(m))}
      BY <1>2, <3>1, StopPlans
    <3> QED BY <3>2, Apart
  <2>2. command'.idx = "STOP" /\ command'.dmode = m
    BY <1>4, <2>1, StopsFormed
  <2>3. l = 1 /\ "DAT_DONE" \notin f
    BY <1>0, <1>2, <1>11 DEF StopDone, Transfers, First, Flow
  <2>4. Which(c, b)'
    BY <1>2, <1>5, <1>11, <2>2 DEF Which, CommandsOf, Transfers, First
  <2>5. ReadBlockInv(c, t, f)' /\ StopDone(c, l, t, f)'
    BY <1>11, <2>3 DEF ReadBlockInv, StopDone
  <2>6. ReadBlocksInv(c, l, t, f)' /\ WriteBlocksInv(c, l, t, f)'
    BY <2>3 DEF ReadBlocksInv, WriteBlocksInv
  <2>7. RespInv(c)'
    <3>1. Len(resp') = 2
      BY <1>0, <1>2, <1>11 DEF RespInv
    <3>2. Active' => ReadSoFar' = 2
      BY <1>6, <2>2 DEF ReadSoFar, First
    <3>3. command'.idx \notin Flow
      BY <2>2 DEF Flow
    <3> QED BY <1>9, <3>1, <3>2, <3>3 DEF RespInv, Cut
  <2> QED BY <1>7, <1>8, <2>4, <2>5, <2>6, <2>7 DEF During
<1> QED BY <1>10, <1>11

-----------------------------------------------------------------------------
(* Between the loops. *)

(* At rest it stays as it is until a command comes. *)
LEMMA CleanStays ==
  ASSUME NEW acc, NEW fits, Stepping(acc, fits), Settled, Clean,
         ~Sd!Writes(acc, "CMD"), ~Sd!Writes(acc, "CTRL")
  PROVE  Settled' /\ Clean'
<1>1. cmd.state = "IDLE" /\ ~command.commit /\ dat.state = "IDLE" /\ ~command'.commit
  BY SameCommand DEF Settled, Rests
<1>2. Settled'
  BY <1>1, SettledStays DEF Stepping
<1>3. ASSUME NEW x \in ctrl' PROVE x = "CRCERR"
  <2>1. x \in {"CMD_DONE", "DAT_DONE", "BLK_DONE", "DAT_DATA", "RST", "CMD_RESP", "CRCERR"}
    BY <1>3, FlagMoves DEF Bits, Sd!CtrlBits, Sd!Settings
  <2>2. ~Sd!Rose("idle_cmd") /\ ~Sd!Rose("idle_dat")
    BY NotRisen DEF Settled
  <2> QED BY <1>1, <1>3, <2>1, <2>2, FlagMoves DEF Clean
<1> QED BY <1>2, <1>3 DEF Clean

(* The command of a function. *)
CommandOf(c) ==
  CASE c = "read_block" -> Sd!Command("READ", TRUE, FALSE, "R", "SHORT")
    [] c = "read_blocks_stop" -> Sd!Command("READ_MULTI", TRUE, FALSE, "R", "SHORT")
    [] c = "write_blocks_stop" -> Sd!Command("WRITE_MULTI", TRUE, FALSE, "W", "SHORT")
    [] c = "all_send_cid" -> Sd!Command("ALL_SEND_CID", TRUE, FALSE, "NONE", "LONG")
    [] c = "select" -> Sd!Command("SELECT", TRUE, FALSE, "BUSY", "SHORT")

(* The command of each function is well formed, and comes after its        *)
(* argument.                                                               *)
LEMMA CommandsFormed ==
  ASSUME NEW c \in Transfers \cup Limited
  PROVE  /\ Formed(CommandOf(c)) /\ CommandOf(c).commit
         /\ CommandOf(c).idx \in CommandsOf(c) \ {"none", "STOP"}
         /\ Begin(c) = <<Write("CMDARG", Sd!NoCommand), Write("CMD", CommandOf(c))>>
<1>1. CASE c = "read_block"
  BY <1>1 DEF CommandOf, CommandsOf, Sd!Command, Formed, CommandSet, Indices, DataModes, RespModes,
              PhasesOf, Begin, Commit
<1>2. CASE c = "read_blocks_stop"
  BY <1>2 DEF CommandOf, CommandsOf, Sd!Command, Formed, CommandSet, Indices, DataModes, RespModes,
              PhasesOf, Begin, Commit
<1>3. CASE c = "write_blocks_stop"
  BY <1>3 DEF CommandOf, CommandsOf, Sd!Command, Formed, CommandSet, Indices, DataModes, RespModes,
              PhasesOf, Begin, Commit
<1>4. CASE c = "all_send_cid"
  BY <1>4 DEF CommandOf, CommandsOf, Sd!Command, Formed, CommandSet, Indices, DataModes, RespModes,
              PhasesOf, Begin, Commit
<1>5. CASE c = "select"
  BY <1>5 DEF CommandOf, CommandsOf, Sd!Command, Formed, CommandSet, Indices, DataModes, RespModes,
              PhasesOf, Begin, Commit
<1> QED BY <1>1, <1>2, <1>3, <1>4, <1>5 DEF Transfers, Limited

(* A loop that waits for its first flag. *)
LEMMA Waiting ==
  /\ Ops(<<Poll>>) = {Poll} /\ ~Commands(Poll)
  /\ Poll # Read("RESP") /\ Poll # Write("DATA", Sd!NoCommand) /\ Poll # Set({"RST"})
  /\ Acked(<<Poll>>) = {} /\ Ops(<<>>) = {} /\ Acked(<<>>) = {}
<1>1. Ops(<<Poll>>) = {Poll} /\ Ops(<<>>) = {}
  BY ShortOps
<1>2. /\ ~Commands(Poll) /\ Poll # Read("RESP") /\ Poll # Write("DATA", Sd!NoCommand)
           /\ Poll # Set({"RST"})
  BY Fields DEF Commands
<1>3. \A x : x \notin Acked(<<Poll>>) /\ x \notin Acked(<<>>)
  BY <1>1, AckedBy, Acknowledges
<1> QED BY <1>1, <1>2, <1>3

(* The command is given. *)
LEMMA CommandGiven ==
  ASSUME NEW acc, NEW fits, Stepping(acc, fits), NEW c \in Transfers \cup Limited,
         Settled, Clean, resp = <<>>, resp' = resp,
         acc = Sd!Access("CMD", TRUE, CommandOf(c))
  PROVE  During(c, 1, <<Poll>>, {}, 0)'
<1>1. Sd!Writes(acc, "CMD") /\ ~Sd!Writes(acc, "CTRL") /\ acc.data = CommandOf(c) /\ Types
  BY DEF Sd!Writes, Sd!Access, Stepping, ControllerInv
<1>2. command' = CommandOf(c)
  BY <1>1, CommandMoves DEF Stepping
<1>3. /\ command'.commit /\ command'.idx \in CommandsOf(c) /\ command'.idx \notin {"none", "STOP"}
      /\ c # "reset"
  BY <1>2, CommandsFormed DEF Transfers, Limited
<1>4. cmd'.state = "IDLE" /\ Active' /\ ~cmd'.start_dat
  <2>1. cmd'.state = "IDLE"
    BY CmdRests DEF Stepping, Settled, Rests
  <2>2. CmdShape'
    BY CmdShapeStep DEF Stepping
  <2> QED BY <1>3, <2>1, <2>2 DEF Active, CmdShape
<1>5. "RST" \notin ctrl'
  BY <1>1, FlagMoves DEF Clean
<1>6. Which(c, 0)'
  BY <1>3, <1>5 DEF Which, First
<1>7. Legal(c, <<Poll>>, 0)'
  BY Waiting DEF Legal
<1>8. /\ ReadBlockInv(c, <<Poll>>, {})' /\ StopDone(c, 1, <<Poll>>, {})'
      /\ ReadBlocksInv(c, 1, <<Poll>>, {})' /\ WriteBlocksInv(c, 1, <<Poll>>, {})'
      /\ SelectLoops(c, 1, <<Poll>>, {})' /\ CidLoop(c, <<Poll>>, {})'
  BY <1>3 DEF ReadBlockInv, StopDone, ReadBlocksInv, WriteBlocksInv, SelectLoops, CidLoop, First
<1>9. BusyAwaited(c)' /\ ResetInv(c, <<Poll>>, {})'
  BY <1>3, <1>4 DEF BusyAwaited, ResetInv
<1>10. RespInv(c)'
  <2>1. ReadSoFar' = 0
    BY <1>3, <1>4 DEF ReadSoFar, First
  <2>2. Len(resp') = 0 /\ 1 .. Len(resp') = {}
    OBVIOUS
  <2> QED BY <1>4, <2>1, <2>2 DEF RespInv, Cut
<1> QED BY <1>6, <1>7, <1>8, <1>9, <1>10 DEF During

(* Loop l of function c ends with the flags f. *)
Ends(c, l, f) ==
  CASE c \in {"read_block", "write_blocks_stop"} -> "DAT_DONE" \in f
    [] c = "read_blocks_stop" -> (IF l = 1 THEN "DAT_DONE" ELSE "CMD_DONE") \in f
    [] c \in Limited -> IF l = 1 THEN "CMD_DONE" \in f ELSE f \cap BusyFlags = {}
    [] c = "reset" -> f \cap BusyFlags = {}
LoopsOf(c) == IF c \in {"read_block", "all_send_cid", "reset"} THEN 1 ELSE 2

(* The end of a loop, function by function. *)
LEMMA EndsAre ==
  ASSUME NEW c, NEW l \in 1 .. 2, NEW f
  PROVE  /\ c = "read_block" => (Ends(c, l, f) <=> "DAT_DONE" \in f) /\ LoopsOf(c) = 1
         /\ c = "write_blocks_stop" => (Ends(c, l, f) <=> "DAT_DONE" \in f) /\ LoopsOf(c) = 2
         /\ c = "read_blocks_stop" =>
              (Ends(c, l, f) <=> IF l = 1 THEN "DAT_DONE" \in f ELSE "CMD_DONE" \in f)
                /\ LoopsOf(c) = 2
         /\ c = "select" =>
              (Ends(c, l, f) <=> IF l = 1 THEN "CMD_DONE" \in f ELSE f \cap BusyFlags = {})
                /\ LoopsOf(c) = 2
         /\ c = "all_send_cid" /\ l = 1 => (Ends(c, l, f) <=> "CMD_DONE" \in f)
         /\ c = "all_send_cid" => LoopsOf(c) = 1
         /\ c = "reset" => (Ends(c, l, f) <=> f \cap BusyFlags = {}) /\ LoopsOf(c) = 1
<1>1. CASE c = "read_block"
  BY <1>1 DEF Ends, LoopsOf, Limited
<1>2. CASE c = "write_blocks_stop"
  BY <1>2 DEF Ends, LoopsOf, Limited
<1>3. CASE c = "read_blocks_stop"
  BY <1>3 DEF Ends, LoopsOf, Limited
<1>4. CASE c = "select"
  BY <1>4 DEF Ends, LoopsOf, Limited
<1>5. CASE c = "all_send_cid"
  BY <1>5 DEF Ends, LoopsOf, Limited
<1>6. CASE c = "reset"
  BY <1>6 DEF Ends, LoopsOf, Limited
<1> QED BY <1>1, <1>2, <1>3, <1>4, <1>5, <1>6

(* A round has ended, but the loop has not. *)
LEMMA NextRound ==
  ASSUME NEW c \in Transfers \cup Limited \cup {"reset"}, NEW l \in 1 .. 2, NEW f, NEW b,
         During(c, l, <<>>, f, b)'
  PROVE  During(c, l, <<Poll>>, {}, b)'
<1>0. /\ Which(c, b)' /\ ReadBlockInv(c, <<>>, f)' /\ StopDone(c, l, <<>>, f)'
      /\ ReadBlocksInv(c, l, <<>>, f)' /\ WriteBlocksInv(c, l, <<>>, f)'
      /\ SelectLoops(c, l, <<>>, f)' /\ BusyAwaited(c)'
      /\ ResetInv(c, <<>>, f)' /\ RespInv(c)'
  BY DEF During
<1>1. Legal(c, <<Poll>>, b)'
  BY Waiting DEF Legal
<1>2. ReadBlockInv(c, <<Poll>>, {})' /\ CidLoop(c, <<Poll>>, {})'
  BY DEF ReadBlockInv, CidLoop
<1>3. StopDone(c, l, <<Poll>>, {})'
  BY <1>0 DEF StopDone
<1>4. ReadBlocksInv(c, l, <<Poll>>, {})'
  BY <1>0 DEF ReadBlocksInv
<1>5. WriteBlocksInv(c, l, <<Poll>>, {})'
  BY <1>0 DEF WriteBlocksInv
<1>6. SelectLoops(c, l, <<Poll>>, {})'
  BY <1>0, Waiting DEF SelectLoops
<1>7. ResetInv(c, <<Poll>>, {})'
  BY <1>0, Waiting DEF ResetInv
<1> QED BY <1>0, <1>1, <1>2, <1>3, <1>4, <1>5, <1>6, <1>7 DEF During

(* The first loop has ended. *)
LEMMA NextLoop ==
  ASSUME NEW c \in Transfers \cup Limited \cup {"reset"}, NEW f, NEW b,
         During(c, 1, <<>>, f, b)', Ends(c, 1, f), LoopsOf(c) = 2
  PROVE  During(c, 2, <<Poll>>, {}, b)'
<1>0. /\ Which(c, b)' /\ ReadBlockInv(c, <<>>, f)' /\ StopDone(c, 1, <<>>, f)'
      /\ ReadBlocksInv(c, 1, <<>>, f)' /\ WriteBlocksInv(c, 1, <<>>, f)'
      /\ SelectLoops(c, 1, <<>>, f)' /\ BusyAwaited(c)'
      /\ ResetInv(c, <<>>, f)' /\ RespInv(c)'
  BY DEF During
<1>a. /\ c = "read_blocks_stop" \/ c = "write_blocks_stop" => "DAT_DONE" \in f
      /\ c = "select" => "CMD_DONE" \in f
      /\ c \in {"read_blocks_stop", "write_blocks_stop", "select"}
  BY EndsAre DEF Limited, Transfers
<1>1. Legal(c, <<Poll>>, b)'
  BY Waiting DEF Legal
<1>2. ReadBlockInv(c, <<Poll>>, {})' /\ CidLoop(c, <<Poll>>, {})'
  BY DEF ReadBlockInv, CidLoop
<1>3. StopDone(c, 2, <<Poll>>, {})'
  BY <1>0, <1>a, Waiting DEF StopDone
<1>4. ReadBlocksInv(c, 2, <<Poll>>, {})'
  BY <1>0, <1>a, Waiting DEF ReadBlocksInv
<1>5. WriteBlocksInv(c, 2, <<Poll>>, {})'
  BY <1>0, <1>a, Waiting DEF WriteBlocksInv
<1>6. SelectLoops(c, 2, <<Poll>>, {})'
  BY <1>0, <1>a, Waiting DEF SelectLoops
<1>7. ResetInv(c, <<Poll>>, {})'
  BY <1>a DEF ResetInv
<1> QED BY <1>0, <1>1, <1>2, <1>3, <1>4, <1>5, <1>6, <1>7 DEF During

(* The last loop has ended. *)
LEMMA LastLoop ==
  ASSUME NEW c \in Transfers \cup Limited \cup {"reset"}, NEW l \in 1 .. 2, NEW f, NEW b,
         During(c, l, <<>>, f, b)', ControllerInv', Ends(c, l, f), l = LoopsOf(c)
  PROVE  Settled' /\ Clean'
<1>0. /\ ReadBlockInv(c, <<>>, f)'
      /\ ReadBlocksInv(c, l, <<>>, f)' /\ WriteBlocksInv(c, l, <<>>, f)'
      /\ SelectLoops(c, l, <<>>, f)' /\ CidLoop(c, <<>>, f)' /\ ResetInv(c, <<>>, f)'
  BY DEF During
<1>1. Quits(<<>>)'
  <2>1. CASE c = "read_block"
    BY <1>0, <2>1, EndsAre DEF ReadBlockInv
  <2>2. CASE c = "read_blocks_stop"
    BY <1>0, <2>2, EndsAre DEF ReadBlocksInv
  <2>3. CASE c = "write_blocks_stop"
    BY <1>0, <2>3, EndsAre DEF WriteBlocksInv
  <2>4. CASE c = "select"
    BY <1>0, <2>4, Waiting, EndsAre DEF SelectLoops
  <2>5. CASE c = "all_send_cid"
    BY <1>0, <2>5, EndsAre DEF CidLoop
  <2>6. CASE c = "reset"
    BY <1>0, <2>6, Waiting, EndsAre DEF ResetInv
  <2> QED BY <2>1, <2>2, <2>3, <2>4, <2>5, <2>6 DEF Transfers, Limited
<1>2. /\ Rests' /\ dat'.state = "IDLE" /\ ctrl' \ {"CRCERR"} \subseteq {}
      /\ ~Sd!Rose("idle_cmd")' /\ ~Sd!Rose("idle_dat")'
  BY <1>1, Waiting DEF Quits
<1>3. "idle_cmd" \in status_last' /\ "idle_dat" \in status_last'
  BY <1>2 DEF Sd!Rose, Sd!Status, Sd!status_idle_cmd, Sd!status_idle_dat, Rests
<1>4. status_last' = {"idle_cmd", "idle_dat"}
  <2>1. /\ status_last' \subseteq {"idle_cmd", "resp_cmd", "idle_dat", "data_dat"}
        /\ ~({"idle_cmd", "resp_cmd"} \subseteq status_last')
        /\ ~({"idle_dat", "data_dat"} \subseteq status_last')
    BY DEF ControllerInv, Types, FlagsInv
  <2> QED BY <1>3, <2>1
<1> QED BY <1>2, <1>4 DEF Settled, Clean

(* Two accesses and a third one. *)
LEMMA ThreeOps ==
  \A x, y, z :
    /\ <<x, y>> \o <<z>> = <<x, y, z>> /\ Ops(<<x, y, z>>) = {x, y, z}
    /\ Head(<<x, y, z>>) = x /\ Tail(<<x, y, z>>) = <<y, z>>
    /\ Head(<<y, z>>) = y /\ Tail(<<y, z>>) = <<z>>
<1> TAKE x, y, z
<1> DEFINE S == {x, y, z}
           p == <<x, y>>
           q == <<z>>
           u == p \o q
           v == <<x, y, z>>
<1>1. /\ p \in Seq(S) /\ q \in Seq(S) /\ v \in Seq(S)
      /\ Len(p) = 2 /\ Len(q) = 1 /\ Len(v) = 3
      /\ p[1] = x /\ p[2] = y /\ q[1] = z /\ v[1] = x /\ v[2] = y /\ v[3] = z
  OBVIOUS
<1>2. Ops(v) = {x, y, z}
  BY DEF Ops
<1>3. Head(v) = x /\ Tail(v) = <<y, z>> /\ Head(<<y, z>>) = y /\ Tail(<<y, z>>) = <<z>>
  OBVIOUS
<1>4. u = v
  <2> HIDE DEF p, q, v, S
  <2>1. /\ u \in Seq(S) /\ Len(u) = Len(p) + Len(q)
        /\ \A i \in 1 .. Len(p) + Len(q) : u[i] = IF i <= Len(p) THEN p[i] ELSE q[i - Len(p)]
    BY <1>1, ConcatProperties
  <2> HIDE DEF u
  <2>2. Len(u) = 3 /\ u[1] = x /\ u[2] = y /\ u[3] = z
    BY <1>1, <2>1
  <2>3. \A i \in 1 .. Len(u) : u[i] = v[i]
    BY <1>1, <2>2
  <2> QED BY <1>1, <2>1, <2>2, <2>3, SeqEqual
<1> QED BY <1>2, <1>3, <1>4

(* The accesses that begin a reset. *)
LEMMA ResettingOps ==
  /\ TurnOn({"RST"}) \o <<Poll>> = <<Read("CTRL"), Set({"RST"}), Poll>>
  /\ Ops(TurnOn({"RST"}) \o <<Poll>>) = {Read("CTRL"), Set({"RST"}), Poll}
<1> DEFINE x == Read("CTRL")
           y == Set({"RST"})
           z == Poll
           w == TurnOn({"RST"})
<1>1. w = <<x, y>>
  BY DEF TurnOn
<1> HIDE DEF x, y, z, w
<1>2. <<x, y>> \o <<z>> = <<x, y, z>> /\ Ops(<<x, y, z>>) = {x, y, z}
  BY ONLY ThreeOps, Zenon
<1>3. w \o <<z>> = <<x, y, z>> /\ Ops(w \o <<z>>) = {x, y, z}
  BY ONLY <1>1, <1>2, Zenon
<1> QED BY <1>3, Zenon DEF x, y, z, w

(* The time limit runs out: the controller waits for a response that does  *)
(* not come, and nothing has been read.                                    *)
LEMMA GivesUp ==
  ASSUME ControllerInv, NEW c \in Limited, NEW b, During(c, 1, <<Poll>>, {}, b),
         cmd.state = "WAIT_RESP", answer = Card!Silent, resp \in Seq(Nat)
  PROVE  During("reset", 1, TurnOn({"RST"}) \o <<Poll>>, {}, b)
<1> DEFINE s == TurnOn({"RST"}) \o <<Poll>>
<1>1. Ops(s) = {Read("CTRL"), Set({"RST"}), Poll}
  BY ResettingOps
<1> HIDE DEF s
<1>3. /\ ~Commands(Read("CTRL")) /\ ~Commands(Set({"RST"})) /\ ~Commands(Poll)
      /\ Write("DATA", Sd!NoCommand) \notin Ops(s)
  BY <1>1, Fields, Apart DEF Commands
<1>4. Active /\ First /\ command.idx \in {"SELECT", "ALL_SEND_CID"} /\ Formed(command)
      /\ command.dmode # "R"
  BY DEF During, Which, CommandsOf, Limited, Active, First, ControllerInv, Types, Formed, PhasesOf
<1>5. /\ dat.state = "IDLE" /\ "idle_dat" \in status_last /\ ctrl \cap DataFlags = {}
      /\ ~command.commit /\ ~cmd.start_dat
  BY <1>4 DEF ControllerInv, FirstInv, CmdShape
<1>6. ResetReady
  BY <1>4, <1>5 DEF ResetReady
<1>7. ctrl \subseteq {"CRCERR", "RST", "CMD_DONE"}
  BY <1>5, FlagsUp DEF DataFlags, ControllerInv, FlagsInv, Bits, Sd!CtrlBits, Sd!Settings
<1>8. resp = <<>>
  <2>1. Len(resp) = ReadSoFar
    BY <1>4 DEF During, RespInv
  <2>2. ReadSoFar = 0
    BY <1>4 DEF ReadSoFar
  <2> QED BY <2>1, <2>2, EmptySeq
<1>9. RespInv("reset")
  BY <1>6, <1>8, NothingRead
<1>10. Which("reset", b)
  BY <1>4 DEF Which, CommandsOf, First
<1>11. Legal("reset", s, b)
  BY <1>1, <1>3 DEF Legal
<1>12. ResetInv("reset", s, {})
  BY <1>1, <1>5, <1>6, <1>7, <1>8 DEF ResetInv
<1>13. During("reset", 1, s, {}, b)
  BY <1>9, <1>10, <1>11, <1>12
     DEF During, ReadBlockInv, StopDone, ReadBlocksInv, WriteBlocksInv, SelectLoops, BusyAwaited,
         CidLoop
<1> QED BY <1>13 DEF s

-----------------------------------------------------------------------------
(* The accesses of the driver. *)

(* What is true of a function is said of the variables of the driver.      *)
LEMMA Said ==
  ASSUME NEW c, NEW l, NEW s, NEW f, NEW b, During(c, l, s, f, b)',
         call' = c, loop' = l, todo' = s, irq' = f, blocks' = b
  PROVE  During(call, loop, todo, irq, blocks)'
<1>0. /\ Which(c, b)' /\ Legal(c, s, b)'
      /\ ReadBlockInv(c, s, f)' /\ StopDone(c, l, s, f)'
      /\ ReadBlocksInv(c, l, s, f)' /\ WriteBlocksInv(c, l, s, f)'
      /\ SelectLoops(c, l, s, f)' /\ BusyAwaited(c)' /\ CidLoop(c, s, f)'
      /\ ResetInv(c, s, f)' /\ RespInv(c)'
  BY DEF During
<1>1. Which(call, blocks)'
  BY <1>0 DEF Which
<1>2. Legal(call, todo, blocks)'
  BY <1>0 DEF Legal
<1>3. ReadBlockInv(call, todo, irq)' /\ CidLoop(call, todo, irq)'
  BY <1>0 DEF ReadBlockInv, CidLoop, Quits
<1>4. StopDone(call, loop, todo, irq)'
  BY <1>0 DEF StopDone
<1>5. ReadBlocksInv(call, loop, todo, irq)'
  BY <1>0 DEF ReadBlocksInv, Quits
<1>6. WriteBlocksInv(call, loop, todo, irq)'
  BY <1>0 DEF WriteBlocksInv, Quits
<1>7. SelectLoops(call, loop, todo, irq)' /\ BusyAwaited(call)'
  BY <1>0 DEF SelectLoops, BusyAwaited, Quits
<1>8. ResetInv(call, todo, irq)' /\ RespInv(call)'
  BY <1>0 DEF ResetInv, RespInv, Quits, Cut
<1> QED BY <1>1, <1>2, <1>3, <1>4, <1>5, <1>6, <1>7, <1>8 DEF During

(* The access of each operation. *)
LEMMA AccessOf ==
  /\ BusAccess(Poll) = Sd!Access("CTRL", FALSE, 0)
  /\ \A a : BusAccess(Read(a)) = Sd!Access(IF a = "IRQ" THEN "CTRL" ELSE a, FALSE, 0)
  /\ \A b : BusAccess(Set(b)) = Sd!Access("CTRL", TRUE, old \cup b)
  /\ \A b : BusAccess(Clear(b)) = Sd!Access("CTRL", TRUE, old \ b)
  /\ \A k : BusAccess(Write("DATA", k)) = Sd!Access("DATA", TRUE, (sent % Words) * WordBits + 1)
  /\ \A k : BusAccess(Write("CMD", k)) = Sd!Access("CMD", TRUE, k)
  /\ \A k : BusAccess(Write("CMDARG", k)) = Sd!Access("CMDARG", TRUE, k)
<1>1. BusAccess(Poll) = Sd!Access("CTRL", FALSE, 0)
  BY Fields DEF BusAccess
<1>2. ASSUME NEW a
      PROVE  BusAccess(Read(a)) = Sd!Access(IF a = "IRQ" THEN "CTRL" ELSE a, FALSE, 0)
  <2>1. CASE a = "IRQ"
    BY <1>1, <2>1 DEF Poll
  <2>2. CASE a # "IRQ"
    <3>1. Read(a) # Poll
      BY <2>2, Fields
    <3> QED BY <2>2, <3>1, Fields DEF BusAccess
  <2> QED BY <2>1, <2>2
<1>3. ASSUME NEW b
      PROVE  /\ BusAccess(Set(b)) = Sd!Access("CTRL", TRUE, old \cup b)
             /\ BusAccess(Clear(b)) = Sd!Access("CTRL", TRUE, old \ b)
  <2>1. Set(b) # Poll /\ Clear(b) # Poll
    BY Fields
  <2> QED BY <2>1, Fields DEF BusAccess
<1>4. ASSUME NEW k
      PROVE  /\ BusAccess(Write("DATA", k)) = Sd!Access("DATA", TRUE, (sent % Words) * WordBits + 1)
             /\ BusAccess(Write("CMD", k)) = Sd!Access("CMD", TRUE, k)
             /\ BusAccess(Write("CMDARG", k)) = Sd!Access("CMDARG", TRUE, k)
  <2>1. ASSUME NEW a
        PROVE  Write(a, k) # Poll /\ Write(a, k).op = "write" /\ Write(a, k).adr = a
          /\ Write(a, k).cmd = k
    BY Fields
  <2>2. BusAccess(Write("DATA", k)) = Sd!Access("DATA", TRUE, (sent % Words) * WordBits + 1)
    BY <2>1 DEF BusAccess
  <2>3. BusAccess(Write("CMD", k)) = Sd!Access("CMD", TRUE, k)
    <3> DEFINE o == Write("CMD", k)
    <3>1. o # Poll /\ o.op = "write" /\ o.adr = "CMD" /\ o.cmd = k
      BY <2>1
    <3> HIDE DEF o
    <3>2. BusAccess(o) = Sd!Access(o.adr, TRUE, o.cmd)
      BY <3>1 DEF BusAccess
    <3> QED BY <3>1, <3>2 DEF o
  <2>4. BusAccess(Write("CMDARG", k)) = Sd!Access("CMDARG", TRUE, k)
    <3> DEFINE o == Write("CMDARG", k)
    <3>1. o # Poll /\ o.op = "write" /\ o.adr = "CMDARG" /\ o.cmd = k
      BY <2>1
    <3> HIDE DEF o
    <3>2. BusAccess(o) = Sd!Access(o.adr, TRUE, o.cmd)
      BY <3>1 DEF BusAccess
    <3> QED BY <3>1, <3>2 DEF o
  <2> QED BY <2>2, <2>3, <2>4
<1> QED BY <1>1, <1>2, <1>3, <1>4

(* The first bit of the word that is written. *)
LEMMA WordWritten ==
  ASSUME sent \in Nat
  PROVE  (sent % Words) * WordBits + 1 \in 1 .. Sd!BlockBits
<1> DEFINE q == sent % Words
<1>1. Words \in Nat \ {0} /\ WordBits \in Nat \ {0} /\ Sd!BlockBits = Words * WordBits
  BY Constants DEF Sd!BlockBits
<1>2. q \in 0 .. Words - 1
  <2>1. \A x \in Nat, y \in Nat \ {0} : x % y \in 0 .. y - 1
    OBVIOUS
  <2> QED BY <1>1, <2>1, Zenon
<1> HIDE DEF q
<1>3. \A x, y \in Nat : x * y \in Nat
  OBVIOUS
<1>4. Words - 1 - q \in Nat /\ Words = q + 1 + (Words - 1 - q)
  BY <1>1, <1>2
<1>5. \A x, y, z \in Nat : (x + 1 + y) * z = x * z + z + y * z
  OBVIOUS
<1> DEFINE r == Words - 1 - q
<1>6. Words * WordBits = q * WordBits + WordBits + r * WordBits
  <2>1. r \in Nat /\ Words = q + 1 + r /\ q \in Nat /\ WordBits \in Nat
    BY <1>1, <1>2, <1>4
  <2> HIDE DEF r
  <2> QED BY <1>5, <2>1
<1>7. q * WordBits \in Nat /\ r * WordBits \in Nat
  BY <1>1, <1>2, <1>3, <1>4
<1> HIDE DEF r
<1> QED BY <1>1, <1>6, <1>7 DEF q

(* One access and a second one. *)
LEMMA TwoOps ==
  \A x, y : /\ <<x>> \o <<y>> = <<x, y>> /\ Ops(<<x, y>>) = {x, y}
            /\ Head(<<x, y>>) = x /\ Tail(<<x, y>>) = <<y>>
            /\ Head(<<y>>) = y /\ Tail(<<y>>) = <<>>
<1> TAKE x, y
<1> DEFINE S == {x, y}
           p == <<x>>
           q == <<y>>
           u == p \o q
           v == <<x, y>>
<1>1. /\ p \in Seq(S) /\ q \in Seq(S) /\ v \in Seq(S)
      /\ Len(p) = 1 /\ Len(q) = 1 /\ Len(v) = 2
      /\ p[1] = x /\ q[1] = y /\ v[1] = x /\ v[2] = y
  OBVIOUS
<1>2. Ops(v) = {x, y}
  BY DEF Ops
<1>3. Head(v) = x /\ Tail(v) = <<y>> /\ Head(<<y>>) = y /\ Tail(<<y>>) = <<>>
  OBVIOUS
<1>4. u = v
  <2> HIDE DEF p, q, v, S
  <2>1. /\ u \in Seq(S) /\ Len(u) = Len(p) + Len(q)
        /\ \A i \in 1 .. Len(p) + Len(q) : u[i] = IF i <= Len(p) THEN p[i] ELSE q[i - Len(p)]
    BY <1>1, ConcatProperties
  <2> HIDE DEF u
  <2>2. Len(u) = 2 /\ u[1] = x /\ u[2] = y
    BY <1>1, <2>1
  <2>3. \A i \in 1 .. Len(u) : u[i] = v[i]
    BY <1>1, <2>2
  <2> QED BY <1>1, <2>1, <2>2, <2>3, SeqEqual
<1> QED BY <1>2, <1>3, <1>4

(* A pair of accesses and the first look at the flags. *)
LEMMA PairPlans ==
  ASSUME NEW x \in Operations, NEW y \in Operations, x # y, x.adr # "CMD",
         x # Poll, y # Poll
  PROVE  /\ <<x, y>> \o <<Poll>> = <<x, y, Poll>>
         /\ Tail(<<x, y>>) \o <<Poll>> = <<y, Poll>>
         /\ Plan(<<x, y, Poll>>) /\ Plan(<<y, Poll>>)
         /\ Head(<<x, y, Poll>>) = x /\ Tail(<<x, y, Poll>>) = <<y, Poll>>
         /\ Head(<<y, Poll>>) = y /\ Tail(<<y, Poll>>) = <<Poll>>
         /\ Ops(<<x, y, Poll>>) = {x, y, Poll} /\ Ops(<<y, Poll>>) = {y, Poll}
<1> DEFINE z == Poll
           s == <<x, y>>
           t == <<z>>
<1>1. z \in Operations /\ ~Commands(z) /\ z # x /\ z # y
  BY Kinds, Waiting
<1> HIDE DEF z
<1>2. Plan(s) /\ Ops(s) = {x, y} /\ Plan(t) /\ Ops(t) = {z} /\ Plan(<<y, z>>)
        /\ Ops(<<y, z>>) = {y, z}
  BY <1>1, ShortPlans, ShortOps
<1>3. /\ s \o t = <<x, y, z>> /\ Ops(<<x, y, z>>) = {x, y, z} /\ Tail(s) = <<y>>
           /\ <<y>> \o t = <<y, z>>
      /\ Head(<<x, y, z>>) = x /\ Tail(<<x, y, z>>) = <<y, z>>
      /\ Head(<<y, z>>) = y /\ Tail(<<y, z>>) = <<z>>
  <2>1. /\ s \o t = <<x, y, z>> /\ Ops(<<x, y, z>>) = {x, y, z}
        /\ Head(<<x, y, z>>) = x /\ Tail(<<x, y, z>>) = <<y, z>>
    <3>1. s \o t = <<x, y, z>>
      BY ThreeOps, Zenon
    <3>2. Ops(<<x, y, z>>) = {x, y, z}
      BY ThreeOps, Zenon
    <3>3. Head(<<x, y, z>>) = x
      OBVIOUS
    <3>4. Tail(<<x, y, z>>) = <<y, z>>
      OBVIOUS
    <3> QED BY <3>1, <3>2, <3>3, <3>4
  <2>2. /\ Tail(s) = <<y>> /\ Head(<<y, z>>) = y /\ Tail(<<y, z>>) = <<z>>
    BY TwoOps, Zenon
  <2>3. <<y>> \o t = <<y, z>>
    BY TwoOps, Zenon
  <2> QED BY <2>1, <2>2, <2>3
<1> HIDE DEF s, t
<1>4. Plan(s \o t)
  BY <1>1, <1>2, JoinedPlans
<1> QED BY <1>2, <1>3, <1>4 DEF z, s, t

(* The accesses with which a function begins, and those of a reset. *)
LEMMA StartingPlans ==
  ASSUME NEW c \in Transfers \cup Limited
  PROVE  LET a == Write("CMDARG", Sd!NoCommand)
             w == Write("CMD", CommandOf(c))
         IN  /\ Begin(c) \o <<Poll>> = <<a, w, Poll>> /\ Tail(Begin(c)) \o <<Poll>> = <<w, Poll>>
             /\ Plan(<<a, w, Poll>>) /\ Plan(<<w, Poll>>)
             /\ Head(<<a, w, Poll>>) = a /\ Tail(<<a, w, Poll>>) = <<w, Poll>>
             /\ Head(<<w, Poll>>) = w /\ Tail(<<w, Poll>>) = <<Poll>>
             /\ Ops(<<a, w, Poll>>) = {a, w, Poll} /\ Ops(<<w, Poll>>) = {w, Poll}
             /\ a \in Operations /\ w \in Operations /\ a # w
             /\ a # Poll /\ w # Poll /\ a.adr = "CMDARG" /\ w.adr = "CMD"
<1> DEFINE a == Write("CMDARG", Sd!NoCommand)
           w == Write("CMD", CommandOf(c))
<1>1. /\ a \in Operations /\ w \in Operations /\ Begin(c) = <<a, w>>
  BY Kinds, CommandsFormed
<1>2. a # w /\ a.adr = "CMDARG" /\ a # Poll /\ w # Poll /\ w.adr = "CMD"
  BY Fields
<1> HIDE DEF a, w
<1>3. /\ <<a, w>> \o <<Poll>> = <<a, w, Poll>> /\ Tail(<<a, w>>) \o <<Poll>> = <<w, Poll>>
      /\ Plan(<<a, w, Poll>>) /\ Plan(<<w, Poll>>)
      /\ Head(<<a, w, Poll>>) = a /\ Tail(<<a, w, Poll>>) = <<w, Poll>>
      /\ Head(<<w, Poll>>) = w /\ Tail(<<w, Poll>>) = <<Poll>>
      /\ Ops(<<a, w, Poll>>) = {a, w, Poll} /\ Ops(<<w, Poll>>) = {w, Poll}
  BY <1>1, <1>2, PairPlans
<1> QED BY <1>1, <1>2, <1>3 DEF a, w

(* The same of the accesses that begin a reset. *)
LEMMA ResettingPlans ==
  LET a == Read("CTRL")
      w == Set({"RST"})
  IN  /\ TurnOn({"RST"}) \o <<Poll>> = <<a, w, Poll>>
      /\ Plan(<<a, w, Poll>>) /\ Plan(<<w, Poll>>)
      /\ Head(<<a, w, Poll>>) = a /\ Tail(<<a, w, Poll>>) = <<w, Poll>>
      /\ Head(<<w, Poll>>) = w /\ Tail(<<w, Poll>>) = <<Poll>>
      /\ Ops(<<a, w, Poll>>) = {a, w, Poll} /\ Ops(<<w, Poll>>) = {w, Poll}
      /\ a # w /\ a # Poll /\ w # Poll
<1> DEFINE a == Read("CTRL")
           w == Set({"RST"})
<1>1. /\ a \in Operations /\ w \in Operations /\ TurnOn({"RST"}) = <<a, w>>
  BY Kinds DEF TurnOn
<1>2. a # w /\ a.adr = "CTRL" /\ a # Poll /\ w # Poll
  BY Fields
<1> HIDE DEF a, w
<1>3. /\ <<a, w>> \o <<Poll>> = <<a, w, Poll>>
      /\ Plan(<<a, w, Poll>>) /\ Plan(<<w, Poll>>)
      /\ Head(<<a, w, Poll>>) = a /\ Tail(<<a, w, Poll>>) = <<w, Poll>>
      /\ Head(<<w, Poll>>) = w /\ Tail(<<w, Poll>>) = <<Poll>>
      /\ Ops(<<a, w, Poll>>) = {a, w, Poll} /\ Ops(<<w, Poll>>) = {w, Poll}
  BY <1>1, <1>2, PairPlans
<1> QED BY <1>1, <1>2, <1>3 DEF a, w

(* Where a call is that has accesses to make. *)
LEMMA Running ==
  ASSUME DriverInv, todo # <<>>
  PROVE  /\ call \in Transfers \cup Limited \cup {"reset"}
         /\ Plan(todo) /\ Head(todo) \in Operations /\ Ops(todo) = {Head(todo)} \cup Ops(Tail(todo))
         /\ \/ /\ Starting /\ Settled /\ Clean /\ call \in Transfers \cup Limited
               /\ loop = 1 /\ blocks = 0 /\ resp = <<>> /\ irq = {}
            \/ ~Starting /\ During(call, loop, todo, irq, blocks)
<1>1. DriverTypes /\ Plan(todo) /\ call # "none"
  BY DEF DriverInv, DriverTypes
<1>2. Calls \subseteq Transfers \cup Limited /\ "none" \notin Calls /\ "reset" \notin Calls
  BY NeoSDAssumption DEF Transfers, Limited
<1>3. call \in Transfers \cup Limited \cup {"reset"}
  BY <1>1, <1>2 DEF DriverTypes
<1>4. Starting => call \in Transfers \cup Limited
  BY <1>2 DEF Starting
<1>5. Starting => irq = {}
  <2>1. ASSUME Starting PROVE Poll \in Ops(todo)
    BY <1>4, <2>1, StartingPlans DEF Starting
  <2> QED BY <2>1 DEF Handling, DriverInv
<1>6. Head(todo) \in Operations /\ Ops(todo) = {Head(todo)} \cup Ops(Tail(todo))
  BY <1>1, RestOfPlan
<1> QED BY <1>1, <1>3, <1>4, <1>5, <1>6 DEF DriverInv

(* Every access is right for the state of the controller. *)
LEMMA PermittedOps ==
  ASSUME ControllerInv, DriverInv, todo # <<>>
  PROVE  Permitted(BusAccess(Head(todo)))
<1> DEFINE o == Head(todo)
           acc == BusAccess(o)
<1>0. /\ o \in Operations /\ o \in Ops(todo)
      /\ old \cap Sd!Settings \subseteq ctrl /\ sent \in Nat
      /\ "RST" \in ctrl => ResetReady
      /\ "RST" \in Sd!Settings
  <2>1. sent \in 0 .. Words * Blocks /\ Words * Blocks \in Nat
    <3>1. \A x, y \in Nat : x * y \in Nat
      OBVIOUS
    <3> QED BY <3>1, Constants DEF DriverInv, DriverTypes
  <2> QED BY <2>1, Running DEF DriverInv, ControllerInv, FlagsInv, Sd!Settings
<1> SUFFICES Permitted(acc)
  OBVIOUS
<1>a. acc = BusAccess(o)
  OBVIOUS
<1> HIDE DEF acc
<1>1. CASE o \in {Poll, Read("CTRL"), Read("RESP"), Read("DATA")}
  <2>1. BusAccess(Poll) = Sd!Access("CTRL", FALSE, 0)
        /\ \A a \in {"CTRL", "RESP", "DATA"} : BusAccess(Read(a)) = Sd!Access(a, FALSE, 0)
    BY AccessOf
  <2>2. PICK a \in {"CTRL", "RESP", "DATA"} : acc = Sd!Access(a, FALSE, 0)
    BY <1>1, <1>a, <2>1
  <2>3. acc.adr \in {"CTRL", "RESP", "DATA"} /\ acc.we = FALSE
    BY <2>2 DEF Sd!Access
  <2> QED BY <2>3 DEF Permitted, Sd!Writes
<1>2. CASE o = Set({"RST"})
  <2>1. acc = Sd!Access("CTRL", TRUE, old \cup {"RST"})
    BY <1>2, <1>a, AccessOf
  <2>2. ResetReady
    <3>1. ~Starting
      <4>1. ASSUME Starting PROVE FALSE
        <5>1. call \in Transfers \cup Limited
          BY <1>2, <4>1, Running
        <5>2. o.adr \in {"CMDARG", "CMD"}
          BY <4>1, <5>1, StartingPlans DEF Starting
        <5> QED BY <1>2, <5>2, Fields
      <4> QED BY <4>1
    <3>2. Legal(call, todo, blocks) /\ ResetInv(call, todo, irq)
      BY <3>1, Running DEF During
    <3> QED BY <1>0, <1>2, <3>2 DEF Legal, ResetInv
  <2>3. acc.adr = "CTRL" /\ acc.we = TRUE /\ acc.data = old \cup {"RST"}
    BY <2>1 DEF Sd!Access
  <2> QED BY <1>0, <2>2, <2>3 DEF Permitted, Sd!Writes
<1>3. ASSUME NEW b \in Clears, o = Clear(b) PROVE Permitted(acc)
  <2>1. acc = Sd!Access("CTRL", TRUE, old \ b)
    BY <1>3, <1>a, AccessOf
  <2>2. acc.adr = "CTRL" /\ acc.we = TRUE /\ acc.data = old \ b
    BY <2>1 DEF Sd!Access
  <2>3. /\ (old \ b) \cap Sd!Settings \subseteq ctrl \cup {"RST"}
        /\ "RST" \in old \ b => ResetReady
    BY <1>0
  <2> QED BY <2>2, <2>3 DEF Permitted, Sd!Writes
<1>4. CASE o = Write("DATA", Sd!NoCommand)
  <2>1. acc = Sd!Access("DATA", TRUE, (sent % Words) * WordBits + 1)
    BY <1>4, <1>a, AccessOf
  <2>2. (sent % Words) * WordBits + 1 \in 1 .. Sd!BlockBits
    BY <1>0, WordWritten
  <2>3. acc.adr = "DATA" /\ acc.we = TRUE /\ acc.data \in 1 .. Sd!BlockBits
    BY <2>1, <2>2 DEF Sd!Access
  <2> QED BY <2>3 DEF Permitted, Sd!Writes
<1>5. Commands(o) => ~Active
  <2>1. Settled => ~Active
    BY DEF Settled, Rests, Active
  <2>2. ~Starting /\ Commands(o) => ~Active
    BY <1>0, Running DEF During, Legal
  <2> QED BY <2>1, <2>2, Running
<1>6. CASE o = Write("CMDARG", Sd!NoCommand)
  <2>1. acc = Sd!Access("CMDARG", TRUE, Sd!NoCommand)
    BY <1>6, <1>a, AccessOf
  <2>2. ~Active
    BY <1>5, <1>6, Fields DEF Commands
  <2>3. acc.adr = "CMDARG" /\ acc.we = TRUE
    BY <2>1 DEF Sd!Access
  <2> QED BY <2>2, <2>3 DEF Permitted, Sd!Writes
<1>7. ASSUME NEW k, Formed(k), o = Write("CMD", k) PROVE Permitted(acc)
  <2>1. acc = Sd!Access("CMD", TRUE, k)
    BY <1>7, <1>a, AccessOf
  <2>2. ~Active /\ o.adr = "CMD"
    BY <1>5, <1>7, Fields DEF Commands
  <2>3. CASE Starting
    <3>1. Settled /\ Clean /\ call \in Transfers \cup Limited
      BY <1>7, <2>3, Running
    <3>2. o = Write("CMD", CommandOf(call))
      BY <2>2, <2>3, <3>1, StartingPlans DEF Starting
    <3>3. k = CommandOf(call)
      BY <1>7, <3>2, Apart
    <3>4. k.commit /\ k.idx \notin {"none", "STOP"}
      BY <3>1, <3>3, CommandsFormed
    <3>5. acc.adr = "CMD" /\ acc.we = TRUE /\ acc.data = k
      BY <2>1 DEF Sd!Access
    <3> QED BY <1>7, <2>2, <3>1, <3>4, <3>5 DEF Permitted, Sd!Writes
  <2>4. CASE ~Starting
    <3>1. Legal(call, todo, blocks) /\ Which(call, blocks)
      BY <2>4, Running DEF During
    <3>2. /\ call \in Transfers
          /\ call # "read_block" => command.idx \in Flow /\ dat.state # "IDLE"
          /\ o \in Ops(StopOf(call))
      BY <1>0, <2>2, <3>1 DEF Legal, Commands, Transfers
    <3>3. \/ k.idx = "none" /\ k.abrt /\ command.idx \in {"READ", "none"}
          \/ k.idx = "STOP" /\ k.commit /\ command.idx \in Flow /\ dat.state # "IDLE"
      <4>1. CASE call = "read_block"
        <5>1. k = AbortCommand
          BY <1>7, <3>2, <4>1, StopPlans, Apart DEF StopOf
        <5> QED BY <3>1, <4>1, <5>1, StopsFormed DEF Which, CommandsOf
      <4>2. CASE call # "read_block"
        <5> DEFINE m == IF call = "read_blocks_stop" THEN "NONE" ELSE "BUSY"
        <5>1. m \in {"NONE", "BUSY"} /\ StopOf(call) = Commit("STOP", "SHORT", m, TRUE)
          BY <3>2, <4>2 DEF StopOf, Transfers
        <5> HIDE DEF m
        <5>2. Write("CMD", k) \in {Write("CMDARG", Sd!NoCommand), Write("CMD", StopCommand(m))}
          BY <1>7, <3>2, <5>1, StopPlans
        <5>3. k = StopCommand(m)
          BY <5>2, Apart
        <5> QED BY <3>2, <4>2, <5>3, StopsFormed
      <4> QED BY <4>1, <4>2
    <3>5. acc.adr = "CMD" /\ acc.we = TRUE /\ acc.data = k
      BY <2>1 DEF Sd!Access
    <3> QED BY <1>7, <2>2, <3>3, <3>5 DEF Permitted, Sd!Writes
  <2> QED BY <2>3, <2>4
<1> QED BY <1>0, <1>1, <1>2, <1>3, <1>4, <1>6, <1>7, Kinds

-----------------------------------------------------------------------------
(* The steps of the driver. *)

(* A cycle is an edge of the controller and the card. *)
LEMMA CycleIsEdge ==
  ASSUME NEW acc, Cycle(acc)
  PROVE  \E fits \in BOOLEAN : Edge(acc, fits)
<1>1. PICK fits \in BOOLEAN : Sd!Clock(acc, Card!cmd_o, Card!dat_o, Card!low, fits)
  BY DEF Cycle
<1>2. \/ Sd!Rising /\ Card!Rise(cmd.oe, cmd_reg.idx, Sd!HostDat)
      \/ Sd!Falling /\ Card!Fall
      \/ ~Sd!Rising /\ ~Sd!Falling /\ UNCHANGED cardVars
  <2>1. CASE Sd!Rising
    BY <2>1 DEF Cycle, Sd!Rising, Sd!Falling
  <2>2. CASE Sd!Falling
    BY <2>2 DEF Cycle, Sd!Rising, Sd!Falling
  <2>3. CASE ~Sd!Rising /\ ~Sd!Falling
    BY <2>3 DEF Cycle
  <2> QED BY <2>1, <2>2, <2>3
<1> QED BY <1>1, <1>2 DEF Edge, cardVars

(* The flags that software acknowledges stay until it does. *)
LEMMA SettingsStay ==
  ASSUME NEW acc, NEW fits, Stepping(acc, fits), ~Sd!Writes(acc, "CTRL")
  PROVE  ctrl \cap Sd!Settings \subseteq ctrl'
<1>1. ctrl' = Sd!CtrlNext(acc)
  BY Tops DEF Stepping
<1>2. Sd!Settings \subseteq Sd!CtrlBits /\ "CMD_RESP" \notin Sd!Settings
        /\ "DAT_DATA" \notin Sd!Settings
  BY DEF Sd!Settings, Sd!CtrlBits
<1> QED BY <1>1, <1>2 DEF Sd!CtrlNext

(* Without an access everything that the driver has to do remains. *)
LEMMA Quiet ==
  ASSUME ControllerInv, NEW fits \in BOOLEAN, Edge(Sd!NoAccess, fits)
  PROVE  /\ Stepping(Sd!NoAccess, fits)
         /\ \A a : ~Sd!Writes(Sd!NoAccess, a)
         /\ ~Sd!Reads(Sd!NoAccess, "RESP")
         /\ \A c, s : resp' = resp /\ sent' = sent => Advances(Sd!NoAccess, c, s, s)
<1>1. Sd!NoAccess.adr = "none" /\ Sd!NoAccess.we = FALSE
  BY DEF Sd!NoAccess, Sd!Access
<1>2. (\A a : ~Sd!Writes(Sd!NoAccess, a)) /\ ~Sd!Reads(Sd!NoAccess, "RESP")
  BY <1>1 DEF Sd!Writes, Sd!Reads
<1>3. Permitted(Sd!NoAccess)
  BY <1>1, <1>2 DEF Permitted
<1>4. Stepping(Sd!NoAccess, fits)
  BY <1>3 DEF Stepping
<1>5. "RST" \in ctrl' => "RST" \in ctrl
  BY <1>2, <1>4, FlagMoves
<1>6. ASSUME NEW c, NEW s, resp' = resp, sent' = sent PROVE Advances(Sd!NoAccess, c, s, s)
  BY <1>2, <1>5, <1>6 DEF Advances
<1> QED BY <1>2, <1>4, <1>6

(* The driver waits. *)
LEMMA DriverWaits ==
  ASSUME ControllerInv, DriverInv, ~EarlyData, NEW fits \in BOOLEAN, Edge(Sd!NoAccess, fits),
         UNCHANGED driverVars
  PROVE  DriverInv'
<1>0. /\ Stepping(Sd!NoAccess, fits) /\ \A a : ~Sd!Writes(Sd!NoAccess, a)
      /\ call' = call /\ loop' = loop /\ todo' = todo /\ irq' = irq /\ old' = old
      /\ resp' = resp /\ buf' = buf /\ sent' = sent /\ blocks' = blocks
  BY Quiet DEF driverVars
<1>1. DriverTypes'
  BY <1>0 DEF DriverInv, DriverTypes, Plan, Ordered, Commands
<1>2. Settled /\ Clean => Settled' /\ Clean'
  BY <1>0, CleanStays
<1>3. Starting' <=> Starting
  BY <1>0 DEF Starting
<1>4. (Resetting' <=> Resetting) /\ (Handling' <=> Handling)
  BY <1>0 DEF Resetting, Handling, Ops
<1>5. ASSUME call # "none", ~Starting PROVE During(call, loop, todo, irq, blocks)'
  <2>1. /\ During(call, loop, todo, irq, blocks) /\ resp \in Seq(Nat) /\ loop \in 1 .. 2
        /\ call \in Transfers \cup Limited \cup {"reset"}
    BY <1>5, NeoSDAssumption DEF DriverInv, DriverTypes, Transfers, Limited
  <2>2. Advances(Sd!NoAccess, call, todo, todo)
    BY <1>0, Quiet
  <2>3. During(call, loop, todo, irq, blocks)'
    <3> SUFFICES ASSUME NEW cc, NEW ll \in 1 .. 2, NEW ss, NEW ff, NEW bb,
                        cc = call, ll = loop, ss = todo, ff = irq, bb = blocks
                 PROVE  During(call, loop, todo, irq, blocks)'
      BY <2>1
    <3>1. During(cc, ll, ss, ff, bb)'
      BY <1>0, <2>1, <2>2, DuringStays
    <3> QED BY <1>0, <3>1, Said
  <2> QED BY <2>3
<1>6. (old \cap Sd!Settings \subseteq ctrl)'
  BY <1>0, SettingsStay DEF DriverInv
<1> QED BY <1>0, <1>1, <1>2, <1>3, <1>4, <1>5, <1>6 DEF DriverInv

(* A driver that looks at the flags has begun and handles none. *)
LEMMA Looking ==
  ASSUME DriverInv, todo = <<Poll>>
  PROVE  /\ ~Starting /\ ~Handling /\ irq = {}
         /\ call # "none" => During(call, loop, todo, irq, blocks)
<1>1. ~Handling /\ irq = {}
  BY Waiting DEF DriverInv, Handling
<1>2. ASSUME Starting PROVE FALSE
  <2>1. call \in Transfers \cup Limited
    BY <1>2, NeoSDAssumption DEF Starting, Transfers, Limited
  <2> DEFINE a == Write("CMDARG", Sd!NoCommand)
             w == Write("CMD", CommandOf(call))
  <2>2. todo = <<a, w, Poll>> \/ todo = <<w, Poll>>
    BY <1>2, <2>1, StartingPlans DEF Starting
  <2>3. Len(<<Poll>>) = 1 /\ Len(<<a, w, Poll>>) = 3 /\ Len(<<w, Poll>>) = 2
    OBVIOUS
  <2> QED BY <2>2, <2>3
<1> QED BY <1>1, <1>2 DEF DriverInv

(* The time limit runs out. *)
LEMMA DriverGivesUp ==
  ASSUME ControllerInv, DriverInv, ~EarlyData, TimeOut
  PROVE  DriverInv'
<1> DEFINE s == TurnOn({"RST"}) \o <<Poll>>
<1>0. PICK fits \in BOOLEAN : Edge(Sd!NoAccess, fits)
  BY CycleIsEdge DEF TimeOut
<1>1. /\ call \in Limited /\ loop = 1 /\ todo = <<Poll>> /\ cmd.state = "WAIT_RESP"
           /\ answer = Card!Silent
      /\ call' = "reset" /\ todo' = s /\ loop' = loop /\ irq' = irq /\ old' = old
      /\ resp' = resp /\ buf' = buf /\ sent' = sent /\ blocks' = blocks
  BY DEF TimeOut
<1>2. During(call, loop, todo, irq, blocks) /\ irq = {} /\ resp \in Seq(Nat) /\ call # "none"
  BY <1>1, Looking DEF DriverInv, DriverTypes, Limited
<1>3. During("reset", 1, s, {}, blocks)
  BY <1>1, <1>2, GivesUp
<1>4. Plan(s) /\ s # <<>> /\ ~(Poll \notin Ops(s))
  <2>1. Plan(s) /\ Ops(s) = {Read("CTRL"), Set({"RST"}), Poll}
    BY ResettingPlans
  <2> QED BY <2>1, ShortOps
<1> HIDE DEF s
<1>5. During(call, loop, todo, irq, blocks)'
  <2>1. Advances(Sd!NoAccess, "reset", s, s) /\ Stepping(Sd!NoAccess, fits)
    BY <1>0, <1>1, Quiet
  <2> SUFFICES ASSUME NEW bb, bb = blocks
               PROVE  During(call, loop, todo, irq, blocks)'
    OBVIOUS
  <2>2. During("reset", 1, s, {}, bb)'
    <3>1. During("reset", 1, s, {}, bb) /\ 1 \in 1 .. 2
            /\ "reset" \in Transfers \cup Limited \cup {"reset"}
      BY <1>3
    <3> QED BY <1>2, <2>1, <3>1, DuringStays
  <2> QED BY <1>1, <1>2, <2>2, Said
<1>6. DriverTypes'
  BY <1>1, <1>4 DEF DriverInv, DriverTypes, Plan, Ordered, Commands
<1>7. (old \cap Sd!Settings \subseteq ctrl)'
  BY <1>0, <1>1, Quiet, SettingsStay DEF DriverInv
<1>8. ~Starting' /\ Resetting' /\ ~Handling'
  <2>1. "reset" \notin Calls
    BY NeoSDAssumption
  <2>2. ~Starting'
    BY <1>1, <2>1 DEF Starting
  <2>3. Resetting'
    BY <1>1 DEF Resetting, s
  <2>4. ~Handling'
    BY <1>1, <1>4 DEF Handling, Ops
  <2> QED BY <2>2, <2>3, <2>4
<1> QED BY <1>1, <1>2, <1>5, <1>6, <1>7, <1>8 DEF DriverInv

(* A function is called. *)
LEMMA DriverCalls ==
  ASSUME ControllerInv, DriverInv, NEW c \in Calls, Call(c)
  PROVE  DriverInv'
<1> DEFINE s == Begin(c) \o <<Poll>>
<1>0. PICK fits \in BOOLEAN : Edge(Sd!NoAccess, fits)
  BY CycleIsEdge DEF Call
<1>1. /\ call = "none" /\ call' = c /\ loop' = 1 /\ todo' = s
      /\ irq' = {} /\ old' = {} /\ resp' = <<>> /\ buf' = <<>> /\ sent' = 0 /\ blocks' = 0
  BY DEF Call
<1>2. c \in Transfers \cup Limited /\ c # "none" /\ c # "reset"
  BY NeoSDAssumption DEF Transfers, Limited
<1>3. Plan(s) /\ s # <<>> /\ ~(Poll \notin Ops(s))
  <2> DEFINE a == Write("CMDARG", Sd!NoCommand)
             w == Write("CMD", CommandOf(c))
  <2>1. Plan(s) /\ Ops(s) = {a, w, Poll}
    BY <1>2, StartingPlans
  <2> QED BY <2>1, ShortOps
<1>4. Starting'
  BY <1>1 DEF Starting
<1> HIDE DEF s
<1>5. Settled' /\ Clean'
  BY <1>0, <1>1, Quiet, CleanStays DEF DriverInv
<1>6. DriverTypes'
  <2>1. Words * Blocks \in Nat
    BY Constants
  <2>2. 0 \in 0 .. Words * Blocks /\ <<>> \in Seq(Nat) /\ {} \subseteq Bits \cup BusyFlags
    BY <2>1
  <2> QED BY <1>1, <1>2, <1>3, <2>2 DEF DriverTypes, Plan, Ordered, Commands
<1>7. ~Handling'
  BY <1>1, <1>3 DEF Handling, Ops
<1> QED BY <1>1, <1>2, <1>4, <1>5, <1>6, <1>7 DEF DriverInv

-----------------------------------------------------------------------------
(* The driver makes an access. *)

(* What an access does to the flags: it takes those away that it           *)
(* acknowledges, and only a reset raises RST.                              *)
LEMMA Effects ==
  ASSUME NEW o \in Operations, NEW fits, Stepping(BusAccess(o), fits),
         old \cap Sd!Settings \subseteq ctrl
  PROVE  /\ Sd!Writes(BusAccess(o), "CMD") => o.adr = "CMD"
         /\ Sd!Reads(BusAccess(o), "RESP") <=> o = Read("RESP")
         /\ Acks(o) \cap ctrl' = {}
         /\ "RST" \in ctrl' => "RST" \in ctrl \/ o = Set({"RST"})
         /\ Sd!Writes(BusAccess(o), "CTRL") => o.op \in {"set", "clear"}
<1> DEFINE acc == BusAccess(o)
<1>0. Stepping(acc, fits) /\ ctrl' = Sd!CtrlNext(acc)
  BY Tops DEF Stepping
<1>1. ASSUME NEW a \in {"IRQ", "CTRL", "RESP", "DATA"}, o = Read(a)
      PROVE  /\ ~Sd!Writes(acc, "CMD") /\ ~Sd!Writes(acc, "CTRL")
             /\ Sd!Reads(acc, "RESP") <=> a = "RESP"
             /\ acc.adr = IF a = "IRQ" THEN "CTRL" ELSE a
  <2>1. acc = Sd!Access(IF a = "IRQ" THEN "CTRL" ELSE a, FALSE, 0)
    BY <1>1, AccessOf
  <2>2. acc.adr = (IF a = "IRQ" THEN "CTRL" ELSE a) /\ acc.we = FALSE
    BY <2>1 DEF Sd!Access
  <2> QED BY <2>2 DEF Sd!Writes, Sd!Reads
<1>2. ASSUME NEW b, NEW d, acc = Sd!Access("CTRL", TRUE, d)
      PROVE  /\ ~Sd!Writes(acc, "CMD") /\ ~Sd!Reads(acc, "RESP") /\ Sd!Writes(acc, "CTRL")
             /\ \A x \in Sd!Settings : x \in ctrl' <=> x \in d
  <2>1. acc.adr = "CTRL" /\ acc.we = TRUE /\ acc.data = d
    BY <1>2 DEF Sd!Access
  <2>2. ~Sd!Writes(acc, "CMD") /\ ~Sd!Reads(acc, "RESP") /\ Sd!Writes(acc, "CTRL")
    BY <2>1 DEF Sd!Writes, Sd!Reads
  <2>3. Sd!Settings \subseteq Sd!CtrlBits
    BY DEF Sd!CtrlBits
  <2>4. \A x \in Sd!Settings : x # "CMD_RESP" /\ x # "DAT_DATA"
    BY DEF Sd!Settings
  <2> HIDE DEF acc
  <2>5. \A x \in Sd!Settings : x \in Sd!CtrlNext(acc) <=> x \in acc.data
    BY <2>2, <2>3, <2>4 DEF Sd!CtrlNext
  <2> QED BY <1>0, <2>1, <2>2, <2>5
<1>3. ASSUME NEW a \in {"DATA", "CMDARG", "CMD"}, NEW k, o = Write(a, k)
      PROVE  /\ ~Sd!Writes(acc, "CTRL") /\ ~Sd!Reads(acc, "RESP")
             /\ Sd!Writes(acc, "CMD") => a = "CMD"
  <2>1. \E d : acc = Sd!Access(a, TRUE, d)
    BY <1>3, AccessOf
  <2>2. acc.adr = a /\ acc.we = TRUE
    BY <2>1 DEF Sd!Access
  <2> QED BY <2>2 DEF Sd!Writes, Sd!Reads
<1>4. ~Sd!Writes(acc, "CTRL") => ("RST" \in ctrl' => "RST" \in ctrl)
  BY <1>0, FlagMoves
<1> HIDE DEF acc
<1>5. CASE \E a \in {"IRQ", "CTRL", "RESP", "DATA"} : o = Read(a)
  <2>1. PICK a \in {"IRQ", "CTRL", "RESP", "DATA"} : o = Read(a)
    BY <1>5
  <2>2. /\ ~Sd!Writes(acc, "CMD") /\ ~Sd!Writes(acc, "CTRL")
        /\ Sd!Reads(acc, "RESP") <=> a = "RESP"
        /\ acc.adr = IF a = "IRQ" THEN "CTRL" ELSE a
    BY <1>1, <2>1
  <2>3. a = "RESP" <=> o = Read("RESP")
    BY <2>1, Apart
  <2>4. Acks(o) = IF a = "RESP" THEN {"CMD_RESP"} ELSE IF a = "DATA" THEN {"DAT_DATA"} ELSE {}
    BY <2>1, Acknowledges DEF Poll
  <2>5. a = "RESP" => "CMD_RESP" \notin ctrl'
    BY <1>0, <2>2 DEF Sd!CtrlNext, Sd!Settings
  <2>6. a = "DATA" => "DAT_DATA" \notin ctrl'
    BY <1>0, <2>2 DEF Sd!CtrlNext, Sd!Settings
  <2> QED BY <1>4, <2>2, <2>3, <2>4, <2>5, <2>6 DEF acc
<1>6. CASE o = Set({"RST"})
  <2>1. acc = Sd!Access("CTRL", TRUE, old \cup {"RST"})
    BY <1>6, AccessOf DEF acc
  <2>2. ~Sd!Writes(acc, "CMD") /\ ~Sd!Reads(acc, "RESP")
    BY <1>2, <2>1
  <2>3. o # Read("RESP") /\ Acks(o) = {} /\ o.op = "set"
    BY <1>6, Apart, Acknowledges, Fields
  <2> QED BY <1>6, <2>2, <2>3 DEF acc
<1>7. CASE \E b \in Clears : o = Clear(b)
  <2>1. PICK b \in Clears : o = Clear(b)
    BY <1>7
  <2>2. acc = Sd!Access("CTRL", TRUE, old \ b)
    BY <2>1, AccessOf DEF acc
  <2>3. /\ ~Sd!Writes(acc, "CMD") /\ ~Sd!Reads(acc, "RESP")
        /\ \A x \in Sd!Settings : x \in ctrl' <=> x \in old \ b
    BY <1>2, <2>2
  <2>4. o # Read("RESP") /\ Acks(o) = b /\ o.op = "clear"
    BY <2>1, Apart, Acknowledges, Fields
  <2>5. b \subseteq Sd!Settings /\ "RST" \in Sd!Settings
    BY DEF Clears, Sd!Settings
  <2>6. "RST" \in ctrl' => "RST" \in ctrl
    BY <2>3, <2>5
  <2>7. b \cap ctrl' = {}
    BY <2>3, <2>5
  <2> QED BY <2>3, <2>4, <2>6, <2>7 DEF acc
<1>8. CASE \E a \in {"DATA", "CMDARG", "CMD"} : \E k : o = Write(a, k)
  <2>0. PICK a \in {"DATA", "CMDARG", "CMD"} : \E k : o = Write(a, k)
    BY <1>8
  <2>1. PICK k : o = Write(a, k)
    BY <2>0
  <2>2. /\ ~Sd!Writes(acc, "CTRL") /\ ~Sd!Reads(acc, "RESP")
        /\ Sd!Writes(acc, "CMD") => a = "CMD"
    BY <1>3, <2>1
  <2>3. o # Read("RESP") /\ Acks(o) = {} /\ o.adr = a
    BY <2>1, Apart, Acknowledges, Fields
  <2> QED BY <1>4, <2>2, <2>3 DEF acc
<1>9. \/ \E a \in {"IRQ", "CTRL", "RESP", "DATA"} : o = Read(a)
      \/ o = Set({"RST"})
      \/ \E b \in Clears : o = Clear(b)
      \/ \E a \in {"DATA", "CMDARG", "CMD"} : \E k : o = Write(a, k)
  BY Kinds DEF Poll
<1> QED BY <1>5, <1>6, <1>7, <1>8, <1>9

(* An access that is no command takes the function further. *)
LEMMA Steps ==
  ASSUME NEW c, NEW s, Plan(s), s # <<>>, NEW fits, Stepping(BusAccess(Head(s)), fits),
         Head(s) # Poll, Head(s).adr # "CMD", old \cap Sd!Settings \subseteq ctrl,
         Set({"RST"}) \in Ops(s) => c = "reset" /\ Poll \in Ops(s),
         resp' = IF Head(s) = Read("RESP") /\ c # "reset" THEN Append(resp, cmd_reg.last) ELSE resp,
         sent' = sent \/ Head(s) = Write("DATA", Sd!NoCommand)
  PROVE  Advances(BusAccess(Head(s)), c, s, Tail(s))
<1> DEFINE o == Head(s)
           acc == BusAccess(o)
           t == Tail(s)
<1>1. /\ Plan(t) /\ o \in Operations /\ Ops(s) = {o} \cup Ops(t)
      /\ o # Read("CTRL") => o \notin Ops(t)
  BY RestOfPlan
<1> HIDE DEF t
<1> SUFFICES Advances(acc, c, s, t)
  BY DEF t
<1>2. Acked(s) \cap ctrl' \subseteq Acked(t)
  <2>1. Acks(o) \cap ctrl' = {}
    BY <1>1, Effects
  <2>2. \A x : x \in Acked(s) => x \in Acks(o) \/ x \in Acked(t)
    BY <1>1, AckedBy
  <2> QED BY <2>1, <2>2
<1>3. /\ Sd!Writes(acc, "CMD") => o.adr = "CMD"
      /\ Sd!Reads(acc, "RESP") <=> o = Read("RESP")
      /\ "RST" \in ctrl' => "RST" \in ctrl \/ o = Set({"RST"})
  BY <1>1, Effects
<1>4. Read("RESP") # Read("CTRL") /\ Write("DATA", Sd!NoCommand) # Read("CTRL")
  BY Apart
<1>5. o = Set({"RST"}) => c = "reset" /\ Poll \in Ops(t)
  BY <1>1
<1>6. sent' = sent \/ Write("DATA", Sd!NoCommand) \notin Ops(t)
  BY <1>1, <1>4
<1>7. Sd!Reads(acc, "RESP") => Read("RESP") \in Ops(s) /\ Read("RESP") \notin Ops(t)
  BY <1>1, <1>3, <1>4
<1>8. resp' = IF Sd!Reads(acc, "RESP") /\ c # "reset" THEN Append(resp, cmd_reg.last) ELSE resp
  BY <1>3
<1>9. ~Sd!Writes(acc, "CMD") /\ Ops(t) \subseteq Ops(s) /\ (Poll \in Ops(s) => Poll \in Ops(t))
  BY <1>1, <1>3
<1>10. "RST" \in ctrl' => "RST" \in ctrl \/ (c = "reset" /\ Poll \in Ops(t))
  BY <1>3, <1>5
<1> HIDE DEF acc, o
<1> QED BY <1>2, <1>6, <1>7, <1>8, <1>9, <1>10 DEF Advances

(* Where the driver is that has called a function. *)
LEMMA Shapes ==
  ASSUME DriverInv, todo # <<>>
  PROVE  LET o == Head(todo)
             a == Write("CMDARG", Sd!NoCommand)
             w == Write("CMD", CommandOf(call))
         IN  \/ Starting /\ todo = <<a, w, Poll>> /\ o = a /\ Tail(todo) = <<w, Poll>>
             \/ Starting /\ todo = <<w, Poll>> /\ o = w /\ Tail(todo) = <<Poll>>
             \/ ~Starting /\ Resetting /\ o = Read("CTRL") /\ Tail(todo) = <<Set({"RST"}), Poll>>
                  /\ irq = {}
             \/ ~Starting /\ Resetting /\ o = Set({"RST"}) /\ Tail(todo) = <<Poll>> /\ irq = {}
             \/ ~Starting /\ todo = <<Poll>> /\ o = Poll
             \/ ~Starting /\ Handling /\ o # Poll
<1> DEFINE o == Head(todo)
           a == Write("CMDARG", Sd!NoCommand)
           w == Write("CMD", CommandOf(call))
           x == Read("CTRL")
           y == Set({"RST"})
<1>1. CASE Starting
  <2>1. call \in Transfers \cup Limited
    BY <1>1, Running
  <2>2. todo = Begin(call) \o <<Poll>> \/ todo = Tail(Begin(call)) \o <<Poll>>
    BY <1>1 DEF Starting
  <2>3. todo = <<a, w, Poll>> \/ todo = <<w, Poll>>
    BY <2>1, <2>2, StartingPlans
  <2>4. /\ Head(<<a, w, Poll>>) = a /\ Tail(<<a, w, Poll>>) = <<w, Poll>>
        /\ Head(<<w, Poll>>) = w /\ Tail(<<w, Poll>>) = <<Poll>>
    BY <2>1, StartingPlans
  <2> QED BY <1>1, <2>3, <2>4
<1>2. CASE ~Starting /\ Resetting
  <2>1. todo = <<x, y, Poll>> \/ todo = <<y, Poll>>
    BY <1>2, ResettingPlans DEF Resetting
  <2>2. /\ Head(<<x, y, Poll>>) = x /\ Tail(<<x, y, Poll>>) = <<y, Poll>>
        /\ Head(<<y, Poll>>) = y /\ Tail(<<y, Poll>>) = <<Poll>>
        /\ Ops(<<x, y, Poll>>) = {x, y, Poll} /\ Ops(<<y, Poll>>) = {y, Poll}
    BY ResettingPlans
  <2>3. Poll \in Ops(todo)
    <3>1. CASE todo = <<x, y, Poll>>
      BY <3>1, <2>2
    <3>2. CASE todo = <<y, Poll>>
      BY <3>2, <2>2
    <3> QED BY <2>1, <3>1, <3>2
  <2>4. irq = {}
    BY <2>3 DEF DriverInv, Handling
  <2> QED BY <1>2, <2>1, <2>2, <2>4
<1>3. CASE ~Starting /\ todo = <<Poll>>
  BY <1>3
<1>4. CASE ~Starting /\ Handling
  <2>1. o \in Ops(todo)
    BY Running
  <2> QED BY <1>4, <2>1 DEF Handling
<1>5. call # "none"
  BY DEF DriverInv
<1>6. Starting \/ Resetting \/ todo = <<Poll>> \/ Handling
  BY <1>5 DEF DriverInv
<1> QED BY ONLY <1>1, <1>2, <1>3, <1>4, <1>6, Zenon

(* What the registers of the driver hold after an access. *)
LEMMA Recorded ==
  ASSUME NEW o \in Operations, Records(o)
  PROVE  /\ resp' = IF o = Read("RESP") /\ call # "reset" THEN Append(resp, cmd_reg.last) ELSE resp
         /\ sent' = sent \/ o = Write("DATA", Sd!NoCommand)
         /\ sent' = IF o = Write("DATA", Sd!NoCommand) THEN sent + 1 ELSE sent
         /\ blocks' = IF o = Poll /\ "BLK_DONE" \in Flags THEN blocks + 1 ELSE blocks
         /\ old' = IF o = Read("CTRL") THEN Sd!CtrlRead ELSE {}
<1>1. (o.op = "write" /\ o.adr = "DATA") <=> o = Write("DATA", Sd!NoCommand)
  <2>1. CASE \E a : o = Read(a)
    BY <2>1, Fields, Apart
  <2>2. CASE \E b : o = Clear(b) \/ o = Set(b)
    BY <2>2, Fields, Apart
  <2>3. CASE \E k : o = Write("CMD", k) \/ o = Write("CMDARG", k)
    BY <2>3, Fields, Apart
  <2>4. CASE o = Write("DATA", Sd!NoCommand)
    BY <2>4, Fields
  <2> QED BY <2>1, <2>2, <2>3, <2>4, Kinds DEF Poll
<1> QED BY <1>1 DEF Records

(* After an access what is true of the function is true of it with the     *)
(* accesses that remain.                                                   *)
LEMMA Done ==
  ASSUME ControllerInv, DriverInv, ~EarlyData, todo # <<>>,
         NEW fits \in BOOLEAN, Edge(BusAccess(Head(todo)), fits), Records(Head(todo)),
         NEW c, NEW l, NEW r, NEW f, NEW b, c = call, l = loop, b = blocks', f = Flags,
         r = IF Head(todo) = Poll THEN Handle ELSE Tail(todo),
         Starting => r = <<Poll>>
  PROVE  During(c, l, r, f, b)' /\ resp' \in Seq(Nat)
<1> DEFINE o == Head(todo)
           acc == BusAccess(o)
<1>0. /\ call \in Transfers \cup Limited \cup {"reset"} /\ call # "none" /\ loop \in 1 .. 2
      /\ Plan(todo) /\ o \in Operations /\ Ops(todo) = {o} \cup Ops(Tail(todo))
      /\ resp \in Seq(Nat) /\ old \cap Sd!Settings \subseteq ctrl /\ DriverTypes
  BY Running DEF DriverInv, DriverTypes
<1>1. Stepping(acc, fits)
  BY PermittedOps DEF Stepping
<1>2. /\ resp' = IF o = Read("RESP") /\ call # "reset" THEN Append(resp, cmd_reg.last) ELSE resp
      /\ sent' = sent \/ o = Write("DATA", Sd!NoCommand)
      /\ blocks' = IF o = Poll /\ "BLK_DONE" \in Flags THEN blocks + 1 ELSE blocks
  BY <1>0, Recorded
<1>3. o # Poll => Flags = irq /\ r = Tail(todo)
  BY DEF Flags
<1>4. CASE Starting
  <2> DEFINE a == Write("CMDARG", Sd!NoCommand)
             w == Write("CMD", CommandOf(call))
  <2>0. /\ call \in Transfers \cup Limited /\ loop = 1 /\ blocks = 0 /\ resp = <<>> /\ irq = {}
        /\ Settled /\ Clean
    BY <1>4, Running
  <2>a. /\ a # Poll /\ w # Poll /\ a.adr = "CMDARG"
    BY Fields
  <2>1. o = w /\ r = <<Poll>>
    <3>1. ASSUME o = a, Tail(todo) = <<w, Poll>> PROVE FALSE
      <4>1. Len(<<w, Poll>>) = 2 /\ Len(<<Poll>>) = 1
        OBVIOUS
      <4> QED BY <1>3, <1>4, <2>a, <3>1, <4>1
    <3> QED BY <1>4, <3>1, Shapes
  <2>2. o # Read("RESP") /\ o # Poll /\ resp' = resp
    BY <1>2, <2>1, Apart DEF Poll
  <2>3. acc = Sd!Access("CMD", TRUE, CommandOf(call))
    BY <2>1, AccessOf
  <2>4. f = {} /\ b = 0
    BY <1>2, <1>3, <2>0, <2>2
  <2>5. During(c, 1, <<Poll>>, {}, 0)'
    <3>1. c \in Transfers \cup Limited /\ acc = Sd!Access("CMD", TRUE, CommandOf(c))
      BY <2>0, <2>3
    <3> HIDE DEF acc
    <3> QED BY <1>1, <2>0, <2>2, <3>1, CommandGiven
  <2> QED BY <1>0, <2>0, <2>1, <2>2, <2>4, <2>5
<1>5. CASE ~Starting /\ o = Poll
  <2>1. todo = <<Poll>> /\ During(call, loop, todo, irq, blocks) /\ irq = {}
    <3>1. todo = <<Poll>>
      BY <1>5, Shapes, Apart DEF Poll
    <3> QED BY <1>0, <3>1, Looking
  <2>2. During(c, l, r, f, b)
    <3>1. b = blocks + IF "BLK_DONE" \in Flags THEN 1 ELSE 0
      BY <1>0, <1>2, <1>5 DEF DriverTypes
    <3>2. During(call, loop, Handle, Flags, b)
      BY <1>0, <2>1, <3>1, PollView
    <3>3. r = Handle
      BY <1>5
    <3> QED BY <3>2, <3>3
  <2>3. /\ ~Sd!Writes(acc, "CMD") /\ ~Sd!Reads(acc, "RESP") /\ ("RST" \in ctrl' => "RST" \in ctrl)
        /\ sent' = sent /\ resp' = resp
    <3>1. Poll.adr # "CMD" /\ Poll # Read("RESP") /\ Poll # Set({"RST"})
            /\ Poll # Write("DATA", Sd!NoCommand)
      BY Fields, Waiting
    <3> QED BY <1>0, <1>1, <1>2, <1>5, <3>1, Effects
  <2> HIDE DEF acc
  <2>4. Advances(acc, c, r, r)
    BY <2>3 DEF Advances
  <2> QED BY <1>0, <1>1, <2>2, <2>4, DuringStays
<1>6. CASE ~Starting /\ o # Poll /\ o.adr # "CMD"
  <2>1. During(c, l, todo, irq, b) /\ r = Tail(todo) /\ f = irq
    BY <1>2, <1>3, <1>6, Running
  <2>2. Set({"RST"}) \in Ops(todo) => c = "reset" /\ Poll \in Ops(todo)
    BY <2>1 DEF During, Legal
  <2>3. Advances(acc, c, todo, r)
    BY <1>0, <1>1, <1>2, <1>6, <2>1, <2>2, Steps
  <2> SUFFICES ASSUME NEW s, s = todo, NEW g, g = irq
               PROVE  During(c, l, r, f, b)' /\ resp' \in Seq(Nat)
    OBVIOUS
  <2> HIDE DEF acc
  <2>4. During(c, l, s, g, b) /\ Advances(acc, c, s, r)
    BY <2>1, <2>3
  <2>5. During(c, l, r, g, b)' /\ resp' \in Seq(Nat)
    BY <1>0, <1>1, <2>4, DuringStays
  <2> QED BY <2>1, <2>5
<1>7. CASE ~Starting /\ o # Poll /\ o.adr = "CMD"
  <2>1. During(c, l, todo, irq, b) /\ r = Tail(todo) /\ f = irq
    BY <1>2, <1>3, <1>7, Running
  <2>2. PICK k : o = Write("CMD", k)
    <3>1. o \notin {Poll, Read("CTRL"), Read("RESP"), Read("DATA"), Set({"RST"}),
                   Write("DATA", Sd!NoCommand), Write("CMDARG", Sd!NoCommand)}
      BY <1>7, Fields
    <3>2. ~\E x \in Clears : o = Clear(x)
      BY <1>7, Fields
    <3> QED BY ONLY <1>0, <3>1, <3>2, Kinds, Zenon
  <2>3. acc = Sd!Access("CMD", TRUE, k)
    BY <2>2, AccessOf
  <2>4. /\ Ops(r) \subseteq Ops(todo) /\ (\A p \in Ops(r) : ~Commands(p)) /\ o \in Ops(todo)
    BY <1>0, <1>7, <2>1, RestOfPlan
  <2>5. Acked(todo) \subseteq Acked(r)
    <3>1. Acks(o) = {}
      BY <2>2, Acknowledges
    <3>2. ASSUME NEW x \in Acked(todo) PROVE x \in Acked(r)
      <4>1. PICK p \in Ops(todo) : x \in Acks(p)
        BY AckedBy
      <4>2. p \in Ops(r)
        BY <1>0, <2>1, <3>1, <4>1
      <4> QED BY <4>1, <4>2, AckedBy
    <3> QED BY <3>2
  <2>6. resp' = resp /\ sent' = sent
    BY <1>2, <2>2, Apart
  <2> SUFFICES ASSUME NEW s, s = todo, NEW g, g = irq
               PROVE  During(c, l, r, f, b)' /\ resp' \in Seq(Nat)
    OBVIOUS
  <2> HIDE DEF acc
  <2>7. During(c, l, r, g, b)' /\ resp' \in Seq(Nat)
    BY <1>0, <1>1, <2>1, <2>2, <2>3, <2>4, <2>5, <2>6, StopGiven
  <2> QED BY <2>1, <2>7
<1> QED BY <1>4, <1>5, <1>6, <1>7

(* The registers of the driver stay in their ranges. *)
LEMMA RecordedTypes ==
  ASSUME ControllerInv, DriverInv, todo # <<>>, NEW fits \in BOOLEAN,
         Edge(BusAccess(Head(todo)), fits), Records(Head(todo))
  PROVE  /\ sent' \in 0 .. Words * Blocks /\ buf' \in Seq(Nat) /\ blocks' \in Nat
         /\ (old \cap Sd!Settings \subseteq ctrl)'
<1> DEFINE o == Head(todo)
           acc == BusAccess(o)
<1>0. /\ o \in Operations /\ o \in Ops(todo) /\ DriverTypes /\ Types
      /\ old \cap Sd!Settings \subseteq ctrl
  BY Running DEF DriverInv, ControllerInv
<1>1. Stepping(acc, fits)
  BY PermittedOps DEF Stepping
<1>2. sent' \in 0 .. Words * Blocks
  <2>0. Words * Blocks \in Nat
    BY Constants
  <2>1. o = Write("DATA", Sd!NoCommand) => sent < Words * Blocks
    <3>1. ~Starting => Legal(call, todo, blocks)
      BY Running DEF During
    <3>2. Starting => o # Write("DATA", Sd!NoCommand)
      BY Shapes, Apart
    <3> QED BY <1>0, <3>1, <3>2 DEF Legal
  <2>2. sent' = IF o = Write("DATA", Sd!NoCommand) THEN sent + 1 ELSE sent
    BY <1>0, Recorded
  <2>3. sent \in 0 .. Words * Blocks
    BY <1>0 DEF DriverTypes
  <2> HIDE DEF o
  <2> QED BY <2>0, <2>1, <2>2, <2>3
<1>3. buf' \in Seq(Nat)
  <2>1. dat_reg.last \in Nat /\ buf \in Seq(Nat)
    BY <1>0 DEF Types, DriverTypes
  <2>2. buf' = Append(buf, dat_reg.last) \/ buf' = buf
    BY DEF Records
  <2> QED BY <2>1, <2>2
<1>4. blocks' \in Nat
  BY <1>0 DEF Records, DriverTypes
<1>5. (old \cap Sd!Settings \subseteq ctrl)'
  <2>1. old' = IF o = Read("CTRL") THEN Sd!CtrlRead ELSE {}
    BY <1>0, Recorded
  <2>2. CASE o = Read("CTRL")
    <3>1. ~Sd!Writes(acc, "CTRL")
      BY <1>0, <1>1, <2>2, Effects, Fields
    <3>2. ctrl \cap Sd!Settings \subseteq ctrl'
      BY <1>1, <3>1, SettingsStay
    <3>3. Sd!CtrlRead \cap Sd!Settings \subseteq ctrl
      BY DEF Sd!CtrlRead, Sd!Settings
    <3>4. old' \cap Sd!Settings \subseteq ctrl'
      BY <2>1, <2>2, <3>2, <3>3
    <3> QED BY <3>4 DEF Sd!Settings
  <2>3. CASE o # Read("CTRL")
    BY <2>1, <2>3
  <2> QED BY <2>2, <2>3
<1> QED BY <1>2, <1>3, <1>4, <1>5

(* The end of a loop, said of the flags. *)
LEMMA EndsMeans ==
  ASSUME call \in Transfers \cup Limited \cup {"reset"}
  PROVE  (LoopEnds <=> Ends(call, loop, Flags)) /\ Loops = LoopsOf(call)
<1>1. Idle <=> Flags \cap BusyFlags = {}
  BY DEF Idle, BusyFlags
<1>2. LoopEnds <=> Ends(call, loop, Flags)
  <2>1. CASE call \in Limited
    BY <1>1, <2>1 DEF LoopEnds, Ends, Limited
  <2>2. CASE call = "reset"
    BY <1>1, <2>2 DEF LoopEnds, Ends, Limited
  <2>3. CASE call = "read_blocks_stop"
    BY <2>3 DEF LoopEnds, Ends, Limited
  <2>4. CASE call \in {"read_block", "write_blocks_stop"}
    BY <2>4 DEF LoopEnds, Ends, Limited
  <2> QED BY <2>1, <2>2, <2>3, <2>4 DEF Transfers
<1> QED BY <1>2 DEF Loops, LoopsOf

(* The first access of a call leaves the command to be given. *)
LEMMA ArgumentGiven ==
  ASSUME ControllerInv, DriverInv, NEW fits \in BOOLEAN, Edge(BusAccess(Head(todo)), fits),
         Records(Head(todo)), Proceed(Head(todo)), Starting, todo # <<>>,
         Head(todo) = Write("CMDARG", Sd!NoCommand)
  PROVE  DriverInv'
<1> DEFINE a == Write("CMDARG", Sd!NoCommand)
           w == Write("CMD", CommandOf(call))
<1>0. /\ call \in Transfers \cup Limited /\ call # "none" /\ loop = 1 /\ blocks = 0 /\ resp = <<>>
           /\ irq = {}
      /\ Settled /\ Clean /\ call \in Calls
  BY Running DEF DriverInv, Starting
<1>a. a # Poll /\ a # Read("RESP") /\ a.adr = "CMDARG" /\ a # w /\ a \in Operations
        /\ a.op = "write"
  BY Fields, Apart, Kinds DEF Poll
<1>1. Tail(todo) = <<w, Poll>>
  BY <1>0, <1>a, Shapes, Apart
<1>2. /\ Plan(<<w, Poll>>) /\ Ops(<<w, Poll>>) = {w, Poll}
      /\ Tail(Begin(call)) \o <<Poll>> = <<w, Poll>>
  BY <1>0, StartingPlans
<1>3. /\ todo' = <<w, Poll>> /\ irq' = {} /\ call' = call /\ loop' = loop
  <2>1. <<w, Poll>> # <<>> /\ Flags = {}
    BY <1>0, <1>a DEF Flags
  <2> DEFINE r == <<w, Poll>>
  <2>2. Tail(todo) = r /\ r # <<>> /\ Head(todo) # Poll
    BY <1>a, <1>1, <2>1
  <2> HIDE DEF r, w
  <2>3. todo' = r /\ irq' = {} /\ call' = call /\ loop' = loop
    BY <2>1, <2>2 DEF Proceed
  <2> QED BY <2>3 DEF r
<1>4. resp' = resp /\ blocks' = blocks
  BY <1>a, Recorded
<1>5. Settled' /\ Clean'
  <2>1. Stepping(BusAccess(a), fits)
    BY <1>0, PermittedOps DEF Stepping
  <2>2. ~Sd!Writes(BusAccess(a), "CMD") /\ ~Sd!Writes(BusAccess(a), "CTRL")
    BY <1>a, <2>1, Effects DEF DriverInv
  <2> QED BY <1>0, <2>1, <2>2, CleanStays
<1> DEFINE s == <<w, Poll>>
<1>6. Starting' /\ ~(Poll \notin Ops(s)) /\ Plan(s) /\ todo' = s
  BY <1>0, <1>2, <1>3 DEF Starting
<1> HIDE DEF s
<1>7. ~Handling'
  BY <1>6 DEF Handling, Ops
<1>8. DriverTypes'
  <2>1. irq' \subseteq Bits \cup BusyFlags /\ resp' \in Seq(Nat)
    BY <1>0, <1>3, <1>4
  <2>2. sent' \in 0 .. Words * Blocks /\ buf' \in Seq(Nat) /\ blocks' \in Nat
    BY RecordedTypes
  <2>3. Plan(todo)'
    BY <1>6 DEF Plan, Ordered, Commands
  <2> QED BY <1>0, <1>3, <2>1, <2>2, <2>3 DEF DriverTypes
<1> QED BY <1>0, <1>3, <1>4, <1>5, <1>6, <1>7, <1>8, RecordedTypes DEF DriverInv

(* A driver that waits for a flag or handles one has begun. *)
LEMMA Begun ==
  ASSUME NEW c, NEW r, call' = c, todo' = r,
         c \in Calls => r = <<Poll>> \/ Poll \notin Ops(r)
  PROVE  ~Starting'
<1> SUFFICES ASSUME c \in Calls PROVE r # Begin(c) \o <<Poll>> /\ r # Tail(Begin(c)) \o <<Poll>>
  BY DEF Starting
<1> DEFINE a == Write("CMDARG", Sd!NoCommand)
           w == Write("CMD", CommandOf(c))
<1>1. c \in Transfers \cup Limited
  BY NeoSDAssumption DEF Transfers, Limited
<1>2. /\ Begin(c) \o <<Poll>> = <<a, w, Poll>> /\ Tail(Begin(c)) \o <<Poll>> = <<w, Poll>>
      /\ Ops(<<a, w, Poll>>) = {a, w, Poll} /\ Ops(<<w, Poll>>) = {w, Poll}
      /\ a # Poll /\ w # Poll
  BY <1>1, StartingPlans
<1>3. Ops(<<Poll>>) = {Poll}
  BY Waiting
<1>4. a # w
  BY <1>1, StartingPlans
<1>5. ASSUME r = <<a, w, Poll>> PROVE FALSE
  BY <1>2, <1>3, <1>5
<1>6. ASSUME r = <<w, Poll>> PROVE FALSE
  BY <1>2, <1>3, <1>6
<1> QED BY <1>2, <1>5, <1>6

(* The driver makes an access, and does what comes next. *)
LEMMA DriverProceeds ==
  ASSUME ControllerInv, ControllerInv', DriverInv, ~EarlyData, todo # <<>>,
         NEW fits \in BOOLEAN, Edge(BusAccess(Head(todo)), fits),
         Records(Head(todo)), Proceed(Head(todo))
  PROVE  DriverInv'
<1> DEFINE o == Head(todo)
           rest == IF o = Poll THEN Handle ELSE Tail(todo)
           a == Write("CMDARG", Sd!NoCommand)
           w == Write("CMD", CommandOf(call))
<1>0. /\ call \in Transfers \cup Limited \cup {"reset"} /\ call # "none" /\ loop \in 1 .. 2
      /\ call \in Calls \cup {"reset"}
      /\ loop = 2 => call \in {"read_blocks_stop", "write_blocks_stop", "select"}
      /\ Plan(todo) /\ o \in Operations /\ Ops(todo) = {o} \cup Ops(Tail(todo)) /\ Plan(Tail(todo))
      /\ irq \subseteq Bits \cup BusyFlags /\ DriverTypes /\ Types
  BY Running, RestOfPlan DEF DriverInv, DriverTypes, ControllerInv
<1>1. CASE Starting /\ o = a
  BY <1>1, ArgumentGiven
<1>2. CASE ~(Starting /\ o = a)
  <2>1. /\ Starting => rest = <<Poll>>
        /\ o = Poll => todo = <<Poll>>
    <3>1. a # Poll /\ w # Poll /\ Read("CTRL") # Poll /\ Set({"RST"}) # Poll
      BY Fields, Apart DEF Poll
    <3> QED BY <1>2, <3>1, Shapes
  <2>2. Plan(rest) /\ Flags \subseteq Bits \cup BusyFlags
    <3>1. CASE o = Poll
      BY <1>0, <2>1, <3>1, Sees, AllAnswer DEF Answering
    <3>2. CASE o # Poll
      BY <1>0, <3>2 DEF Flags
    <3> QED BY <3>1, <3>2
  <2>3. \/ rest = <<Poll>> /\ Flags = {}
        \/ rest # <<>> /\ Resetting /\ rest = <<Set({"RST"}), Poll>> /\ Flags = {}
        \/ Poll \notin Ops(rest)
    <3>1. CASE o = Poll
      BY <1>0, <3>1, AllAnswer DEF Answering
    <3>2. CASE o # Poll
      <4>1. rest = Tail(todo) /\ Flags = irq
        BY <3>2 DEF Flags
      <4>2. Starting => irq = {}
        BY Running
      <4>3. Handling => Poll \notin Ops(Tail(todo))
        BY <1>0 DEF Handling
      <4>4. <<Set({"RST"}), Poll>> # <<>>
        OBVIOUS
      <4> QED BY <2>1, <3>2, <4>1, <4>2, <4>3, <4>4, Shapes
    <3> QED BY <3>1, <3>2
  <2> SUFFICES ASSUME NEW c, c = call, NEW l, l = loop, NEW r, r = rest, NEW f, f = Flags,
                      NEW b, b = blocks'
               PROVE  DriverInv'
    OBVIOUS
  <2>4. During(c, l, r, f, b)' /\ resp' \in Seq(Nat)
    BY <2>1, Done
  <2>5. IF r # <<>> THEN todo' = r /\ irq' = f /\ call' = c /\ loop' = l
        ELSE /\ irq' = {}
             /\ IF ~Ends(c, l, f) THEN todo' = <<Poll>> /\ call' = c /\ loop' = l
                ELSE IF l < LoopsOf(c) THEN todo' = <<Poll>> /\ loop' = l + 1 /\ call' = c
                ELSE todo' = <<>> /\ loop' = 1 /\ call' = "none"
    BY <1>0, EndsMeans DEF Proceed
  <2> HIDE DEF o, rest
  <2>6. c \in Transfers \cup Limited \cup {"reset"} /\ l \in 1 .. 2 /\ c # "none"
          /\ c \in Calls \cup {"reset"}
    BY <1>0
  <2>7. /\ sent' \in 0 .. Words * Blocks /\ buf' \in Seq(Nat) /\ blocks' \in Nat
        /\ (old \cap Sd!Settings \subseteq ctrl)'
    BY RecordedTypes
  <2>8. Plan(r) /\ f \subseteq Bits \cup BusyFlags
    BY <2>2
  <2>9. \/ r = <<Poll>> /\ f = {}
        \/ r # <<>> /\ c = "reset" /\ r = <<Set({"RST"}), Poll>> /\ f = {}
        \/ Poll \notin Ops(r)
    BY <2>3 DEF Resetting
  <2>10. l = 1 \/ (l = 2 /\ c \in {"read_blocks_stop", "write_blocks_stop", "select"}
           /\ LoopsOf(c) = 2)
    BY <1>0, <2>6 DEF LoopsOf
  <2>11. LoopsOf(c) \in 1 .. 2
           /\ (LoopsOf(c) = 2 => c \in {"read_blocks_stop", "write_blocks_stop", "select"})
    BY <2>6 DEF LoopsOf, Transfers, Limited
  <2>12. Plan(<<Poll>>) /\ Plan(<<>>) /\ "none" \notin Calls /\ "reset" \notin Calls
           /\ <<Poll>> # <<>>
    BY Kinds, ShortPlans, NeoSDAssumption
  <2>13. ASSUME NEW s, todo' = s, Plan(s), call' \in Calls \cup {"none", "reset"}, loop' \in 1 .. 2,
                loop' = 2 => call' \in {"read_blocks_stop", "write_blocks_stop", "select"},
                irq' \subseteq Bits \cup BusyFlags
         PROVE  DriverTypes'
    <3>1. Plan(todo)'
      BY <2>13 DEF Plan, Ordered, Commands
    <3> QED BY <2>4, <2>7, <2>13, <3>1 DEF DriverTypes
  <2>14. CASE r # <<>>
    <3>0. todo' = r /\ irq' = f /\ call' = c /\ loop' = l
      BY <2>5, <2>14
    <3>1. DriverTypes'
      BY <2>6, <2>8, <2>10, <2>13, <3>0
    <3>2. ~Starting'
      <4>1. c \in Calls => r = <<Poll>> \/ Poll \notin Ops(r)
        BY <2>9, <2>12
      <4> QED BY <3>0, <4>1, Begun
    <3>3. During(call, loop, todo, irq, blocks)'
      BY <2>4, <3>0, Said
    <3>4. Handling' <=> Poll \notin Ops(r)
      BY <2>14, <3>0 DEF Handling, Ops
    <3>5. Resetting' \/ todo' = <<Poll>> \/ Handling'
      <4>1. c = "reset" /\ r = <<Set({"RST"}), Poll>> => Resetting'
        BY <3>0 DEF Resetting, Set, Poll, Read, Sd!NoCommand, Sd!Command
      <4> QED BY <2>9, <3>0, <3>4, <4>1
    <3>6. ~Handling' => irq' = {}
      BY <2>9, <3>0, <3>4
    <3> QED BY <2>6, <2>7, <3>0, <3>1, <3>2, <3>3, <3>5, <3>6 DEF DriverInv
  <2>15. CASE r = <<>> /\ ~(Ends(c, l, f) /\ l = LoopsOf(c))
    <3> DEFINE m == IF Ends(c, l, f) THEN 2 ELSE l
    <3>0. todo' = <<Poll>> /\ irq' = {} /\ call' = c /\ loop' = m
      BY <2>5, <2>10, <2>11, <2>15
    <3>1. During(c, m, <<Poll>>, {}, b)'
      <4>1. CASE Ends(c, l, f)
        <5>1. l = 1 /\ LoopsOf(c) = 2
          BY <2>10, <2>11, <2>15, <4>1
        <5> QED BY <2>4, <2>6, <2>15, <4>1, <5>1, NextLoop
      <4>2. CASE ~Ends(c, l, f)
        BY <2>4, <2>6, <2>15, <4>2, NextRound
      <4> QED BY <4>1, <4>2
    <3>2. m \in 1 .. 2 /\ (m = 2 => c \in {"read_blocks_stop", "write_blocks_stop", "select"})
      BY <2>10, <2>11, <2>15
    <3> HIDE DEF m
    <3>3. During(call, loop, todo, irq, blocks)'
      BY <3>0, <3>1, Said
    <3>4. DriverTypes'
      BY <2>6, <2>12, <2>13, <3>0, <3>2
    <3>5. ~Starting'
      BY <3>0, Begun
    <3>6. ~Handling'
      <4> SUFFICES ASSUME NEW s, s = <<Poll>> PROVE ~Handling'
        OBVIOUS
      <4>1. Poll \in Ops(s) /\ todo' = s
        BY <3>0, Waiting
      <4> QED BY <4>1 DEF Handling, Ops
    <3> QED BY <2>6, <2>7, <3>0, <3>3, <3>4, <3>5, <3>6 DEF DriverInv
  <2>16. CASE r = <<>> /\ Ends(c, l, f) /\ l = LoopsOf(c)
    <3>0. todo' = <<>> /\ irq' = {} /\ call' = "none" /\ loop' = 1
      BY <2>5, <2>11, <2>16
    <3>1. DriverTypes'
      BY <2>12, <2>13, <3>0
    <3>2. ~Starting'
      BY <2>12, <3>0 DEF Starting
    <3>3. Settled' /\ Clean'
      BY <2>4, <2>6, <2>16, LastLoop
    <3> QED BY <2>7, <3>0, <3>1, <3>2, <3>3 DEF DriverInv
  <2> QED BY <2>14, <2>15, <2>16
<1> QED BY <1>1, <1>2

-----------------------------------------------------------------------------
(* The invariant. *)

(* The invariant holds after a reset of the chip. *)
LEMMA InitInv ==
  Init => IInv
<1> SUFFICES ASSUME Init PROVE IInv
  OBVIOUS
<1>0. /\ cnt = 0 /\ cdiv_cnt = 0
      /\ sd_clk_strb = FALSE /\ sd_clk_cont = FALSE /\ clkstrb = FALSE /\ sd_clk = FALSE
      /\ ctrl = {} /\ command = Sd!NoCommand /\ status_last = {"idle_cmd", "idle_dat"}
      /\ cmd = Sd!CmdReset /\ cmd_reg = [out |-> 0, last |-> 0, idx |-> "none"]
      /\ dat = Sd!DatReset /\ dat_reg = [out |-> 0, last |-> 0]
      /\ rx = 0 /\ answer = Card!Silent /\ task = "idle" /\ n = 0 /\ multi = FALSE
      /\ call = "none" /\ loop = 1 /\ todo = <<>> /\ irq = {} /\ old = {}
      /\ resp = <<>> /\ buf = <<>> /\ sent = 0 /\ blocks = 0
  BY DEF Init, Sd!Init, Card!Init
<1>1. /\ cmd.state = "IDLE" /\ cmd.bit = 0 /\ cmd.word = 0 /\ cmd.clk_req = FALSE
      /\ cmd.clk_stall = FALSE /\ cmd.oe = FALSE /\ cmd.start_dat = FALSE
      /\ cmd \in CmdRecord
  BY <1>0 DEF Sd!CmdReset, CmdRecord, CmdStates
<1>2. /\ dat.state = "IDLE" /\ dat.clk_stall = FALSE /\ dat.block_done = FALSE
      /\ dat \in DatRecord /\ dat.clk_req = FALSE
  <2>1. 0 \in WordRange
    BY Constants DEF WordRange
  <2> QED BY <1>0, <2>1 DEF Sd!DatReset, DatRecord, DatStates
<1>3. /\ Formed(command) /\ command.idx = "none" /\ command.commit = FALSE /\ command.abrt = FALSE
  BY <1>0 DEF Sd!NoCommand, Sd!Command, Formed, CommandSet, PhasesOf, Indices, DataModes, RespModes
<1>4. Settled /\ Clean /\ ~Active
  BY <1>0, <1>1, <1>2, <1>3 DEF Settled, Clean, Rests, Active
<1>5. Types
  <2>1. /\ 0 \in 0 .. Prescale - 1 /\ 0 \in 0 .. ClkDiv /\ 0 \in 0 .. CmdBits - 1
             /\ 0 \in 0 .. CmdBits
        /\ 0 \in 0 .. Sd!BlockBits + 1
    BY Constants
  <2>2. answer \in [wait : Nat, bit : Nat, len : Nat]
    BY <1>0 DEF Card!Silent
  <2>3. cmd_reg \in [idx : Indices, out : 0 .. CmdBits, last : Nat]
    BY <1>0, <2>1 DEF Indices
  <2>4. dat_reg \in [out : 0 .. Sd!BlockBits + 1, last : Nat]
    BY <1>0, <2>1
  <2> QED BY <1>0, <1>1, <1>3, <2>1, <2>2, <2>3, <2>4 DEF Types, Tasks
<1>6. Strobes
  BY <1>0 DEF Strobes
<1>7. CmdShape
  <2>1. 0 < TailBits
    BY Constants
  <2> QED BY <1>1, <1>4, <2>1 DEF CmdShape
<1>8. DatShape
  BY <1>2 DEF DatShape, Shaped
<1>9. Commanded /\ Answered
  BY <1>0, <1>1, <1>3, <1>4 DEF Commanded, Answered, Sent
<1>10. ~Sd!Rose("idle_cmd") /\ ~Sd!Rose("idle_dat") /\ ~Sd!Rose("resp_cmd")
  BY <1>0, <1>1 DEF Sd!Rose, Sd!Status, Sd!status_resp_cmd
<1>11. FlagsInv
  BY <1>0, <1>10 DEF FlagsInv
<1>12. /\ FirstInv /\ FlowInv /\ AbortInv /\ StopInv /\ SelectInv /\ CidInv
  BY <1>0, <1>1, <1>2, <1>3, <1>4
     DEF FirstInv, FlowInv, AbortInv, StopInv, SelectInv, CidInv, Flow
<1>13. ControllerInv
  BY <1>5, <1>6, <1>7, <1>8, <1>9, <1>11, <1>12 DEF ControllerInv
<1>14. DriverInv
  <2>1. Words * Blocks \in Nat
    BY Constants
  <2>2. DriverTypes
    BY <1>0, <2>1, ShortPlans DEF DriverTypes
  <2>3. "none" \notin Calls
    BY NeoSDAssumption
  <2> QED BY <1>0, <1>4, <2>2, <2>3 DEF DriverInv, Starting
<1> QED BY <1>13, <1>14 DEF IInv

(* One step keeps the invariant. *)
LEMMA NextInv ==
  ASSUME IInv, ~EarlyData, Next
  PROVE  IInv'
<1>0. ControllerInv /\ DriverInv
  BY DEF IInv
<1>1. ASSUME NEW fits \in BOOLEAN, Edge(Sd!NoAccess, fits)
      PROVE  ControllerInv'
  BY <1>0, <1>1, Quiet, ControllerStep DEF Stepping
<1>2. CASE Tick
  <2>1. PICK fits \in BOOLEAN : Edge(Sd!NoAccess, fits)
    BY <1>2, CycleIsEdge DEF Tick
  <2>2. UNCHANGED driverVars
    BY <1>2 DEF Tick
  <2> QED BY <1>0, <1>1, <2>1, <2>2, DriverWaits DEF IInv
<1>3. CASE Program
  <2>1. /\ todo # <<>> /\ Proceed(Head(todo)) /\ Records(Head(todo)) /\ Cycle(BusAccess(Head(todo)))
    BY <1>3 DEF Program
  <2>2. PICK fits \in BOOLEAN : Edge(BusAccess(Head(todo)), fits)
    BY <2>1, CycleIsEdge
  <2>3. ControllerInv'
    BY <1>0, <2>1, <2>2, PermittedOps, ControllerStep
  <2>4. DriverInv'
    BY <1>0, <2>1, <2>2, <2>3, DriverProceeds
  <2> QED BY <2>3, <2>4 DEF IInv
<1>4. CASE TimeOut
  <2>1. PICK fits \in BOOLEAN : Edge(Sd!NoAccess, fits)
    BY <1>4, CycleIsEdge DEF TimeOut
  <2> QED BY <1>0, <1>1, <1>4, <2>1, DriverGivesUp DEF IInv
<1>5. ASSUME NEW c \in Calls, Call(c) PROVE IInv'
  <2>1. PICK fits \in BOOLEAN : Edge(Sd!NoAccess, fits)
    BY <1>5, CycleIsEdge DEF Call
  <2> QED BY <1>0, <1>1, <1>5, <2>1, DriverCalls DEF IInv
<1>6. CASE CardRests
  <2>1. Edge(Sd!NoAccess, FALSE) /\ UNCHANGED driverVars
    BY <1>6 DEF CardRests, Edge, driverVars
  <2> QED BY <1>0, <1>1, <2>1, DriverWaits DEF IInv
<1> QED BY <1>2, <1>3, <1>4, <1>5, <1>6 DEF Next

(* Nor does a step in which nothing happens. *)
LEMMA StutterInv ==
  ASSUME IInv, UNCHANGED vars
  PROVE  IInv'
<1>0. /\ cnt' = cnt /\ cdiv_cnt' = cdiv_cnt /\ sd_clk_strb' = sd_clk_strb
           /\ sd_clk_cont' = sd_clk_cont
      /\ clkstrb' = clkstrb /\ sd_clk' = sd_clk /\ ctrl' = ctrl /\ command' = command
      /\ status_last' = status_last /\ cmd' = cmd /\ cmd_reg' = cmd_reg /\ dat' = dat
           /\ dat_reg' = dat_reg
      /\ rx' = rx /\ answer' = answer /\ task' = task /\ n' = n /\ multi' = multi
      /\ call' = call /\ loop' = loop /\ todo' = todo /\ irq' = irq /\ old' = old
      /\ resp' = resp /\ buf' = buf /\ sent' = sent /\ blocks' = blocks
  BY DEF vars, Sd!sdVars, Sd!clkVars, cardVars, driverVars
<1>1. (Active' <=> Active) /\ (Rests' <=> Rests) /\ (First' <=> First) /\ (Sent' <=> Sent)
      /\ (Moving' <=> Moving) /\ (Settled' <=> Settled) /\ (Clean' <=> Clean)
           /\ (ResetReady' <=> ResetReady)
      /\ (Risen' <=> Risen) /\ (Fallen' <=> Fallen) /\ (Answers' <=> Answers)
  BY <1>0 DEF Active, Rests, First, Sent, Moving, Settled, Clean, ResetReady, Risen, Fallen,
              Answers, Busy
<1>2. \A s : Sd!Rose(s)' <=> Sd!Rose(s)
  BY <1>0 DEF Sd!Rose, Sd!Status, Sd!status_idle_cmd, Sd!status_idle_dat, Sd!status_resp_cmd,
              Sd!status_data_dat
<1>3. Sd!sd_clk_en' <=> Sd!sd_clk_en
  BY <1>0 DEF Sd!sd_clk_en
<1>4. Types' /\ Strobes'
  BY <1>0, <1>3 DEF IInv, ControllerInv, Types, Strobes
<1>5. CmdShape' /\ DatShape'
  BY <1>0, <1>1 DEF IInv, ControllerInv, CmdShape, DatShape, Shaped
<1>6. Commanded' /\ Answered'
  BY <1>0, <1>1, <1>3 DEF IInv, ControllerInv, Commanded, Answered, Taken
<1>7. FlagsInv'
  BY <1>0, <1>1, <1>2 DEF IInv, ControllerInv, FlagsInv
<1>8. FirstInv' /\ FlowInv' /\ AbortInv' /\ SelectInv' /\ CidInv'
  BY <1>0, <1>1 DEF IInv, ControllerInv, FirstInv, FlowInv, AbortInv, SelectInv, CidInv
<1>9. StopInv'
  BY <1>0, <1>1, <1>2 DEF IInv, ControllerInv, StopInv
<1>10. During(call, loop, todo, irq, blocks) => During(call, loop, todo, irq, blocks)'
  <2> SUFFICES ASSUME During(call, loop, todo, irq, blocks)
               PROVE  During(call, loop, todo, irq, blocks)'
    OBVIOUS
  <2>1. Quits(todo)' <=> Quits(todo)
    <3>1. Acked(todo)' = Acked(todo)
      BY <1>0 DEF Acked, Acks, Ops
    <3> DEFINE a == Acked(todo)
    <3> HIDE DEF a
    <3>2. a' = a
      BY <3>1 DEF a
    <3>3. (Rests /\ dat.state = "IDLE" /\ ctrl \ {"CRCERR"} \subseteq a
           /\ (Sd!Rose("idle_cmd") => "CMD_DONE" \in a)
                /\ (Sd!Rose("idle_dat") => "DAT_DONE" \in a))'
          <=> (Rests /\ dat.state = "IDLE" /\ ctrl \ {"CRCERR"} \subseteq a
           /\ (Sd!Rose("idle_cmd") => "CMD_DONE" \in a)
                /\ (Sd!Rose("idle_dat") => "DAT_DONE" \in a))
      BY <1>0, <1>1, <1>2, <3>2
    <3> QED BY <3>3 DEF Quits, a
  <2>2. Which(call, blocks)' /\ Legal(call, todo, blocks)'
    BY <1>0, <1>1 DEF During, Which, Legal, Ops
  <2>3. ReadBlockInv(call, todo, irq)' /\ CidLoop(call, todo, irq)' /\ ResetInv(call, todo, irq)'
    BY <1>0, <1>1, <2>1 DEF During, ReadBlockInv, CidLoop, ResetInv, Ops
  <2>4. StopDone(call, loop, todo, irq)'
    BY <1>0, <1>1 DEF During, StopDone, Acked, Acks, Ops
  <2>5. ReadBlocksInv(call, loop, todo, irq)'
    BY <1>0, <1>1, <2>1 DEF During, ReadBlocksInv, Acked, Acks, Ops
  <2>6. WriteBlocksInv(call, loop, todo, irq)'
    BY <1>0, <1>1, <1>2, <2>1 DEF During, WriteBlocksInv, Acked, Acks, Ops
  <2>7. SelectLoops(call, loop, todo, irq)' /\ BusyAwaited(call)'
    BY <1>0, <1>1, <2>1 DEF During, SelectLoops, BusyAwaited, Acked, Acks, Ops
  <2>8. RespInv(call)'
    BY <1>0, <1>1, <1>2 DEF During, RespInv, ReadSoFar, Taken, Cut, KindOf
  <2> QED BY <2>2, <2>3, <2>4, <2>5, <2>6, <2>7, <2>8 DEF During
<1>11. DriverTypes'
  BY <1>0 DEF IInv, DriverInv, DriverTypes, Plan, Ordered, Commands
<1>12. (Starting' <=> Starting) /\ (Resetting' <=> Resetting) /\ (Handling' <=> Handling)
  BY <1>0 DEF Starting, Resetting, Handling, Ops
<1>13. DriverInv'
  BY <1>0, <1>1, <1>10, <1>11, <1>12 DEF IInv, DriverInv
<1> QED BY <1>4, <1>5, <1>6, <1>7, <1>8, <1>9, <1>13 DEF IInv, ControllerInv

(* The invariant holds in every state, as long as a card does not start a  *)
(* block before its response is over.                                      *)
THEOREM Invariance ==
  ASSUME ~EarlyData
  PROVE  Spec => []IInv
<1>1. Init => IInv
  BY InitInv
<1>2. IInv /\ [Next]_vars => IInv'
  BY NextInv, StutterInv
<1> QED BY <1>1, <1>2, PTL DEF Spec

-----------------------------------------------------------------------------
(* What follows from it. *)

(* The registers of the controller, the place of the card in a command and *)
(* the registers of the driver stay in their ranges.                       *)
THEOREM TypeCorrect ==
  ASSUME ~EarlyData
  PROVE  Spec => []TypeOK
<1>1. ASSUME IInv PROVE TypeOK
  <2>0. Types /\ DriverTypes /\ CmdShape
    BY <1>1 DEF IInv, ControllerInv, DriverInv
  <2>1. cmd.bit \in 0 .. (IF CmdBits > RespBits THEN CmdBits ELSE RespBits) - 1
    <3>1. /\ cmd.bit \in Nat /\ cmd.state \in CmdStates
      BY <2>0 DEF Types, CmdRecord
    <3>2. cmd.state = "WAIT_RESP" => cmd.bit < RespBits
      <4>1. cmd.state = "WAIT_RESP" => command.rmode \in {"SHORT", "LONG"}
        BY <2>0 DEF Types, CmdShape, Active, Formed
      <4> QED BY <2>0, <4>1, Constants DEF CmdShape, Sd!FirstCount
    <3>3. /\ cmd.state \in {"WRITE", "IDLE", "TAIL"} => cmd.bit < CmdBits
          /\ cmd.state \in {"READ_RESP", "REGOUT"} => cmd.bit < RespBits
      BY <2>0, <3>1, Constants DEF CmdShape
    <3> QED BY <3>1, <3>2, <3>3, Constants DEF CmdStates
  <2>2. cmd.word \in 0 .. 5 /\ dat.word \in 0 .. Words
    BY <1>1, <2>0 DEF IInv, ControllerInv, Types, CmdRecord, DatShape, Shaped, DatRecord, WordRange
  <2>3. cmd_reg.out \in 0 .. CmdBits /\ dat_reg.out \in 0 .. Sd!BlockBits + 1
    BY <2>0 DEF Types
  <2> QED BY <2>0, <2>1, <2>2, <2>3 DEF TypeOK, Sd!TypeOK, Types, DriverTypes, Bits, BusyFlags
<1> QED BY <1>1, Invariance, PTL

(* At every edge at which the card samples a command, the controller shows *)
(* the bit that is due: the register has moved on at the falling edge      *)
(* before, and the two count the same bits.                                *)
THEOREM CommandsAligned ==
  ASSUME ~EarlyData
  PROVE  Spec => []CommandAligned
<1>1. ASSUME IInv, Sd!Rising, cmd.oe PROVE cmd_reg.out = rx
  <2>1. ~Risen
    BY <1>1 DEF IInv, ControllerInv, Types, Strobes, Sd!Rising, Sd!sd_clk_next, Risen
  <2>2. cmd.state = "WRITE"
    BY <1>1 DEF IInv, ControllerInv, CmdShape
  <2> QED BY <1>1, <2>1, <2>2 DEF IInv, ControllerInv, Commanded
<1>2. IInv => CommandAligned
  BY <1>1 DEF CommandAligned
<1> QED BY <1>2, Invariance, PTL

(* What the driver reads from RESP is a whole response, cut where it       *)
(* expects the cut, however late it reads.                                 *)
THEOREM ResponsesAligned ==
  ASSUME ~EarlyData
  PROVE  Spec => []ResponseAligned
<1>1. ASSUME IInv, NEW i \in DOMAIN resp, call # "none" PROVE resp[i] = Cut(KindOf(call), i)
  <2>1. resp # <<>> => During(call, loop, todo, irq, blocks)
    BY <1>1 DEF IInv, DriverInv
  <2>2. resp \in Seq(Nat) /\ DOMAIN resp = 1 .. Len(resp)
    BY <1>1 DEF IInv, DriverInv, DriverTypes
  <2>3. resp # <<>>
    BY <1>1, <2>2
  <2> QED BY <1>1, <2>1, <2>2, <2>3 DEF During, RespInv
<1>2. ASSUME IInv PROVE ResponseAligned
  BY <1>1, <1>2 DEF ResponseAligned, KindOf
<1> QED BY <1>2, Invariance, PTL

(* A call finds no flag of an earlier one. *)
THEOREM CallsStartClean ==
  ASSUME ~EarlyData
  PROVE  Spec => []CallStartsClean
<1>1. IInv => CallStartsClean
  BY DEF IInv, DriverInv, CallStartsClean, Clean
<1> QED BY <1>1, Invariance, PTL

(* SELECT returns after the card has finished what it was busy with: the   *)
(* last loop has seen both state machines at rest, and a card that is busy *)
(* keeps one of them.                                                      *)
THEOREM BusyIsRespected ==
  ASSUME ~EarlyData
  PROVE  Spec => BusyRespected
<1>1. ASSUME IInv, [Next]_vars, call = "select", call' = "none" PROVE task # "busy"
  <2>0. ControllerInv /\ DriverInv
    BY <1>1 DEF IInv
  <2>1. todo # <<>> /\ Proceed(Head(todo))
    <3>1. ~UNCHANGED vars /\ ~Tick /\ ~TimeOut /\ ~CardRests
      BY <1>1 DEF vars, driverVars, Tick, TimeOut, CardRests
    <3>2. ~\E c \in Calls : Call(c)
      BY <1>1 DEF Call
    <3> QED BY <1>1, <3>1, <3>2 DEF Next, Program
  <2> DEFINE o == Head(todo)
             rest == IF o = Poll THEN Handle ELSE Tail(todo)
  <2>2. rest = <<>> /\ LoopEnds /\ ~(loop < Loops)
    BY <1>1, <2>1 DEF Proceed
  <2>3. loop = 2 /\ Idle
    BY <1>1, <2>0, <2>2 DEF LoopEnds, Loops, Limited, DriverInv, DriverTypes
  <2>4. o # Poll
    <3>1. ASSUME o = Poll PROVE FALSE
      <4>1. Handle = TurnOff({"DAT_DONE"})
        BY <1>1, <2>3 DEF Handle, Limited
      <4>2. TurnOff({"DAT_DONE"}) # <<>>
        BY DEF TurnOff
      <4> QED BY <2>2, <3>1, <4>1, <4>2
    <3> QED BY <3>1
  <2>5. ~Starting /\ Poll \notin Ops(todo)
    <3>1. Tail(todo) = <<>>
      BY <2>2, <2>4
    <3>2. ~Starting
      BY <2>0, <2>3 DEF DriverInv
    <3> QED BY <2>0, <2>1, <2>4, <3>1, <3>2, Shapes DEF Handling
  <2>6. During(call, loop, todo, irq, blocks) /\ irq \cap BusyFlags = {}
    BY <1>1, <2>0, <2>3, <2>4, <2>5 DEF DriverInv, Idle, Flags, BusyFlags
  <2>7. Rests /\ dat.state = "IDLE"
    BY <1>1, <2>3, <2>5, <2>6 DEF During, SelectLoops, Quits
  <2>8. ~Active /\ ~cmd.start_dat
    BY <2>0, <2>7 DEF Rests, Active, ControllerInv, CmdShape
  <2> QED BY <1>1, <2>6, <2>7, <2>8 DEF During, BusyAwaited
<1>2. IInv /\ [Next]_vars => [call = "select" /\ call' = "none" => task # "busy"]_vars
  BY <1>1
<1> QED BY <1>2, Invariance, PTL DEF Spec, BusyRespected
=============================================================================
