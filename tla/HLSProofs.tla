----------------------------- MODULE HLSProofs -----------------------------
(***************************************************************************)
(* Proofs about an HLS block, its control bus and its clients, for any     *)
(* number of clients and any programs.  First what the bus guarantees: one *)
(* write and one read at a time, each of one client.  From this a lemma    *)
(* says what one clock edge does to the registers in terms of the calls    *)
(* that read or write them; the rest follows from it.                      *)
(***************************************************************************)
EXTENDS HLSEvents, TLAPS

Reads(c) == Driver!Reads(cpu[c].call)
Writes(c) == Driver!Writes(cpu[c].call)
Busy == {"writing", "responding"}

(* Who is on the bus. *)
ClientOK(c) ==
    /\ cpu[c].stage # "away" => cpu[c].call \in Program[c]
    /\ cpu[c].stage = "reading" => Reads(c) # None /\ bus.rstate = "RDDATA"
    /\ cpu[c].stage = "toWrite" => Reads(c) # None /\ Writes(c) # None
    /\ cpu[c].stage \in Busy => Writes(c) # None
    /\ cpu[c].stage = "writing" => bus.wstate = "WRDATA" /\ bus.waddr = Writes(c)
    /\ cpu[c].stage = "responding" => bus.wstate = "WRRESP"

BusInv ==
    /\ TypeOK
    /\ bus.rstate = "RDDATA" => bus.rdata # None
    /\ bus.wstate = "WRDATA" => \E c \in Clients : cpu[c].stage = "writing"
    /\ \A c \in Clients : ClientOK(c)
    /\ \A c, d \in Clients :
        \/ cpu[c].stage \in Busy /\ cpu[d].stage \in Busy
        \/ cpu[c].stage = "reading" /\ cpu[d].stage = "reading"
        => c = d
-----------------------------------------------------------------------------
(* A client calls x, which begins with stage.                              *)
Enters(c, x, stage) ==
    /\ cpu[c].stage = "away" /\ x \in Program[c]
    /\ Careful => /\ x.fn \in {"Start", "Set"} => cpu[c].free
                  /\ x.fn = "InterruptClear" => x.val \subseteq cpu[c].status
    /\ cpu'[c].call = x /\ cpu'[c].stage = stage /\ cpu'[c].word = {}
    /\ cpu'[c].free = (cpu[c].free /\ x.fn # "Start")
    /\ cpu'[c].status = IF x.fn = "InterruptClear" THEN cpu[c].status \ x.val ELSE cpu[c].status

Leaves(c, word) ==
    /\ cpu'[c].call = None /\ cpu'[c].stage = "away" /\ cpu'[c].word = {}
    /\ cpu'[c].free = (cpu[c].free \/ Driver!Says(cpu[c].call, word))
    /\ cpu'[c].status = IF cpu[c].call.fn = "InterruptGetStatus" THEN word ELSE cpu[c].status

BeginsRead(c, x) == Enters(c, x, "reading") /\ Driver!Reads(x) # None
BeginsWrite(c, x) == Enters(c, x, "writing") /\ Driver!Reads(x) = None
Turns(c) ==
    /\ cpu[c].stage = "reading" /\ Writes(c) # None
    /\ cpu'[c] = [cpu[c] EXCEPT !.stage = "toWrite", !.word = bus.rdata]
GoesOn(c) == cpu[c].stage = "toWrite" /\ cpu'[c] = [cpu[c] EXCEPT !.stage = "writing"]
Hands(c) == cpu[c].stage = "writing" /\ cpu'[c] = [cpu[c] EXCEPT !.stage = "responding"]
EndsRead(c) == cpu[c].stage = "reading" /\ Writes(c) = None /\ Leaves(c, bus.rdata)
EndsWrite(c) == cpu[c].stage = "responding" /\ Leaves(c, {})

(* What a client does in a cycle, and what it does to the wires.           *)
Acts(c, m) ==
    \/ \E x \in Program[c] : /\ BeginsRead(c, x) /\ bus.rstate = "RDIDLE"
                             /\ m.read # None /\ m.read = [client |-> c, call |-> x]
    \/ \E x \in Program[c] : /\ BeginsWrite(c, x) /\ bus.wstate = "WRIDLE"
                             /\ m.write # None /\ m.write = [client |-> c, call |-> x]
    \/ GoesOn(c) /\ bus.wstate = "WRIDLE" /\ m.write # None /\ m.write = [client |-> c, call |-> cpu[c].call]
    \/ m.take /\ (Turns(c) \/ EndsRead(c))
    \/ m.go /\ (Hands(c) \/ EndsWrite(c))
    \/ /\ cpu'[c] = cpu[c]
       /\ m.read # None => m.read.client # c
       /\ m.write # None => m.write.client # c
       /\ m.take => cpu[c].stage # "reading"
       /\ m.go => cpu[c].stage \notin Busy

LEMMA Constants ==
    /\ \A c \in Clients : Program[c] \subseteq Driver!Calls
    /\ None \notin Ctrl!Addrs /\ \A w \in SUBSET Bits : w # None
    /\ Ctrl!Words = SUBSET Bits
    /\ \A c \in Clients : \A x \in Program[c] :
        /\ x # None
        /\ Driver!Reads(x) # None \/ Driver!Writes(x) # None
        /\ Driver!Reads(x) # None => Driver!Reads(x) \in Ctrl!Addrs
        /\ Driver!Writes(x) # None => Driver!Writes(x) \in Ctrl!Addrs
        /\ \A word \in SUBSET Bits : Driver!Written(x, word) \in SUBSET Bits
  <1>1. \A c \in Clients : Program[c] \subseteq Driver!Calls
    BY DEF Driver!Calls
  <1>2. Ctrl!Words = SUBSET Bits
    BY DEF Ctrl!Words
  <1>3. \A x \in Driver!Calls :
            /\ x # None
            /\ Driver!Reads(x) # None \/ Driver!Writes(x) # None
            /\ Driver!Reads(x) # None => Driver!Reads(x) \in Ctrl!Addrs
            /\ Driver!Writes(x) # None => Driver!Writes(x) \in Ctrl!Addrs
    BY HLSTopAssumption DEF Driver!Reads, Driver!Writes, Ctrl!Addrs
  <1>4. \A x \in Driver!Calls : \A word \in SUBSET Bits : Driver!Written(x, word) \in SUBSET Bits
    BY HLSTopAssumption DEF Driver!Written
  <1>5. QED
    BY <1>1, <1>2, <1>3, <1>4, HLSTopAssumption

(* The moves that are offered.                                             *)
LEMMA MoveFacts ==
    ASSUME NEW m \in Moves
    PROVE  /\ m.take \in BOOLEAN /\ m.go \in BOOLEAN
           /\ m.take => bus.rstate = "RDDATA"
           /\ m.go => bus.wstate \in {"WRDATA", "WRRESP"}
           /\ m.read # None => /\ bus.rstate = "RDIDLE"
                               /\ \E c \in Clients : \E x \in Driver!Menu(c) :
                                    /\ m.read = [client |-> c, call |-> x]
                                    /\ cpu[c].stage = "away" /\ Driver!Reads(x) # None
           /\ m.write # None => /\ bus.wstate = "WRIDLE"
                                /\ \E c \in Clients :
                                    \/ cpu[c].stage = "toWrite" /\ m.write = [client |-> c, call |-> cpu[c].call]
                                    \/ \E x \in Driver!Menu(c) :
                                        /\ m.write = [client |-> c, call |-> x]
                                        /\ cpu[c].stage = "away" /\ Driver!Reads(x) = None
           /\ m.read # None /\ m.write # None => m.read.client # m.write.client
  <1>1. /\ m.read \in {None} \cup (IF bus.rstate = "RDIDLE" THEN Driver!ReadOffers ELSE {})
        /\ m.write \in {None} \cup (IF bus.wstate = "WRIDLE" THEN Driver!WriteOffers ELSE {})
        /\ m.take \in IF bus.rstate = "RDDATA" THEN BOOLEAN ELSE {FALSE}
        /\ m.go \in IF bus.wstate \in {"WRDATA", "WRRESP"} THEN BOOLEAN ELSE {FALSE}
        /\ m.read # None /\ m.write # None => m.read.client # m.write.client
    BY DEF Moves, Driver!Moves
  <1>2. \A r \in Driver!ReadOffers : \E c \in Clients : \E x \in Driver!Menu(c) :
            /\ r = [client |-> c, call |-> x] /\ cpu[c].stage = "away" /\ Driver!Reads(x) # None
    BY DEF Driver!ReadOffers, Driver!Accesses
  <1>3. \A w \in Driver!WriteOffers : \E c \in Clients :
            \/ cpu[c].stage = "toWrite" /\ w = [client |-> c, call |-> cpu[c].call]
            \/ \E x \in Driver!Menu(c) :
                /\ w = [client |-> c, call |-> x] /\ cpu[c].stage = "away" /\ Driver!Reads(x) = None
    BY DEF Driver!WriteOffers, Driver!Accesses
  <1>4. QED
    BY <1>1, <1>2, <1>3

LEMMA Acting ==
    ASSUME TypeOK, NEW m \in Moves, Driver!Next(m, bus.rdata), NEW c \in Clients
    PROVE  Acts(c, m)
  <1> DEFINE p == cpu[c]
  <1>1. /\ p \in [call: {None} \cup Driver!Calls, stage: Driver!Stages, word: SUBSET Bits,
                  free: BOOLEAN, status: SUBSET Bits]
        /\ p.stage \in {"away", "reading", "toWrite", "writing", "responding"}
    BY DEF TypeOK, Driver!Cpus, Driver!Stages
  <1>2. cpu'[c] =
            CASE m.read # None /\ m.read.client = c ->
                    [Driver!Entered(p, m.read.call) EXCEPT !.stage = "reading"]
              [] m.write # None /\ m.write.client = c ->
                    IF p.stage = "toWrite" THEN [p EXCEPT !.stage = "writing"]
                    ELSE [Driver!Entered(p, m.write.call) EXCEPT !.stage = "writing"]
              [] p.stage = "reading" /\ m.take ->
                    IF Driver!Writes(p.call) = None THEN Driver!Returned(p, bus.rdata)
                    ELSE [p EXCEPT !.stage = "toWrite", !.word = bus.rdata]
              [] p.stage = "writing" /\ m.go -> [p EXCEPT !.stage = "responding"]
              [] p.stage = "responding" /\ m.go -> Driver!Returned(p, {})
              [] OTHER -> p
    BY DEF Driver!Next
  <1>3. ASSUME NEW x, NEW stage, cpu'[c] = [Driver!Entered(p, x) EXCEPT !.stage = stage]
        PROVE  /\ cpu'[c].call = x /\ cpu'[c].stage = stage /\ cpu'[c].word = {}
               /\ cpu'[c].free = (p.free /\ x.fn # "Start")
               /\ cpu'[c].status = IF x.fn = "InterruptClear" THEN p.status \ x.val ELSE p.status
    BY <1>1, <1>3 DEF Driver!Entered
  <1>4. ASSUME NEW word, cpu'[c] = Driver!Returned(p, word) PROVE Leaves(c, word)
    BY <1>1, <1>4 DEF Driver!Returned, Leaves
  <1>5. ASSUME NEW x \in Driver!Menu(c)
        PROVE  /\ x \in Program[c]
               /\ Careful => /\ x.fn \in {"Start", "Set"} => p.free
                             /\ x.fn = "InterruptClear" => x.val \subseteq p.status
    BY DEF Driver!Menu
  <1>6. CASE m.read # None /\ m.read.client = c
    <2>1. PICK x \in Driver!Menu(c) : /\ m.read = [client |-> c, call |-> x] /\ bus.rstate = "RDIDLE"
                                      /\ p.stage = "away" /\ Driver!Reads(x) # None
      <3>1. PICK d \in Clients : \E x \in Driver!Menu(d) :
                /\ m.read = [client |-> d, call |-> x]
                /\ cpu[d].stage = "away" /\ Driver!Reads(x) # None
        BY <1>6, MoveFacts
      <3>2. m.read.client = d
        BY <3>1
      <3>3. QED
        BY <1>6, <3>1, <3>2, MoveFacts
    <2>2. ~(m.write # None /\ m.write.client = c)
      BY <1>6, MoveFacts
    <2>3. cpu'[c] = [Driver!Entered(p, x) EXCEPT !.stage = "reading"]
      BY <1>2, <1>6, <2>1, <2>2
    <2>4. /\ cpu'[c].call = x /\ cpu'[c].stage = "reading" /\ cpu'[c].word = {}
          /\ cpu'[c].free = (p.free /\ x.fn # "Start")
          /\ cpu'[c].status = IF x.fn = "InterruptClear" THEN p.status \ x.val ELSE p.status
      BY <1>3, <2>3
    <2>5. BeginsRead(c, x)
      BY <1>5, <2>1, <2>4 DEF BeginsRead, Enters
    <2>6. QED
      BY <1>5, <1>6, <2>1, <2>5 DEF Acts
  <1>7. CASE m.write # None /\ m.write.client = c
    <2>1. /\ ~(m.read # None /\ m.read.client = c) /\ bus.wstate = "WRIDLE"
          /\ \/ p.stage = "toWrite" /\ m.write = [client |-> c, call |-> p.call]
             \/ \E x \in Driver!Menu(c) : /\ m.write = [client |-> c, call |-> x]
                                          /\ p.stage = "away" /\ Driver!Reads(x) = None
      <3>1. PICK d \in Clients :
                \/ cpu[d].stage = "toWrite" /\ m.write = [client |-> d, call |-> cpu[d].call]
                \/ \E x \in Driver!Menu(d) :
                    /\ m.write = [client |-> d, call |-> x]
                    /\ cpu[d].stage = "away" /\ Driver!Reads(x) = None
        BY <1>7, MoveFacts
      <3>2. m.write.client = d
        <4>1. PICK y : m.write = [client |-> d, call |-> y]
          BY <3>1
        <4>2. QED
          BY <4>1
      <3>3. QED
        BY <1>7, <3>1, <3>2, MoveFacts
    <2>2. CASE p.stage = "toWrite"
      <3>1. cpu'[c] = [p EXCEPT !.stage = "writing"]
        <4>1. cpu'[c] = IF p.stage = "toWrite" THEN [p EXCEPT !.stage = "writing"]
                        ELSE [Driver!Entered(p, m.write.call) EXCEPT !.stage = "writing"]
          BY <1>2, <1>7, <2>1
        <4>2. QED
          BY <2>2, <4>1
      <3>2. m.write = [client |-> c, call |-> p.call]
        BY <2>1, <2>2
      <3>3. QED
        BY <1>7, <2>1, <2>2, <3>1, <3>2 DEF Acts, GoesOn
    <2>3. CASE p.stage # "toWrite"
      <3>1. PICK x \in Driver!Menu(c) : /\ m.write = [client |-> c, call |-> x]
                                        /\ p.stage = "away" /\ Driver!Reads(x) = None
        BY <2>1, <2>3
      <3>2. cpu'[c] = [Driver!Entered(p, x) EXCEPT !.stage = "writing"]
        BY <1>2, <1>7, <2>1, <2>3, <3>1
      <3>3. /\ cpu'[c].call = x /\ cpu'[c].stage = "writing" /\ cpu'[c].word = {}
            /\ cpu'[c].free = (p.free /\ x.fn # "Start")
            /\ cpu'[c].status = IF x.fn = "InterruptClear" THEN p.status \ x.val ELSE p.status
        BY <1>3, <3>2
      <3>4. BeginsWrite(c, x)
        BY <1>5, <3>1, <3>3 DEF BeginsWrite, Enters
      <3>5. QED
        BY <1>5, <1>7, <2>1, <3>1, <3>4 DEF Acts
    <2>4. QED
      BY <2>2, <2>3
  <1>8. CASE ~(m.read # None /\ m.read.client = c) /\ ~(m.write # None /\ m.write.client = c)
    <2>1. CASE p.stage = "reading" /\ m.take
      <3>1. cpu'[c] = IF Driver!Writes(p.call) = None THEN Driver!Returned(p, bus.rdata)
                      ELSE [p EXCEPT !.stage = "toWrite", !.word = bus.rdata]
        BY <1>2, <1>8, <2>1
      <3>2. QED
        BY <1>4, <2>1, <3>1 DEF Acts, Turns, EndsRead, Writes
    <2>2. CASE p.stage = "writing" /\ m.go
      <3>1. cpu'[c] = [p EXCEPT !.stage = "responding"]
        BY <1>2, <1>8, <2>2
      <3>2. QED
        BY <2>2, <3>1 DEF Acts, Hands
    <2>3. CASE p.stage = "responding" /\ m.go
      <3>1. cpu'[c] = Driver!Returned(p, {})
        BY <1>2, <1>8, <2>3
      <3>2. QED
        BY <1>4, <2>3, <3>1 DEF Acts, EndsWrite
    <2>4. CASE ~(p.stage = "reading" /\ m.take) /\ ~(p.stage = "writing" /\ m.go)
               /\ ~(p.stage = "responding" /\ m.go)
      <3>1. cpu'[c] = p
        BY <1>2, <1>8, <2>4
      <3>2. QED
        BY <1>8, <2>4, <3>1 DEF Acts, Busy
    <2>5. QED
      BY <2>1, <2>2, <2>3, <2>4
  <1>9. QED
    BY <1>6, <1>7, <1>8
(* The wires of a cycle, from what the clients do.                         *)
LEMMA Wires ==
    ASSUME BusInv, NEW m \in Moves, Driver!Next(m, bus.rdata)
    PROVE  LET in == Driver!Wires(m, bus.wstate) IN
           /\ \A c \in Clients : Hands(c) =>
                /\ bus.wstate = "WRDATA" /\ bus.waddr = Writes(c) /\ in.w # None
                /\ in.w = Driver!Written(cpu[c].call, cpu[c].word)
           /\ Ctrl!wHs(in) => \E c \in Clients : Hands(c)
           /\ \A c \in Clients : GoesOn(c) =>
                Ctrl!awHs(in) /\ in.aw = Writes(c) /\ m.write.client = c
           /\ \A c \in Clients : \A x \in Program[c] : BeginsWrite(c, x) =>
                Ctrl!awHs(in) /\ in.aw = Driver!Writes(x) /\ m.write.client = c
           /\ Ctrl!awHs(in) => \E c \in Clients : GoesOn(c) \/ \E x \in Program[c] : BeginsWrite(c, x)
           /\ \A c \in Clients : \A x \in Program[c] : BeginsRead(c, x) =>
                Ctrl!arHs(in) /\ in.ar = Driver!Reads(x) /\ m.read.client = c
           /\ Ctrl!arHs(in) => \E c \in Clients : \E x \in Program[c] : BeginsRead(c, x)
           /\ \A c \in Clients : EndsWrite(c) => in.bready
           /\ in.bready => \A c \in Clients : cpu[c].stage = "responding" => EndsWrite(c)
           /\ in.rready => \A c \in Clients : cpu[c].stage = "reading" => Turns(c) \/ EndsRead(c)
           /\ \A c \in Clients : Turns(c) \/ EndsRead(c) => in.rready
  <1> DEFINE in == Driver!Wires(m, bus.wstate)
  <1>1. /\ in.ar = IF m.read = None THEN None ELSE Driver!Reads(m.read.call)
        /\ in.aw = IF m.write = None THEN None ELSE Driver!Writes(m.write.call)
        /\ in.w = IF m.go /\ bus.wstate = "WRDATA" THEN Driver!Word ELSE None
        /\ in.rready = m.take /\ in.bready = (m.go /\ bus.wstate = "WRRESP")
    BY DEF Driver!Wires
  <1>2. \A c \in Clients : Acts(c, m)
    BY Acting DEF BusInv
  <1>3. \A c \in Clients : cpu[c].stage \in {"away", "reading", "toWrite", "writing", "responding"}
    BY DEF BusInv, TypeOK, Driver!Cpus, Driver!Stages
  <1>4. ASSUME NEW c \in Clients, cpu[c].stage = "writing"
        PROVE  /\ bus.wstate = "WRDATA" /\ bus.waddr = Writes(c)
               /\ Driver!Word = Driver!Written(cpu[c].call, cpu[c].word)
               /\ Driver!Written(cpu[c].call, cpu[c].word) \in SUBSET Bits
    <2>1. \A d \in Clients : cpu[d].stage = "writing" => d = c
      BY <1>4 DEF BusInv, Busy
    <2>2. c = CHOOSE d \in Clients : cpu[d].stage = "writing"
      BY <1>4, <2>1
    <2>3. cpu[c].call \in Program[c] /\ cpu[c].word \in SUBSET Bits
      BY <1>4 DEF BusInv, ClientOK, TypeOK, Driver!Cpus
    <2>4. QED
      BY <1>4, <2>2, <2>3, Constants DEF Driver!Word, BusInv, ClientOK
  <1>5. ASSUME NEW c \in Clients, Hands(c)
        PROVE  /\ bus.wstate = "WRDATA" /\ bus.waddr = Writes(c) /\ in.w # None
               /\ in.w = Driver!Written(cpu[c].call, cpu[c].word)
    <2>1. cpu[c].stage = "writing" /\ cpu'[c] # cpu[c]
      BY <1>5 DEF Hands, BusInv, TypeOK, Driver!Cpus
    <2>2. m.go
      BY <1>2, <2>1 DEF Acts, BeginsRead, BeginsWrite, Enters, GoesOn, Turns, EndsRead
    <2>3. QED
      BY <1>1, <1>4, <2>1, <2>2, Constants
  <1>6. ASSUME Ctrl!wHs(in) PROVE \E c \in Clients : Hands(c)
    <2>1. m.go /\ bus.wstate = "WRDATA"
      BY <1>1, <1>6 DEF Ctrl!wHs
    <2>2. PICK c \in Clients : cpu[c].stage = "writing"
      BY <2>1 DEF BusInv
    <2>3. Hands(c)
      BY <1>2, <2>1, <2>2 DEF Acts, BeginsRead, BeginsWrite, Enters, GoesOn, Turns, EndsRead, EndsWrite, Busy
    <2>4. QED
      BY <2>3
  <1>7. ASSUME NEW c \in Clients, GoesOn(c)
        PROVE  Ctrl!awHs(in) /\ in.aw = Writes(c) /\ m.write.client = c
    <2>1. cpu[c].stage = "toWrite" /\ cpu'[c] # cpu[c] /\ Writes(c) # None
      BY <1>7 DEF GoesOn, BusInv, TypeOK, Driver!Cpus, ClientOK
    <2>2. bus.wstate = "WRIDLE" /\ m.write # None /\ m.write = [client |-> c, call |-> cpu[c].call]
      BY <1>2, <2>1 DEF Acts, BeginsRead, BeginsWrite, Enters, Turns, EndsRead, Hands, EndsWrite
    <2>3. QED
      BY <1>1, <2>1, <2>2 DEF Ctrl!awHs, Writes
  <1>8. ASSUME NEW c \in Clients, NEW x \in Program[c], BeginsWrite(c, x)
        PROVE  Ctrl!awHs(in) /\ in.aw = Driver!Writes(x) /\ m.write.client = c
    <2>1. cpu[c].stage = "away" /\ cpu'[c].stage = "writing" /\ cpu'[c].call = x /\ Driver!Reads(x) = None
      BY <1>8 DEF BeginsWrite, Enters
    <2>2. \E y \in Program[c] : /\ BeginsWrite(c, y) /\ bus.wstate = "WRIDLE"
                                /\ m.write # None /\ m.write = [client |-> c, call |-> y]
      BY <1>2, <2>1 DEF Acts, BeginsRead, Enters, GoesOn, Turns, EndsRead, Hands, EndsWrite
    <2>3. bus.wstate = "WRIDLE" /\ m.write # None /\ m.write = [client |-> c, call |-> x]
      BY <2>1, <2>2 DEF BeginsWrite, Enters
    <2>4. QED
      BY <1>1, <2>1, <2>3, Constants DEF Ctrl!awHs
  <1>9. ASSUME Ctrl!awHs(in)
        PROVE  \E c \in Clients : GoesOn(c) \/ \E x \in Program[c] : BeginsWrite(c, x)
    <2>1. m.write # None
      BY <1>1, <1>9 DEF Ctrl!awHs
    <2>2. PICK c \in Clients : m.write.client = c
      <3>1. PICK d \in Clients : \E y : m.write = [client |-> d, call |-> y]
        BY <2>1, MoveFacts
      <3>2. QED
        BY <3>1
    <2>3. m.read # None => m.read.client # c
      BY <2>1, <2>2, MoveFacts
    <2>4. cpu[c].stage \in {"away", "toWrite"}
      <3>1. PICK d \in Clients : /\ cpu[d].stage \in {"away", "toWrite"}
                                 /\ \E y : m.write = [client |-> d, call |-> y]
        BY <2>1, MoveFacts
      <3>2. d = c
        BY <2>2, <3>1
      <3>3. QED
        BY <3>1, <3>2
    <2>5. \A x : ~(m.read # None /\ m.read = [client |-> c, call |-> x])
      BY <2>3
    <2>6. Acts(c, m)
      BY <1>2
    <2>7. QED
      BY <2>1, <2>2, <2>4, <2>5, <2>6 DEF Acts, Turns, EndsRead, Hands, EndsWrite
  <1>10. ASSUME NEW c \in Clients, NEW x \in Program[c], BeginsRead(c, x)
         PROVE  Ctrl!arHs(in) /\ in.ar = Driver!Reads(x) /\ m.read.client = c
    <2>1. cpu[c].stage = "away" /\ cpu'[c].stage = "reading" /\ cpu'[c].call = x /\ Driver!Reads(x) # None
      BY <1>10 DEF BeginsRead, Enters
    <2>2. \E y \in Program[c] : /\ BeginsRead(c, y) /\ bus.rstate = "RDIDLE"
                                /\ m.read # None /\ m.read = [client |-> c, call |-> y]
      BY <1>2, <2>1 DEF Acts, BeginsWrite, Enters, GoesOn, Turns, EndsRead, Hands, EndsWrite
    <2>3. bus.rstate = "RDIDLE" /\ m.read # None /\ m.read = [client |-> c, call |-> x]
      BY <2>1, <2>2 DEF BeginsRead, Enters
    <2>4. QED
      BY <1>1, <2>1, <2>3 DEF Ctrl!arHs
  <1>11. ASSUME Ctrl!arHs(in)
         PROVE  \E c \in Clients : \E x \in Program[c] : BeginsRead(c, x)
    <2>1. m.read # None
      BY <1>1, <1>11 DEF Ctrl!arHs
    <2>2. PICK c \in Clients : m.read.client = c /\ cpu[c].stage = "away"
      <3>1. PICK d \in Clients : cpu[d].stage = "away" /\ \E y : m.read = [client |-> d, call |-> y]
        BY <2>1, MoveFacts
      <3>2. QED
        BY <3>1
    <2>3. m.write # None => m.write.client # c
      BY <2>1, <2>2, MoveFacts
    <2>4. \A x : ~(m.write # None /\ m.write = [client |-> c, call |-> x])
      BY <2>3
    <2>5. Acts(c, m)
      BY <1>2
    <2>6. QED
      BY <2>1, <2>2, <2>4, <2>5 DEF Acts, Turns, EndsRead, Hands, EndsWrite, GoesOn
  <1>12. ASSUME NEW c \in Clients, EndsWrite(c) PROVE in.bready
    <2>1. cpu[c].stage = "responding" /\ cpu'[c].stage = "away" /\ bus.wstate = "WRRESP"
      BY <1>12 DEF EndsWrite, Leaves, BusInv, ClientOK
    <2>2. m.go
      BY <1>2, <2>1 DEF Acts, BeginsRead, BeginsWrite, Enters, GoesOn, Turns, EndsRead
    <2>3. QED
      BY <1>1, <2>1, <2>2
  <1>13. ASSUME in.bready, NEW c \in Clients, cpu[c].stage = "responding" PROVE EndsWrite(c)
    BY <1>1, <1>2, <1>13 DEF Acts, BeginsRead, BeginsWrite, Enters, GoesOn, Turns, EndsRead, Hands, Busy
  <1>14. ASSUME in.rready, NEW c \in Clients, cpu[c].stage = "reading" PROVE Turns(c) \/ EndsRead(c)
    BY <1>1, <1>2, <1>14 DEF Acts, BeginsRead, BeginsWrite, Enters, GoesOn, Hands, EndsWrite
  <1>15. ASSUME NEW c \in Clients, Turns(c) \/ EndsRead(c) PROVE in.rready
    <2>1. cpu[c].stage = "reading" /\ cpu'[c].stage # "reading"
      BY <1>15 DEF Turns, EndsRead, Leaves, BusInv, TypeOK, Driver!Cpus
    <2>2. QED
      BY <1>1, <1>2, <2>1 DEF Acts, BeginsRead, BeginsWrite, Enters, GoesOn, Hands, EndsWrite
  <1>16. QED
    BY <1>5, <1>6, <1>7, <1>8, <1>9, <1>10, <1>11, <1>12, <1>13, <1>14, <1>15
-----------------------------------------------------------------------------
(* The types.                                                              *)
LEMMA AnswerOK == ASSUME TypeOK, NEW a PROVE Ctrl!Answer(a) \in SUBSET Bits
  <1>1. {0, 1, 2, 3, 7} \subseteq Bits /\ Ctrl!Words = SUBSET Bits
    BY HLSTopAssumption, Constants
  <1>2. /\ ier \subseteq {0, 1} /\ isr \subseteq {0, 1} /\ result.val \in SUBSET Bits
        /\ \A r \in Ctrl!DataRegs : data[r] \in SUBSET Bits
    BY <1>1 DEF TypeOK, Ctrl!BusTypeOK, Ctrl!Channels
  <1>3. QED
    BY <1>1, <1>2 DEF Ctrl!Answer

LEMMA EnteredTyped ==
    ASSUME NEW p \in Driver!Cpus, NEW x \in Driver!Calls, NEW stage \in Driver!Stages
    PROVE  [Driver!Entered(p, x) EXCEPT !.stage = stage] \in Driver!Cpus
  BY DEF Driver!Entered, Driver!Cpus

LEMMA ReturnedTyped ==
    ASSUME NEW p \in Driver!Cpus, NEW word \in SUBSET Bits
    PROVE  Driver!Returned(p, word) \in Driver!Cpus
  <1>1. Driver!Says(p.call, word) \in BOOLEAN
    BY DEF Driver!Says
  <1>2. QED
    BY <1>1 DEF Driver!Returned, Driver!Cpus, Driver!Stages

LEMMA CpusTyped ==
    ASSUME BusInv, NEW m \in Moves, Driver!Next(m, bus.rdata)
    PROVE  cpu' \in [Clients -> Driver!Cpus]
  <1> SUFFICES ASSUME NEW c \in Clients PROVE cpu'[c] \in Driver!Cpus
    BY DEF Driver!Next
  <1> DEFINE p == cpu[c]
  <1>1. p \in Driver!Cpus
    BY DEF BusInv, TypeOK
  <1>2. {} \in SUBSET Bits /\ "reading" \in Driver!Stages /\ "writing" \in Driver!Stages
        /\ "toWrite" \in Driver!Stages /\ "responding" \in Driver!Stages
    BY DEF Driver!Stages
  <1>3. p.stage = "reading" => bus.rdata \in SUBSET Bits
    BY Constants DEF BusInv, ClientOK, TypeOK, Ctrl!BusTypeOK
  <1>4. ASSUME m.read # None PROVE m.read.call \in Driver!Calls
    <2>1. PICK d \in Clients : \E x \in Program[d] : m.read = [client |-> d, call |-> x]
      BY <1>4, MoveFacts DEF Driver!Menu
    <2>2. QED
      BY <2>1, Constants
  <1>5. m.write # None /\ m.write.client = c /\ p.stage # "toWrite" => m.write.call \in Driver!Calls
    <2>1. SUFFICES ASSUME m.write # None, m.write.client = c, p.stage # "toWrite"
                   PROVE  m.write.call \in Driver!Calls
      OBVIOUS
    <2>2. PICK d \in Clients :
            \/ cpu[d].stage = "toWrite" /\ m.write = [client |-> d, call |-> cpu[d].call]
            \/ \E x \in Program[d] : m.write = [client |-> d, call |-> x]
      BY <2>1, MoveFacts DEF Driver!Menu
    <2>3. d = c
      <3>1. PICK y : m.write = [client |-> d, call |-> y]
        BY <2>2
      <3>2. QED
        BY <2>1, <3>1
    <2>4. PICK x \in Program[d] : m.write = [client |-> d, call |-> x]
      BY <2>1, <2>2, <2>3
    <2>5. QED
      BY <2>4, Constants
  <1>6. \/ m.read # None /\ cpu'[c] = [Driver!Entered(p, m.read.call) EXCEPT !.stage = "reading"]
        \/ cpu'[c] = [p EXCEPT !.stage = "writing"]
        \/ /\ m.write # None /\ m.write.client = c /\ p.stage # "toWrite"
           /\ cpu'[c] = [Driver!Entered(p, m.write.call) EXCEPT !.stage = "writing"]
        \/ p.stage = "reading" /\ cpu'[c] = Driver!Returned(p, bus.rdata)
        \/ p.stage = "reading" /\ cpu'[c] = [p EXCEPT !.stage = "toWrite", !.word = bus.rdata]
        \/ cpu'[c] = [p EXCEPT !.stage = "responding"]
        \/ cpu'[c] = Driver!Returned(p, {})
        \/ cpu'[c] = p
    <2>1. cpu'[c] =
            CASE m.read # None /\ m.read.client = c ->
                    [Driver!Entered(p, m.read.call) EXCEPT !.stage = "reading"]
              [] m.write # None /\ m.write.client = c ->
                    IF p.stage = "toWrite" THEN [p EXCEPT !.stage = "writing"]
                    ELSE [Driver!Entered(p, m.write.call) EXCEPT !.stage = "writing"]
              [] p.stage = "reading" /\ m.take ->
                    IF Driver!Writes(p.call) = None THEN Driver!Returned(p, bus.rdata)
                    ELSE [p EXCEPT !.stage = "toWrite", !.word = bus.rdata]
              [] p.stage = "writing" /\ m.go -> [p EXCEPT !.stage = "responding"]
              [] p.stage = "responding" /\ m.go -> Driver!Returned(p, {})
              [] OTHER -> p
      BY DEF Driver!Next
    <2>2. QED
      BY <2>1
  <1>7. CASE m.read # None /\ cpu'[c] = [Driver!Entered(p, m.read.call) EXCEPT !.stage = "reading"]
    BY <1>1, <1>2, <1>4, <1>7, EnteredTyped
  <1>8. CASE /\ m.write # None /\ m.write.client = c /\ p.stage # "toWrite"
             /\ cpu'[c] = [Driver!Entered(p, m.write.call) EXCEPT !.stage = "writing"]
    BY <1>1, <1>2, <1>5, <1>8, EnteredTyped
  <1>9. CASE \/ p.stage = "reading" /\ cpu'[c] = Driver!Returned(p, bus.rdata)
             \/ cpu'[c] = Driver!Returned(p, {})
    BY <1>1, <1>2, <1>3, <1>9, ReturnedTyped
  <1>10. CASE \/ cpu'[c] = [p EXCEPT !.stage = "writing"]
              \/ cpu'[c] = [p EXCEPT !.stage = "responding"]
    BY <1>1, <1>2, <1>10 DEF Driver!Cpus
  <1>11. CASE p.stage = "reading" /\ cpu'[c] = [p EXCEPT !.stage = "toWrite", !.word = bus.rdata]
    BY <1>1, <1>2, <1>3, <1>11 DEF Driver!Cpus
  <1>12. QED
    BY <1>1, <1>6, <1>7, <1>8, <1>9, <1>10, <1>11
(* The registers keep their types. *)
LEMMA RegistersTyped ==
    ASSUME BusInv, NEW m \in Moves, NEW go \in BOOLEAN, NEW finish, Edge(m, go, finish)
    PROVE  Ctrl!BusTypeOK'
  <1> DEFINE in == Driver!Wires(m, bus.wstate)
             wires == Core!Wires(go, ap.start)
  <1>1. Ctrl!Next(in, wires) /\ Driver!Next(m, bus.rdata)
    BY DEF Edge
  <1>2. Ctrl!BusTypeOK
    BY DEF BusInv, TypeOK
  <1>3. Ctrl!wHs(in) => in.w \in SUBSET Bits
    <2>1. SUFFICES ASSUME Ctrl!wHs(in) PROVE in.w \in SUBSET Bits
      OBVIOUS
    <2>2. PICK c \in Clients : Hands(c)
      BY <1>1, <2>1, Wires
    <2>3. /\ in.w = Driver!Written(cpu[c].call, cpu[c].word)
          /\ cpu[c].call \in Program[c] /\ cpu[c].word \in SUBSET Bits
      BY <1>1, <2>2, Wires DEF Hands, BusInv, ClientOK, TypeOK, Driver!Cpus
    <2>4. QED
      BY <2>3, Constants
  <1>4. Ctrl!awHs(in) => in.aw \in Ctrl!Addrs
    <2>1. SUFFICES ASSUME Ctrl!awHs(in) PROVE in.aw \in Ctrl!Addrs
      OBVIOUS
    <2>2. PICK c \in Clients : GoesOn(c) \/ \E x \in Program[c] : BeginsWrite(c, x)
      BY <1>1, <2>1, Wires
    <2>3. \E x \in Program[c] : in.aw = Driver!Writes(x)
      BY <1>1, <2>2, Wires DEF GoesOn, Writes, BusInv, ClientOK
    <2>4. in.aw # None
      BY <2>1 DEF Ctrl!awHs
    <2>5. QED
      BY <2>3, <2>4, Constants
  <1>5. bus' \in [wstate: {"WRIDLE", "WRDATA", "WRRESP", "WRRESET"}, waddr: Ctrl!Addrs \cup {None},
                  rstate: {"RDIDLE", "RDDATA", "RDRESET"}, rdata: {None} \cup Ctrl!Words]
    <2>1. Ctrl!Answer(in.ar) \in Ctrl!Words
      BY AnswerOK, Constants DEF BusInv
    <2>2. QED
      BY <1>1, <1>2, <1>4, <2>1 DEF Ctrl!Next, Ctrl!Bus, Ctrl!BusTypeOK
  <1>6. wires.done \in BOOLEAN /\ wires.ready \in BOOLEAN /\ wires.idle \in BOOLEAN
        /\ wires.out \in {None, {}, {0}}
    BY DEF Core!Wires, Core!Ends, Core!Free
  <1>7. ap' \in [start: BOOLEAN, done: BOOLEAN, idle: BOOLEAN, ready: BOOLEAN, auto: BOOLEAN]
    <2>1. ap.start \in BOOLEAN /\ ap.done \in BOOLEAN /\ ap.auto \in BOOLEAN
      BY <1>2 DEF Ctrl!BusTypeOK
    <2>2. Ctrl!Start(in, wires.ready) \in BOOLEAN /\ Ctrl!Done(in, wires.done) \in BOOLEAN
      BY <1>6, <2>1 DEF Ctrl!Start, Ctrl!Done
    <2>3. (IF Ctrl!Written(in, "AP_CTRL") THEN 7 \in in.w ELSE ap.auto) \in BOOLEAN
      <3>1. (7 \in in.w) \in BOOLEAN
        BY SMT
      <3>2. QED
        BY <2>1, <3>1, Zenon
    <2>4. QED
      BY <1>1, <1>6, <2>2, <2>3 DEF Ctrl!Next
  <1>8. gie' \in BOOLEAN /\ ier' \subseteq Ctrl!Channels /\ isr' \subseteq Ctrl!Channels
    <2>1. /\ gie' = IF Ctrl!Written(in, "GIE") THEN 0 \in in.w ELSE gie
          /\ ier' = Ctrl!Ier(in)
          /\ \E events : isr' = Ctrl!Isr(in, events)
      BY <1>1 DEF Ctrl!Next
    <2>2. gie' \in BOOLEAN
      <3>1. (0 \in in.w) \in BOOLEAN
        BY SMT
      <3>2. gie \in BOOLEAN
        BY <1>2 DEF Ctrl!BusTypeOK
      <3>3. QED
        BY <2>1, <3>1, <3>2, Zenon
    <2>3. ier' \subseteq Ctrl!Channels /\ isr' \subseteq Ctrl!Channels
      BY <1>2, <2>1 DEF Ctrl!BusTypeOK, Ctrl!Ier, Ctrl!Isr
    <2>4. QED
      BY <2>2, <2>3
  <1>9. data' \in [Ctrl!DataRegs -> Ctrl!Words]
    BY <1>1, <1>2, <1>3, Constants DEF Ctrl!Next, Ctrl!BusTypeOK, Ctrl!Written
  <1>10. result' \in [val: Ctrl!Words, vld: BOOLEAN]
    <2>1. {} \in Ctrl!Words /\ {0} \in Ctrl!Words /\ result.val \in Ctrl!Words /\ result.vld \in BOOLEAN
      BY <1>2, Constants, HLSTopAssumption DEF Ctrl!BusTypeOK
    <2>2. (IF wires.out # None THEN wires.out ELSE result.val) \in Ctrl!Words
      BY <1>6, <2>1
    <2>3. (wires.out # None \/ (result.vld /\ ~Ctrl!Sampled(in, "done_o_ctrl"))) \in BOOLEAN
      OBVIOUS
    <2>4. QED
      BY <1>1, <2>2, <2>3 DEF Ctrl!Next, Ctrl!Result
  <1>11. QED
    BY <1>5, <1>7, <1>8, <1>9, <1>10 DEF Ctrl!BusTypeOK

LEMMA CoreTyped ==
    ASSUME BusInv, NEW m \in Moves, NEW go, NEW finish, Edge(m, go, finish)
    PROVE  core' \in [state: {"state1", "state80", "running"},
                      args: {None} \cup [Ctrl!DataRegs -> Ctrl!Words]]
  BY DEF BusInv, TypeOK, Ctrl!BusTypeOK, Edge, Core!Next

(* What the clients do fits the two machines of the bus.                   *)
LEMMA EdgeBusInv ==
    ASSUME BusInv, NEW m \in Moves, NEW go \in BOOLEAN, NEW finish, Edge(m, go, finish)
    PROVE  BusInv'
  <1> DEFINE in == Driver!Wires(m, bus.wstate)
  <1>1. Ctrl!Bus(in) /\ Driver!Next(m, bus.rdata)
    BY DEF Edge, Ctrl!Next
  <1>2. TypeOK'
    BY RegistersTyped, CoreTyped, <1>1, CpusTyped DEF TypeOK
  <1>3. /\ bus'.wstate = CASE bus.wstate = "WRIDLE" -> IF Ctrl!awHs(in) THEN "WRDATA" ELSE "WRIDLE"
                           [] bus.wstate = "WRDATA" -> IF Ctrl!wHs(in) THEN "WRRESP" ELSE "WRDATA"
                           [] bus.wstate = "WRRESP" -> IF in.bready THEN "WRIDLE" ELSE "WRRESP"
                           [] OTHER -> "WRIDLE"
        /\ bus'.waddr = IF Ctrl!awHs(in) THEN in.aw ELSE bus.waddr
        /\ bus'.rstate = CASE bus.rstate = "RDIDLE" -> IF Ctrl!arHs(in) THEN "RDDATA" ELSE "RDIDLE"
                           [] bus.rstate = "RDDATA" -> IF in.rready THEN "RDIDLE" ELSE "RDDATA"
                           [] OTHER -> "RDIDLE"
        /\ bus'.rdata = IF Ctrl!arHs(in) THEN Ctrl!Answer(in.ar) ELSE bus.rdata
    BY <1>1 DEF Ctrl!Bus
  <1>4. /\ Ctrl!awHs(in) => bus.wstate = "WRIDLE" /\ bus'.wstate = "WRDATA" /\ bus'.waddr = in.aw
        /\ Ctrl!wHs(in) => bus.wstate = "WRDATA" /\ bus'.wstate = "WRRESP"
        /\ Ctrl!arHs(in) => bus.rstate = "RDIDLE" /\ bus'.rstate = "RDDATA"
        /\ bus.wstate = "WRDATA" /\ ~Ctrl!wHs(in) =>
            bus'.wstate = "WRDATA" /\ bus'.waddr = bus.waddr
        /\ bus.wstate = "WRRESP" /\ ~in.bready => bus'.wstate = "WRRESP"
        /\ bus.rstate = "RDDATA" /\ ~in.rready => bus'.rstate = "RDDATA" /\ bus'.rdata = bus.rdata
        /\ bus'.wstate = "WRDATA" => Ctrl!awHs(in) \/ (bus.wstate = "WRDATA" /\ ~Ctrl!wHs(in))
        /\ bus'.rstate = "RDDATA" => Ctrl!arHs(in) \/ (bus.rstate = "RDDATA" /\ bus'.rdata = bus.rdata)
    BY <1>3 DEF Ctrl!awHs, Ctrl!wHs, Ctrl!arHs
  <1>5. bus'.rstate = "RDDATA" => bus'.rdata # None
    BY <1>3, <1>4, AnswerOK, Constants DEF BusInv
  <1>6. \A c \in Clients : Acts(c, m)
    BY <1>1, Acting DEF BusInv
  <1>7. ASSUME NEW c \in Clients
        PROVE  /\ cpu[c].stage \in {"away", "reading", "toWrite", "writing", "responding"}
               /\ GoesOn(c) => cpu'[c].stage = "writing" /\ cpu'[c].call = cpu[c].call
               /\ Hands(c) => cpu'[c].stage = "responding" /\ cpu'[c].call = cpu[c].call
               /\ Turns(c) => cpu'[c].stage = "toWrite" /\ cpu'[c].call = cpu[c].call
    BY DEF BusInv, TypeOK, Driver!Cpus, Driver!Stages, GoesOn, Hands, Turns
  <1>8. bus'.wstate = "WRDATA" => \E c \in Clients : cpu'[c].stage = "writing"
    <2>1. CASE Ctrl!awHs(in)
      BY <1>1, <1>7, <2>1, Wires DEF BeginsWrite, Enters
    <2>2. CASE bus.wstate = "WRDATA" /\ ~Ctrl!wHs(in)
      <3>1. PICK c \in Clients : cpu[c].stage = "writing"
        BY <2>2 DEF BusInv
      <3>2. ~Hands(c)
        BY <1>1, <2>2, Wires DEF Ctrl!wHs
      <3>3. cpu'[c] = cpu[c]
        BY <1>6, <3>1, <3>2 DEF Acts, BeginsRead, BeginsWrite, Enters, GoesOn, Turns, EndsRead, EndsWrite
      <3>4. QED
        BY <3>1, <3>3
    <2>3. QED
      BY <1>4, <2>1, <2>2
  <1>9. ASSUME NEW c \in Clients PROVE ClientOK(c)'
    <2>1. ClientOK(c)
      BY DEF BusInv
    <2>2. ASSUME NEW x \in Program[c], BeginsRead(c, x) PROVE ClientOK(c)'
      <3>1. cpu'[c].stage = "reading" /\ cpu'[c].call = x /\ Driver!Reads(x) # None
        BY <2>2 DEF BeginsRead, Enters
      <3>2. bus'.rstate = "RDDATA"
        BY <1>1, <1>4, <2>2, Wires
      <3>3. QED
        BY <3>1, <3>2 DEF ClientOK, Reads, Busy
    <2>3. ASSUME NEW x \in Program[c], BeginsWrite(c, x) PROVE ClientOK(c)'
      <3>1. cpu'[c].stage = "writing" /\ cpu'[c].call = x /\ Driver!Writes(x) # None
        BY <2>3, Constants DEF BeginsWrite, Enters
      <3>2. bus'.wstate = "WRDATA" /\ bus'.waddr = Driver!Writes(x)
        BY <1>1, <1>4, <2>3, Wires
      <3>3. QED
        BY <3>1, <3>2 DEF ClientOK, Writes, Busy
    <2>4. CASE GoesOn(c)
      <3>1. bus'.wstate = "WRDATA" /\ bus'.waddr = Writes(c) /\ cpu[c].stage = "toWrite"
        BY <1>1, <1>4, <2>4, Wires DEF GoesOn
      <3>2. QED
        BY <1>7, <2>1, <2>4, <3>1 DEF ClientOK, Writes, Busy
    <2>5. CASE Turns(c)
      BY <1>7, <2>1, <2>5 DEF ClientOK, Turns, Reads, Writes, Busy
    <2>6. CASE Hands(c)
      <3>1. bus'.wstate = "WRRESP" /\ cpu[c].stage = "writing"
        <4>1. Ctrl!wHs(in)
          BY <1>1, <2>6, Wires DEF Ctrl!wHs
        <4>2. QED
          BY <1>4, <2>6, <4>1 DEF Hands
      <3>2. QED
        BY <1>7, <2>1, <2>6, <3>1 DEF ClientOK, Writes, Busy
    <2>7. CASE EndsRead(c) \/ EndsWrite(c)
      BY <2>7 DEF ClientOK, EndsRead, EndsWrite, Leaves, Busy
    <2>8. CASE cpu'[c] = cpu[c]
      <3>1. cpu[c].stage = "reading" => bus'.rstate = "RDDATA"
        <4>1. cpu[c].stage = "reading" => ~in.rready
          BY <1>1, <1>7, <2>8, Wires DEF EndsRead, Leaves
        <4>2. QED
          BY <1>4, <2>1, <4>1 DEF ClientOK
      <3>2. cpu[c].stage = "writing" => bus'.wstate = "WRDATA" /\ bus'.waddr = bus.waddr
        <4>1. SUFFICES ASSUME cpu[c].stage = "writing" PROVE ~Ctrl!wHs(in)
          BY <1>4, <2>1 DEF ClientOK
        <4>2. SUFFICES ASSUME Ctrl!wHs(in) PROVE FALSE
          OBVIOUS
        <4>3. PICK d \in Clients : Hands(d)
          BY <1>1, <4>2, Wires
        <4>4. d = c
          BY <4>1, <4>3 DEF Hands, BusInv, Busy
        <4>5. QED
          BY <1>7, <2>8, <4>1, <4>3, <4>4
      <3>3. cpu[c].stage = "responding" => bus'.wstate = "WRRESP"
        <4>1. cpu[c].stage = "responding" => ~in.bready
          BY <1>1, <2>8, Wires DEF EndsWrite, Leaves
        <4>2. QED
          BY <1>4, <2>1, <4>1 DEF ClientOK
      <3>4. QED
        BY <2>1, <2>8, <3>1, <3>2, <3>3 DEF ClientOK, Reads, Writes, Busy
    <2>9. QED
      BY <1>6, <2>2, <2>3, <2>4, <2>5, <2>6, <2>7, <2>8 DEF Acts
  <1>10. ASSUME NEW c \in Clients, cpu'[c].stage \in Busy, cpu[c].stage \notin Busy
         PROVE  bus.wstate = "WRIDLE" /\ m.write.client = c
    <2>1. GoesOn(c) \/ \E x \in Program[c] : BeginsWrite(c, x)
      BY <1>6, <1>7, <1>10 DEF Acts, BeginsRead, Enters, EndsRead, EndsWrite, Leaves, Busy, Hands
    <2>2. QED
      BY <1>1, <1>4, <2>1, Wires
  <1>11. ASSUME NEW c \in Clients, cpu'[c].stage = "reading", cpu[c].stage # "reading"
         PROVE  bus.rstate = "RDIDLE" /\ m.read.client = c
    <2>1. \E x \in Program[c] : BeginsRead(c, x)
      BY <1>6, <1>7, <1>11 DEF Acts, BeginsWrite, Enters, EndsRead, EndsWrite, Leaves
    <2>2. QED
      BY <1>1, <1>4, <2>1, Wires
  <1>12. ASSUME NEW c \in Clients, NEW d \in Clients,
                \/ cpu'[c].stage \in Busy /\ cpu'[d].stage \in Busy
                \/ cpu'[c].stage = "reading" /\ cpu'[d].stage = "reading"
         PROVE  c = d
    <2>1. /\ ClientOK(c) /\ ClientOK(d)
          /\ \/ cpu[c].stage \in Busy /\ cpu[d].stage \in Busy
             \/ cpu[c].stage = "reading" /\ cpu[d].stage = "reading"
             => c = d
      BY DEF BusInv
    <2>2. CASE cpu'[c].stage \in Busy /\ cpu'[d].stage \in Busy
      BY <1>10, <2>1, <2>2 DEF ClientOK, Busy
    <2>3. CASE cpu'[c].stage = "reading" /\ cpu'[d].stage = "reading"
      BY <1>11, <2>1, <2>3 DEF ClientOK
    <2>4. QED
      BY <1>12, <2>2, <2>3
  <1>13. QED
    BY <1>2, <1>5, <1>8, <1>9, <1>12 DEF BusInv
(* The clients begin with nothing on the bus, which is in reset. *)
LEMMA InitBusInv == Init => BusInv
  <1> SUFFICES ASSUME Init PROVE BusInv
    OBVIOUS
  <1>1. \A c \in Clients : cpu[c].stage = "away"
    BY DEF Init, Driver!Init
  <1>2. {} \in SUBSET Bits
    OBVIOUS
  <1>3. Ctrl!BusTypeOK
    BY <1>2, Constants DEF Init, Ctrl!Init, Ctrl!BusTypeOK
  <1>4. cpu \in [Clients -> Driver!Cpus]
    BY <1>2 DEF Init, Driver!Init, Driver!Cpus, Driver!Stages
  <1>5. TypeOK
    BY <1>3, <1>4 DEF TypeOK, Init, Core!Init
  <1>6. bus.rstate = "RDRESET" /\ bus.wstate = "WRRESET"
    BY DEF Init, Ctrl!Init
  <1>7. QED
    BY <1>1, <1>5, <1>6 DEF BusInv, ClientOK, Busy

LEMMA StutterBusInv == BusInv /\ UNCHANGED vars => BusInv'
  BY DEF vars, BusInv, TypeOK, Ctrl!BusTypeOK, ClientOK, Reads, Writes, Busy

LEMMA GoingOn == \A go \in Core!Going(ap.start) : go \in BOOLEAN
  BY DEF Core!Going

(* A step of HLSTop, with what the clients and the block do in it.         *)
LEMMA StepBusInv == BusInv /\ [Next]_vars => BusInv'
  <1> SUFFICES ASSUME BusInv, [Next]_vars PROVE BusInv'
    OBVIOUS
  <1>1. CASE UNCHANGED vars
    BY <1>1, StutterBusInv
  <1>2. CASE Next
    <2>1. PICK m \in Moves : \E go \in Core!Going(ap.start) : \E finish \in Core!Finishing(ap.start) :
                Edge(m, go, finish)
      BY <1>2 DEF Next
    <2>2. PICK go \in Core!Going(ap.start) : \E finish \in Core!Finishing(ap.start) : Edge(m, go, finish)
      BY <2>1
    <2>3. PICK finish \in Core!Finishing(ap.start) : Edge(m, go, finish)
      BY <2>2
    <2>4. go \in BOOLEAN
      BY GoingOn
    <2>5. QED
      BY <2>3, <2>4, EdgeBusInv
  <1>3. QED
    BY <1>1, <1>2

(* The history changes nothing in HLSTop. *)
LEMMA EventsAreSteps == EventsSpec => Spec
  <1>1. EventsInit => Init
    BY DEF EventsInit
  <1>2. [EventsNext]_allvars => [Next]_vars
    BY DEF EventsNext, allvars
  <1>3. QED
    BY <1>1, <1>2, PTL DEF EventsSpec, Spec

LEMMA BusInvariant == EventsSpec => []BusInv
  <1>1. Spec => []BusInv
    BY InitBusInv, StepBusInv, PTL DEF Spec
  <1>2. QED
    BY <1>1, EventsAreSteps, PTL

(* Every register of the slave, the block and every client keep their      *)
(* types, whatever the programs: with BusInv, the words of two calls never *)
(* meet on the bus.                                                        *)
THEOREM TypeCorrect == EventsSpec => []TypeOK
  <1>1. BusInv => TypeOK
    BY DEF BusInv
  <1>2. QED
    BY <1>1, BusInvariant, PTL
-----------------------------------------------------------------------------
(* What an edge does, in terms of the calls.                               *)

(* The words the calls read and write. *)
LEMMA CallFacts ==
    ASSUME NEW x \in Driver!Calls
    PROVE  /\ Driver!Reads(x) = "AP_CTRL" <=> x.fn \in {"Start", "IsDone", "IsIdle", "IsReady"}
           /\ Driver!Reads(x) = "ISR" <=> x.fn = "InterruptGetStatus"
           /\ Driver!Writes(x) = "AP_CTRL" <=> x.fn \in {"Start", "EnableAutoRestart", "DisableAutoRestart"}
           /\ Driver!Writes(x) = "ISR" <=> x.fn = "InterruptClear"
           /\ Driver!Writes(x) \in Ctrl!DataRegs <=> x.fn = "Set"
           /\ x.fn = "Start" => \A word : Driver!Written(x, word) = (word \cap {7}) \cup {0}
           /\ x.fn = "EnableAutoRestart" => \A word : Driver!Written(x, word) = {7}
           /\ x.fn = "DisableAutoRestart" => \A word : Driver!Written(x, word) = {}
           /\ x.fn \in {"InterruptClear", "Set"} => \A word : Driver!Written(x, word) = x.val
           /\ x.fn \in {"Set", "InterruptClear", "EnableAutoRestart", "DisableAutoRestart"} => Driver!Reads(x) = None
  <1>1. /\ "AP_CTRL" \notin Ctrl!DataRegs \cup Ctrl!ResultRegs /\ "ISR" \notin Ctrl!DataRegs \cup Ctrl!ResultRegs
        /\ "GIE" \notin Ctrl!DataRegs /\ "IER" \notin Ctrl!DataRegs
    BY HLSTopAssumption DEF Ctrl!DataRegs, Ctrl!ResultRegs, Ctrl!FetchRegs, Ctrl!LoadRegs,
       Ctrl!StoreRegs, Ctrl!ComputeRegs
  <1>2. /\ None # "AP_CTRL" /\ None # "ISR" /\ None \notin Ctrl!DataRegs
    BY HLSTopAssumption DEF Ctrl!Addrs
  <1>3. /\ x.fn = "Set" => x.reg \in Ctrl!DataRegs
        /\ x.fn = "Get" => x.reg \in Ctrl!DataRegs \cup Ctrl!ResultRegs
    BY HLSTopAssumption
  <1>4. /\ Driver!Reads(x) = "AP_CTRL" <=> x.fn \in {"Start", "IsDone", "IsIdle", "IsReady"}
        /\ Driver!Reads(x) = "ISR" <=> x.fn = "InterruptGetStatus"
    BY <1>1, <1>2, <1>3 DEF Driver!Reads
  <1>5. /\ Driver!Writes(x) = "AP_CTRL" <=> x.fn \in {"Start", "EnableAutoRestart", "DisableAutoRestart"}
        /\ Driver!Writes(x) = "ISR" <=> x.fn = "InterruptClear"
        /\ Driver!Writes(x) \in Ctrl!DataRegs <=> x.fn = "Set"
    BY <1>1, <1>2, <1>3 DEF Driver!Writes
  <1>6. QED
    BY <1>4, <1>5 DEF Driver!Written, Driver!Reads

LEMMA AnswerFacts ==
    /\ 0 \in Ctrl!Answer("AP_CTRL") <=> ap.start
    /\ 1 \in Ctrl!Answer("AP_CTRL") <=> ap.done
    /\ 2 \in Ctrl!Answer("AP_CTRL") <=> ap.idle
    /\ 7 \in Ctrl!Answer("AP_CTRL") <=> ap.auto
    /\ Ctrl!Answer("ISR") = isr
  <1>1. "AP_CTRL" \notin Ctrl!DataRegs /\ "ISR" \notin Ctrl!DataRegs
    BY HLSTopAssumption DEF Ctrl!DataRegs, Ctrl!FetchRegs, Ctrl!LoadRegs, Ctrl!StoreRegs, Ctrl!ComputeRegs
  <1>2. Ctrl!Answer("AP_CTRL") = {b \in {0, 1, 2, 3, 7} : \/ b = 0 /\ ap.start
                                                          \/ b = 1 /\ ap.done
                                                          \/ b = 2 /\ ap.idle
                                                          \/ b = 3 /\ ap.ready
                                                          \/ b = 7 /\ ap.auto}
    BY <1>1 DEF Ctrl!Answer
  <1>3. Ctrl!Answer("ISR") = isr
    BY <1>1 DEF Ctrl!Answer
  <1>4. QED
    BY <1>2, <1>3

Samples(c, a) == \E x \in Program[c] : BeginsRead(c, x) /\ Driver!Reads(x) = a
Stores(c, a) == Hands(c) /\ Writes(c) = a

Does(c) ==
    \/ \E x \in Program[c] : BeginsRead(c, x)
    \/ \E x \in Program[c] : BeginsWrite(c, x) /\ bus.wstate = "WRIDLE"
    \/ GoesOn(c) /\ bus.wstate = "WRIDLE"
    \/ Turns(c) \/ EndsRead(c) \/ Hands(c) \/ EndsWrite(c)
    \/ cpu'[c] = cpu[c]

StartChanges == ap'.start <=> Commands({"Start"}) \/ (IF Ends THEN ap.auto ELSE ap.start)
DoneChanges == ap'.done <=> Ends \/ (ap.done /\ ~\E c \in Clients : Samples(c, "AP_CTRL"))
IdleChanges == ap'.idle <=> core.state = "state1" /\ ~ap.start
AutoChanges ==
    /\ \A c \in Clients : Stores(c, "AP_CTRL") =>
        (ap'.auto <=> 7 \in Driver!Written(cpu[c].call, cpu[c].word))
    /\ (\A c \in Clients : ~Stores(c, "AP_CTRL")) => (ap'.auto <=> ap.auto)
FlagChanges ==
    isr' = {k \in Ctrl!Channels : \/ k \in Raised
                                  \/ ~(k \in isr <=> \E c \in Clients : /\ Lands(c, {"InterruptClear"})
                                                                         /\ k \in cpu[c].call.val)}
DataChanges ==
    /\ ~Commands({"Set"}) => data' = data
    /\ Commands({"Set"}) => \E r \in Ctrl!DataRegs, w \in Ctrl!Words : data' = [data EXCEPT ![r] = w]
CoreChanges ==
    \/ /\ core.state = "state1" /\ ap.start /\ core'.args = data
       /\ core'.state = "running" \/ (Block = "compute" /\ core'.state = "state80")
    \/ core.state = "state80" /\ core'.state = "running" /\ core'.args = core.args
    \/ core.state = "running" /\ core'.state = "state1" /\ core'.args = core.args
    \/ core.state # "state80" /\ core' = core
ResultChanges ==
    result'.val = IF Block # "compute" THEN result.val
                  ELSE IF Begins THEN {} ELSE IF core.state = "state80" THEN {0} ELSE result.val
ClientChanges ==
    /\ \A c \in Clients : Does(c) /\ \A fns : Lands(c, fns) <=> Hands(c) /\ cpu[c].call.fn \in fns
    /\ \A c, d \in Clients : Hands(c) /\ Hands(d) => c = d
    /\ \A c \in Clients : \A x \in Program[c] :
        BeginsRead(c, x) => bus'.rdata = Ctrl!Answer(Driver!Reads(x))
    /\ \A c \in Clients : cpu[c].stage = "reading" => bus'.rdata = bus.rdata

Changes ==
    /\ StartChanges /\ DoneChanges /\ IdleChanges /\ AutoChanges /\ FlagChanges /\ DataChanges
    /\ CoreChanges /\ ResultChanges /\ ClientChanges
(* What the edge does to the registers, first in terms of the wires.       *)
LEMMA WireChanges ==
    ASSUME BusInv, NEW m \in Moves, Driver!Next(m, bus.rdata)
    PROVE  LET in == Driver!Wires(m, bus.wstate) IN
           /\ \A a : Ctrl!Written(in, a) <=> \E c \in Clients : Stores(c, a)
           /\ \A c \in Clients : Hands(c) => in.w = Driver!Written(cpu[c].call, cpu[c].word)
           /\ \A a : Ctrl!Sampled(in, a) <=> \E c \in Clients : Samples(c, a)
           /\ \A c \in Clients : \A x \in Program[c] :
                BeginsRead(c, x) => Ctrl!arHs(in) /\ in.ar = Driver!Reads(x)
           /\ \A c, d \in Clients : Hands(c) /\ Hands(d) => c = d
  <1> DEFINE in == Driver!Wires(m, bus.wstate)
  <1>1. \A c, d \in Clients : Hands(c) /\ Hands(d) => c = d
    BY DEF BusInv, Hands, Busy
  <1>2. ASSUME NEW a PROVE Ctrl!Written(in, a) <=> \E c \in Clients : Stores(c, a)
    <2>1. ASSUME Ctrl!Written(in, a) PROVE \E c \in Clients : Stores(c, a)
      BY <2>1, Wires DEF Ctrl!Written, Stores
    <2>2. ASSUME NEW c \in Clients, Stores(c, a) PROVE Ctrl!Written(in, a)
      BY <2>2, Wires DEF Ctrl!Written, Ctrl!wHs, Stores
    <2>3. QED
      BY <2>1, <2>2
  <1>3. ASSUME NEW a PROVE Ctrl!Sampled(in, a) <=> \E c \in Clients : Samples(c, a)
    <2>1. ASSUME Ctrl!Sampled(in, a) PROVE \E c \in Clients : Samples(c, a)
      <3>1. PICK c \in Clients : \E x \in Program[c] : BeginsRead(c, x)
        BY <2>1, Wires DEF Ctrl!Sampled
      <3>2. PICK x \in Program[c] : BeginsRead(c, x)
        BY <3>1
      <3>3. in.ar = Driver!Reads(x)
        BY <3>2, Wires
      <3>4. QED
        BY <2>1, <3>2, <3>3 DEF Ctrl!Sampled, Samples
    <2>2. ASSUME NEW c \in Clients, Samples(c, a) PROVE Ctrl!Sampled(in, a)
      BY <2>2, Wires DEF Ctrl!Sampled, Samples
    <2>3. QED
      BY <2>1, <2>2
  <1>4. QED
    BY <1>1, <1>2, <1>3, Wires

LEMMA ClientsStep ==
    ASSUME BusInv, NEW m \in Moves, Driver!Next(m, bus.rdata), Ctrl!Bus(Driver!Wires(m, bus.wstate))
    PROVE  ClientChanges
  <1> DEFINE in == Driver!Wires(m, bus.wstate)
  <1>1. ASSUME NEW c \in Clients PROVE Does(c)
    <2>1. Acts(c, m)
      BY Acting DEF BusInv
    <2>2. QED
      BY <2>1 DEF Acts, Does
  <1>2. ASSUME NEW c \in Clients, NEW fns
        PROVE  Lands(c, fns) <=> Hands(c) /\ cpu[c].call.fn \in fns
    <2>1. cpu[c] \in Driver!Cpus
      BY DEF BusInv, TypeOK
    <2>2. Hands(c) => cpu[c].stage = "writing" /\ cpu'[c].stage = "responding"
      BY <2>1 DEF Hands, Driver!Cpus
    <2>3. cpu[c].stage = "writing" /\ cpu'[c].stage = "responding" => Hands(c)
      BY <1>1 DEF Does, BeginsRead, BeginsWrite, Enters, GoesOn, Turns, EndsRead, EndsWrite
    <2>4. QED
      BY <2>2, <2>3 DEF Lands
  <1>3. bus'.rdata = IF Ctrl!arHs(in) THEN Ctrl!Answer(in.ar) ELSE bus.rdata
    BY DEF Ctrl!Bus
  <1>4. ASSUME NEW c \in Clients, NEW x \in Program[c], BeginsRead(c, x)
        PROVE  bus'.rdata = Ctrl!Answer(Driver!Reads(x))
    BY <1>3, <1>4, WireChanges
  <1>5. ASSUME NEW c \in Clients, cpu[c].stage = "reading" PROVE bus'.rdata = bus.rdata
    BY <1>3, <1>5 DEF BusInv, ClientOK, Ctrl!arHs
  <1>6. QED
    BY <1>1, <1>2, <1>4, <1>5, WireChanges DEF ClientChanges

LEMMA BlockStep ==
    ASSUME TypeOK, NEW go, NEW finish \in Core!Finishing(ap.start), go \in Core!Going(ap.start),
           Core!Next(go, finish, ap.start, data)
    PROVE  /\ CoreChanges
           /\ Begins <=> Core!Begins(go, ap.start)
           /\ Ends <=> Core!Ends(go)
  <1>1. core \in [state: {"state1", "state80", "running"}, args: {None} \cup [Ctrl!DataRegs -> Ctrl!Words]]
    BY DEF TypeOK
  <1>2. /\ core' = IF Core!Begins(go, ap.start)
                   THEN [state |-> IF finish THEN "state80" ELSE "running", args |-> data]
                   ELSE IF core.state = "state80" THEN [core EXCEPT !.state = "running"]
                   ELSE IF Core!Ends(go) THEN [core EXCEPT !.state = "state1"]
                   ELSE core
        /\ finish => Block = "compute"
    BY DEF Core!Next, Core!Finishing
  <1>3. CASE Core!Begins(go, ap.start)
    <2>1. /\ core'.state = (IF finish THEN "state80" ELSE "running") /\ core'.args = data
          /\ core.state = "state1" /\ ap.start
      BY <1>2, <1>3 DEF Core!Begins, Core!Free
    <2>2. QED
      BY <1>2, <1>3, <2>1 DEF CoreChanges, Begins, Ends, Core!Ends
  <1>4. CASE ~Core!Begins(go, ap.start) /\ core.state = "state80"
    BY <1>1, <1>2, <1>4 DEF CoreChanges, Begins, Ends, Core!Ends
  <1>5. CASE ~Core!Begins(go, ap.start) /\ core.state # "state80" /\ Core!Ends(go)
    BY <1>1, <1>2, <1>5 DEF CoreChanges, Begins, Ends, Core!Ends
  <1>6. CASE ~Core!Begins(go, ap.start) /\ core.state # "state80" /\ ~Core!Ends(go)
    BY <1>1, <1>2, <1>6 DEF CoreChanges, Begins, Ends, Core!Ends
  <1>7. QED
    BY <1>3, <1>4, <1>5, <1>6
LEMMA StepChanges == ASSUME BusInv, Next PROVE Changes
  <1>1. PICK m \in Moves : \E go \in Core!Going(ap.start) : \E finish \in Core!Finishing(ap.start) :
            Edge(m, go, finish)
    BY DEF Next
  <1>2. PICK go \in Core!Going(ap.start) : \E finish \in Core!Finishing(ap.start) : Edge(m, go, finish)
    BY <1>1
  <1>3. PICK finish \in Core!Finishing(ap.start) : Edge(m, go, finish)
    BY <1>2
  <1> DEFINE in == Driver!Wires(m, bus.wstate)
             wires == Core!Wires(go, ap.start)
             events == {k \in Ctrl!Channels : IF k = 0 THEN wires.done ELSE wires.ready}
  <1>4. /\ Driver!Next(m, bus.rdata) /\ Ctrl!Bus(in)
        /\ ap' = [start |-> Ctrl!Start(in, wires.ready), done  |-> Ctrl!Done(in, wires.done),
                  idle  |-> wires.idle, ready |-> wires.ready,
                  auto  |-> IF Ctrl!Written(in, "AP_CTRL") THEN 7 \in in.w ELSE ap.auto]
        /\ isr' = Ctrl!Isr(in, events)
        /\ data' = [r \in Ctrl!DataRegs |-> IF Ctrl!Written(in, r) THEN in.w ELSE data[r]]
        /\ Ctrl!Result(in, wires.out)
        /\ Core!Next(go, finish, ap.start, data)
    BY <1>3 DEF Edge, Ctrl!Next
  <1>5. TypeOK /\ \A c \in Clients : Hands(c) => cpu[c].call \in Driver!Calls
    BY Constants DEF BusInv, ClientOK, Hands
  <1>6. CoreChanges /\ (Begins <=> Core!Begins(go, ap.start)) /\ (Ends <=> Core!Ends(go))
    BY <1>4, <1>5, BlockStep
  <1>7. ClientChanges
    BY <1>4, ClientsStep
  <1>8. \A c \in Clients : \A fns : Lands(c, fns) <=> Hands(c) /\ cpu[c].call.fn \in fns
    BY <1>7 DEF ClientChanges
  <1>9. /\ \A a : Ctrl!Written(in, a) <=> \E c \in Clients : Stores(c, a)
        /\ \A c \in Clients : Hands(c) => in.w = Driver!Written(cpu[c].call, cpu[c].word)
        /\ \A a : Ctrl!Sampled(in, a) <=> \E c \in Clients : Samples(c, a)
        /\ \A c, d \in Clients : Hands(c) /\ Hands(d) => c = d
    BY <1>4, WireChanges
  <1>10. /\ wires.done = Core!Ends(go) /\ wires.ready = Core!Ends(go)
         /\ wires.idle = (core.state = "state1" /\ ~ap.start)
         /\ wires.out = IF Block # "compute" THEN None
                        ELSE IF Core!Begins(go, ap.start) THEN {}
                        ELSE IF core.state = "state80" THEN {0} ELSE None
    BY DEF Core!Wires, Core!Free
  <1>11. ASSUME NEW c \in Clients, Hands(c)
         PROVE  /\ Stores(c, "AP_CTRL") <=>
                    cpu[c].call.fn \in {"Start", "EnableAutoRestart", "DisableAutoRestart"}
                /\ Stores(c, "ISR") <=> Lands(c, {"InterruptClear"})
                /\ Writes(c) \in Ctrl!DataRegs <=> Lands(c, {"Set"})
                /\ Lands(c, {"Start"}) <=> Stores(c, "AP_CTRL") /\ 0 \in in.w
                /\ Lands(c, {"InterruptClear"}) => in.w = cpu[c].call.val
    <2>1. cpu[c].call \in Driver!Calls /\ in.w = Driver!Written(cpu[c].call, cpu[c].word)
      BY <1>5, <1>9, <1>11
    <2>2. \A fns : Lands(c, fns) <=> cpu[c].call.fn \in fns
      BY <1>8, <1>11
    <2>3. /\ Stores(c, "AP_CTRL") <=>
                    cpu[c].call.fn \in {"Start", "EnableAutoRestart", "DisableAutoRestart"}
          /\ Stores(c, "ISR") <=> cpu[c].call.fn = "InterruptClear"
          /\ Writes(c) \in Ctrl!DataRegs <=> cpu[c].call.fn = "Set"
      BY <1>11, <2>1, CallFacts DEF Stores, Writes
    <2>4. /\ cpu[c].call.fn = "Start" => 0 \in in.w
          /\ cpu[c].call.fn \in {"EnableAutoRestart", "DisableAutoRestart"} => 0 \notin in.w
          /\ cpu[c].call.fn = "InterruptClear" => in.w = cpu[c].call.val
      BY <2>1, CallFacts
    <2>5. QED
      BY <2>2, <2>3, <2>4
  <1>12. StartChanges
    <2>1. ap'.start = Ctrl!Start(in, wires.ready)
      BY <1>4
    <2>2. Ctrl!Written(in, "AP_CTRL") /\ 0 \in in.w <=> Commands({"Start"})
      BY <1>8, <1>9, <1>11 DEF Commands, Stores
    <2>3. QED
      BY <1>6, <1>10, <2>1, <2>2 DEF StartChanges, Ctrl!Start
  <1>13. DoneChanges /\ IdleChanges
    <2>1. ap'.done = (wires.done \/ (ap.done /\ ~Ctrl!Sampled(in, "AP_CTRL")))
      BY <1>4 DEF Ctrl!Done
    <2>2. ap'.idle = wires.idle
      BY <1>4
    <2>3. QED
      BY <1>6, <1>9, <1>10, <2>1, <2>2 DEF DoneChanges, IdleChanges
  <1>14. AutoChanges
    <2>1. ap'.auto = IF Ctrl!Written(in, "AP_CTRL") THEN 7 \in in.w ELSE ap.auto
      BY <1>4
    <2>2. \A c \in Clients : Stores(c, "AP_CTRL") => in.w = Driver!Written(cpu[c].call, cpu[c].word)
      BY <1>9 DEF Stores
    <2>3. CASE \E c \in Clients : Stores(c, "AP_CTRL")
      <3>1. Ctrl!Written(in, "AP_CTRL")
        BY <1>9, <2>3
      <3>2. QED
        BY <2>1, <2>2, <2>3, <3>1 DEF AutoChanges
    <2>4. CASE \A c \in Clients : ~Stores(c, "AP_CTRL")
      <3>1. ~Ctrl!Written(in, "AP_CTRL")
        BY <1>9, <2>4
      <3>2. QED
        BY <2>1, <2>4, <3>1 DEF AutoChanges
    <2>5. QED
      BY <2>3, <2>4
  <1>15. FlagChanges
    <2>1. isr' = {k \in Ctrl!Channels : IF k \in ier \cap events THEN TRUE
                      ELSE (k \in isr) # (Ctrl!Written(in, "ISR") /\ k \in in.w)}
      BY <1>4 DEF Ctrl!Isr
    <2>2. ASSUME NEW k \in Ctrl!Channels PROVE k \in ier \cap events <=> k \in Raised
      BY <1>6, <1>10 DEF Raised
    <2>3. ASSUME NEW k
          PROVE  Ctrl!Written(in, "ISR") /\ k \in in.w <=>
                    \E c \in Clients : Lands(c, {"InterruptClear"}) /\ k \in cpu[c].call.val
      <3>1. \A c \in Clients : Stores(c, "ISR") => Hands(c)
        BY DEF Stores
      <3>2. \A c \in Clients : Lands(c, {"InterruptClear"}) => Hands(c)
        BY <1>8
      <3>3. QED
        BY <1>9, <1>11, <3>1, <3>2
    <2>4. QED
      BY <2>1, <2>2, <2>3 DEF FlagChanges
  <1>16. DataChanges
    <2>1. data = [r \in Ctrl!DataRegs |-> data[r]]
      BY <1>5 DEF TypeOK, Ctrl!BusTypeOK
    <2>2. CASE ~Commands({"Set"})
      <3>1. \A r \in Ctrl!DataRegs : ~Ctrl!Written(in, r)
        BY <1>9, <1>11, <2>2 DEF Commands, Stores
      <3>2. QED
        BY <1>4, <2>1, <2>2, <3>1 DEF DataChanges
    <2>3. CASE Commands({"Set"})
      <3>1. PICK c \in Clients : Lands(c, {"Set"})
        BY <2>3 DEF Commands
      <3>2. Hands(c) /\ cpu[c].call.fn = "Set" /\ cpu[c].call \in Driver!Calls
        BY <1>5, <1>8, <3>1
      <3>3. Writes(c) \in Ctrl!DataRegs /\ in.w = cpu[c].call.val
        BY <1>9, <1>11, <3>1, <3>2, CallFacts
      <3>4. in.w \in Ctrl!Words
        BY <3>2, <3>3, HLSTopAssumption DEF Ctrl!Words
      <3>5. \A r \in Ctrl!DataRegs : Ctrl!Written(in, r) <=> r = Writes(c)
        BY <1>9, <3>2 DEF Stores
      <3>6. data' = [data EXCEPT ![Writes(c)] = in.w]
        BY <1>4, <2>1, <3>5
      <3>7. QED
        BY <2>3, <3>3, <3>4, <3>6 DEF DataChanges
    <2>4. QED
      BY <2>2, <2>3
  <1>17. ResultChanges
    <2>1. result'.val = IF wires.out # None THEN wires.out ELSE result.val
      BY <1>4 DEF Ctrl!Result
    <2>2. {} # None /\ {0} # None
      BY Constants, HLSTopAssumption
    <2>3. QED
      BY <1>6, <1>10, <2>1, <2>2 DEF ResultChanges
  <1>18. QED
    BY <1>6, <1>7, <1>12, <1>13, <1>14, <1>15, <1>16, <1>17 DEF Changes
-----------------------------------------------------------------------------
(* What holds for any programs.                                            *)

(* Every end of a run stays in done, or is on its way to a client, until   *)
(* one has received it, whoever polls: the read that clears done has taken *)
(* the word at that edge, and an end at that very edge sets done again.    *)
THEOREM EndsAreRead == EventsSpec => []NoEndUnread
  <1>1. EventsInit => NoEndUnread
    BY DEF EventsInit, HistoryInit, NoEndUnread
  <1>2. BusInv /\ NoEndUnread /\ [EventsNext]_allvars => NoEndUnread'
    <2> SUFFICES ASSUME BusInv, NoEndUnread, [EventsNext]_allvars, untold'
                 PROVE  ap'.done \/ \E c \in Clients : Awaits(c)'
      BY DEF NoEndUnread
    <2>1. CASE UNCHANGED allvars
      BY <2>1 DEF NoEndUnread, Awaits, allvars, vars, history
    <2>2. CASE EventsNext
      <3>1. Changes /\ (Ends \/ (untold /\ ~Told))
        BY <2>2, StepChanges DEF EventsNext, History
      <3>2. CASE Ends
        BY <3>1, <3>2 DEF Changes, DoneChanges
      <3>3. CASE untold /\ ~Told /\ ap.done
        <4>1. SUFFICES ASSUME ~ap'.done PROVE \E c \in Clients : Awaits(c)'
          OBVIOUS
        <4>2. PICK c \in Clients : Samples(c, "AP_CTRL")
          BY <3>1, <3>3, <4>1 DEF Changes, DoneChanges
        <4>3. PICK x \in Program[c] : BeginsRead(c, x) /\ Driver!Reads(x) = "AP_CTRL"
          BY <4>2 DEF Samples
        <4>4. cpu'[c].stage = "reading" /\ cpu'[c].call = x
          BY <4>3 DEF BeginsRead, Enters
        <4>5. bus'.rdata = Ctrl!Answer("AP_CTRL")
          BY <3>1, <4>3 DEF Changes, ClientChanges
        <4>6. 1 \in Ctrl!Answer("AP_CTRL")
          BY <3>3, AnswerFacts
        <4>7. QED
          BY <4>3, <4>4, <4>5, <4>6 DEF Awaits
      <3>4. CASE untold /\ ~Told /\ ~ap.done
        <4>1. PICK c \in Clients : Awaits(c)
          BY <3>4 DEF NoEndUnread
        <4>2. cpu[c].stage = "reading" /\ cpu'[c].stage = "reading"
          BY <3>4, <4>1 DEF Told, Awaits
        <4>3. cpu'[c] = cpu[c]
          <5>1. Does(c) /\ cpu[c] \in Driver!Cpus
            BY <3>1 DEF Changes, ClientChanges, BusInv, TypeOK
          <5>2. QED
            BY <4>2, <5>1 DEF Does, BeginsRead, BeginsWrite, Enters, GoesOn, Turns, EndsRead,
               EndsWrite, Hands, Leaves, Driver!Cpus
        <4>4. bus'.rdata = bus.rdata
          BY <3>1, <4>2 DEF Changes, ClientChanges
        <4>5. QED
          BY <4>1, <4>3, <4>4 DEF Awaits
      <3>5. QED
        BY <3>1, <3>2, <3>3, <3>4
    <2>3. QED
      BY <2>1, <2>2
  <1>3. QED
    BY <1>1, <1>2, BusInvariant, PTL DEF EventsSpec

(* Once automatic restart is off, it stays off until somebody starts, and  *)
(* a block that has begun once more needs a start to begin again.          *)
StopsInv ==
    /\ more \in {0, 1, None}
    /\ more # None => ~ap.auto
    /\ more = 1 => core.state # "state1" \/ ~ap.start

(* Only the calls on AP_CTRL switch automatic restart. *)
LEMMA AutoCalls ==
    ASSUME BusInv, Changes
    PROVE  /\ ap'.auto => \/ ap.auto \/ Commands({"EnableAutoRestart"})
                          \/ \E c \in Clients : Lands(c, {"Start"}) /\ 7 \in cpu[c].word
           /\ ap'.auto => ~Commands({"DisableAutoRestart"})
           /\ Commands({"EnableAutoRestart"}) => ap'.auto
           /\ (\E c \in Clients : Lands(c, {"Start"}) /\ 7 \in cpu[c].word) => ap'.auto
           /\ ap.auto => \/ ap'.auto \/ Commands({"DisableAutoRestart"})
                         \/ \E c \in Clients : Lands(c, {"Start"}) /\ 7 \notin cpu[c].word
  <1>1. ASSUME NEW c \in Clients, Hands(c)
        PROVE  /\ Stores(c, "AP_CTRL") <=>
                    cpu[c].call.fn \in {"Start", "EnableAutoRestart", "DisableAutoRestart"}
               /\ \A fns : Lands(c, fns) <=> cpu[c].call.fn \in fns
               /\ Lands(c, {"Start"}) =>
                    (7 \in Driver!Written(cpu[c].call, cpu[c].word) <=> 7 \in cpu[c].word)
               /\ Lands(c, {"EnableAutoRestart"}) => 7 \in Driver!Written(cpu[c].call, cpu[c].word)
               /\ Lands(c, {"DisableAutoRestart"}) => 7 \notin Driver!Written(cpu[c].call, cpu[c].word)
    <2>1. cpu[c].call \in Driver!Calls
      BY <1>1, Constants DEF BusInv, ClientOK, Hands
    <2>2. \A fns : Lands(c, fns) <=> cpu[c].call.fn \in fns
      BY <1>1 DEF Changes, ClientChanges
    <2>3. QED
      BY <1>1, <2>1, <2>2, CallFacts DEF Stores, Writes
  <1>2. \A c \in Clients : \A fns : Lands(c, fns) => Hands(c)
    BY DEF Changes, ClientChanges
  <1>3. /\ \A c \in Clients : Stores(c, "AP_CTRL") =>
            (ap'.auto <=> 7 \in Driver!Written(cpu[c].call, cpu[c].word))
        /\ (\A c \in Clients : ~Stores(c, "AP_CTRL")) => (ap'.auto <=> ap.auto)
    BY DEF Changes, AutoChanges
  <1>4. CASE \E c \in Clients : Stores(c, "AP_CTRL")
    <2>1. PICK c \in Clients : Stores(c, "AP_CTRL")
      BY <1>4
    <2>2. Hands(c) /\ \A d \in Clients : Hands(d) => d = c
      BY <2>1 DEF Stores, Changes, ClientChanges
    <2>3. \A fns : (Commands(fns) <=> Lands(c, fns)) /\ \A d \in Clients : Lands(d, fns) => d = c
      BY <1>2, <2>2 DEF Commands
    <2>4. QED
      BY <1>1, <1>3, <2>1, <2>2, <2>3
  <1>5. CASE \A c \in Clients : ~Stores(c, "AP_CTRL")
    <2>1. \A c \in Clients : ~Lands(c, {"Start"}) /\ ~Lands(c, {"EnableAutoRestart"})
                             /\ ~Lands(c, {"DisableAutoRestart"})
      BY <1>1, <1>2, <1>5
    <2>2. QED
      BY <1>3, <1>5, <2>1 DEF Commands
  <1>6. QED
    BY <1>4, <1>5

(* After DisableAutoRestart the block begins at most once more, whatever   *)
(* the clients were doing, until somebody starts it or switches on again.  *)
THEOREM Stops == EventsSpec => []StopsWhenTold
  <1>1. EventsInit => StopsInv
    BY HLSEventsAssumption DEF EventsInit, HistoryInit, StopsInv
  <1>2. BusInv /\ StopsInv /\ [EventsNext]_allvars => StopsInv'
    <2> SUFFICES ASSUME BusInv, StopsInv, [EventsNext]_allvars PROVE StopsInv'
      OBVIOUS
    <2>1. CASE UNCHANGED allvars
      BY <2>1 DEF StopsInv, allvars, vars, history
    <2>2. CASE EventsNext
      <3>1. Changes /\ more' = IF Commands({"Start", "EnableAutoRestart"}) THEN None
                               ELSE IF Commands({"DisableAutoRestart"}) THEN 0
                               ELSE IF Begins /\ more \in {0, 1} THEN more + 1 ELSE more
        BY <2>2, StepChanges DEF EventsNext, History
      <3>2. CASE Commands({"Start", "EnableAutoRestart"})
        BY <3>1, <3>2, HLSEventsAssumption DEF StopsInv
      <3>3. CASE ~Commands({"Start", "EnableAutoRestart"})
        <4>1. /\ ~Commands({"Start"}) /\ ~Commands({"EnableAutoRestart"})
              /\ ~\E c \in Clients : Lands(c, {"Start"})
          BY <3>3 DEF Commands, Lands
        <4>2. /\ ap'.auto => ap.auto /\ ~Commands({"DisableAutoRestart"})
              /\ ap'.start <=> IF Ends THEN ap.auto ELSE ap.start
          BY <3>1, <4>1, AutoCalls DEF Changes, StartChanges
        <4>3. CASE Commands({"DisableAutoRestart"})
          BY <3>1, <3>3, <4>2, <4>3 DEF StopsInv
        <4>4. CASE ~Commands({"DisableAutoRestart"}) /\ Begins /\ more \in {0, 1}
          <5>1. core.state = "state1" /\ core'.state # "state1" /\ ap.start
            BY <3>1, <4>4 DEF Begins, Changes, CoreChanges
          <5>2. more = 0 /\ more' = 1
            BY <3>1, <3>3, <4>4, <5>1 DEF StopsInv
          <5>3. QED
            BY <4>2, <5>1, <5>2, HLSEventsAssumption DEF StopsInv
        <4>5. CASE ~Commands({"DisableAutoRestart"}) /\ ~(Begins /\ more \in {0, 1})
          <5>1. more' = more
            BY <3>1, <3>3, <4>5
          <5>2. CASE more = 1
            <6>1. ~ap.auto /\ ~Begins /\ (core.state # "state1" \/ ~ap.start)
              BY <4>5, <5>2, HLSEventsAssumption DEF StopsInv
            <6>2. core'.state # "state1" \/ ~ap'.start
              BY <4>2, <6>1 DEF Begins, Ends
            <6>3. QED
              BY <4>2, <5>1, <5>2, <6>1, <6>2 DEF StopsInv
          <5>3. CASE more # 1
            BY <4>2, <5>1, <5>3 DEF StopsInv
          <5>4. QED
            BY <5>2, <5>3
        <4>6. QED
          BY <4>3, <4>4, <4>5
      <3>4. QED
        BY <3>2, <3>3
    <2>3. QED
      BY <2>1, <2>2
  <1>3. StopsInv => StopsWhenTold
    BY HLSEventsAssumption DEF StopsInv, StopsWhenTold
  <1>4. QED
    BY <1>1, <1>2, <1>3, BusInvariant, PTL DEF EventsSpec
-----------------------------------------------------------------------------
(* What holds for some programs.                                           *)

(* The steps of a call that keep the client's knowledge.                   *)
LEMMA Fields ==
    ASSUME BusInv, NEW c \in Clients
    PROVE  /\ Turns(c) => /\ cpu[c].stage = "reading" /\ cpu'[c].stage = "toWrite"
                          /\ cpu'[c].word = bus.rdata
           /\ GoesOn(c) => /\ cpu[c].stage = "toWrite" /\ cpu'[c].stage = "writing"
                           /\ cpu'[c].word = cpu[c].word
           /\ Hands(c) => cpu[c].stage = "writing" /\ cpu'[c].stage = "responding"
           /\ Turns(c) \/ GoesOn(c) \/ Hands(c) => /\ cpu'[c].call = cpu[c].call
                                                   /\ cpu'[c].free = cpu[c].free
                                                   /\ cpu'[c].status = cpu[c].status
           /\ cpu[c].stage \in {"away", "reading", "toWrite", "writing", "responding"}
           /\ cpu[c].stage # "away" => cpu[c].call \in Program[c] /\ cpu[c].call \in Driver!Calls
  <1>1. cpu[c] \in Driver!Cpus /\ ClientOK(c)
    BY DEF BusInv, TypeOK
  <1>2. QED
    BY <1>1, Constants DEF Turns, GoesOn, Hands, Driver!Cpus, Driver!Stages, ClientOK

Restarting == {"Start", "EnableAutoRestart", "DisableAutoRestart"}

(* Client s alone writes AP_CTRL. *)
OneSwitch(s) == \A c \in Clients : \A x \in Program[c] : x.fn \in Restarting => c = s

(* What s has read of automatic restart is still so when it is written     *)
(* back.                                                                   *)
RestartInv(s) ==
    /\ restarts \in BOOLEAN /\ (ap.auto <=> restarts)
    /\ cpu[s].stage # "away" /\ cpu[s].call.fn = "Start" =>
        /\ cpu[s].stage = "reading" => (7 \in bus.rdata <=> ap.auto)
        /\ cpu[s].stage \in {"toWrite", "writing"} => (7 \in cpu[s].word <=> ap.auto)

(* Where one client alone writes AP_CTRL, automatic restart is as it was   *)
(* switched last: the read and the write of a start change nothing in it.  *)
THEOREM StartKeepsRestart ==
    ASSUME NEW s \in Clients, OneSwitch(s)
    PROVE  EventsSpec => []RestartAsSwitched
  <1>1. EventsInit => RestartInv(s)
    <2> SUFFICES ASSUME EventsInit PROVE RestartInv(s)
      OBVIOUS
    <2>1. cpu[s].stage = "away"
      BY DEF EventsInit, Init, Driver!Init
    <2>2. ~ap.auto /\ restarts = FALSE
      BY DEF EventsInit, HistoryInit, Init, Ctrl!Init
    <2>3. QED
      BY <2>1, <2>2 DEF RestartInv
  <1>2. BusInv /\ RestartInv(s) /\ [EventsNext]_allvars => RestartInv(s)'
    <2> SUFFICES ASSUME BusInv, RestartInv(s), [EventsNext]_allvars PROVE RestartInv(s)'
      OBVIOUS
    <2>1. CASE UNCHANGED allvars
      BY <2>1 DEF RestartInv, allvars, vars, history
    <2>2. CASE EventsNext
      <3>1. Changes /\ restarts' = IF Commands({"EnableAutoRestart"}) THEN TRUE
                                   ELSE restarts /\ ~Commands({"DisableAutoRestart"})
        BY <2>2, StepChanges DEF EventsNext, History
      <3>2. ASSUME NEW c \in Clients, NEW fns \in SUBSET Restarting, Lands(c, fns)
            PROVE  c = s /\ Hands(s)
        <4>1. Hands(c) /\ cpu[c].call.fn \in Restarting
          BY <3>1, <3>2 DEF Changes, ClientChanges
        <4>2. cpu[c].call \in Program[c]
          BY <4>1, Fields
        <4>3. QED
          BY <4>1, <4>2 DEF OneSwitch
      <3>3. CASE Hands(s)
        <4>1. \A fns : Lands(s, fns) <=> cpu[s].call.fn \in fns
          BY <3>1, <3>3 DEF Changes, ClientChanges
        <4>2. \A fns \in SUBSET Restarting : Commands(fns) <=> cpu[s].call.fn \in fns
          BY <3>2, <4>1 DEF Commands
        <4>3. /\ {"Start"} \in SUBSET Restarting /\ {"EnableAutoRestart"} \in SUBSET Restarting
              /\ {"DisableAutoRestart"} \in SUBSET Restarting
          BY DEF Restarting
        <4>4. ap'.auto <=> restarts'
          <5>1. /\ Commands({"EnableAutoRestart"}) <=> cpu[s].call.fn = "EnableAutoRestart"
                /\ Commands({"DisableAutoRestart"}) <=> cpu[s].call.fn = "DisableAutoRestart"
                /\ \A c \in Clients : Lands(c, {"Start"}) => c = s
                /\ Lands(s, {"Start"}) <=> cpu[s].call.fn = "Start"
            BY <3>2, <4>1, <4>2, <4>3
          <5>2. cpu[s].call.fn = "Start" => (7 \in cpu[s].word <=> ap.auto)
            BY <3>3, Fields DEF RestartInv
          <5>3. ap.auto <=> restarts
            BY DEF RestartInv
          <5>4. QED
            BY <3>1, <5>1, <5>2, <5>3, AutoCalls
        <4>5. restarts' \in BOOLEAN
          BY <3>1 DEF RestartInv
        <4>6. cpu'[s].stage = "responding"
          BY <3>3, Fields
        <4>7. QED
          BY <4>4, <4>5, <4>6 DEF RestartInv
      <3>4. CASE ~Hands(s)
        <4>1. /\ ~Commands({"EnableAutoRestart"}) /\ ~Commands({"DisableAutoRestart"})
              /\ ~\E c \in Clients : Lands(c, {"Start"})
          BY <3>2, <3>4 DEF Commands, Restarting
        <4>2. (ap'.auto <=> ap.auto) /\ restarts' = restarts
          BY <3>1, <4>1, AutoCalls DEF RestartInv
        <4>3. Does(s) /\ (cpu[s].stage = "reading" => bus'.rdata = bus.rdata)
          BY <3>1 DEF Changes, ClientChanges
        <4>4. ASSUME NEW x \in Program[s], BeginsRead(s, x) PROVE RestartInv(s)'
          <5>1. bus'.rdata = Ctrl!Answer(Driver!Reads(x)) /\ cpu'[s].call = x /\ cpu'[s].stage = "reading"
            BY <3>1, <4>4 DEF Changes, ClientChanges, BeginsRead, Enters
          <5>2. x.fn = "Start" => Driver!Reads(x) = "AP_CTRL"
            BY CallFacts, Constants
          <5>3. QED
            BY <4>2, <5>1, <5>2, AnswerFacts DEF RestartInv
        <4>5. ASSUME NEW x \in Program[s], BeginsWrite(s, x) PROVE RestartInv(s)'
          <5>1. cpu'[s].call = x /\ Driver!Reads(x) = None
            BY <4>5 DEF BeginsWrite, Enters
          <5>2. x.fn # "Start"
            BY <5>1, CallFacts, Constants, HLSTopAssumption DEF Ctrl!Addrs
          <5>3. QED
            BY <4>2, <5>1, <5>2 DEF RestartInv
        <4>6. CASE Turns(s) \/ GoesOn(s)
          BY <4>2, <4>6, Fields DEF RestartInv
        <4>7. CASE EndsRead(s) \/ EndsWrite(s)
          BY <4>2, <4>7 DEF RestartInv, EndsRead, EndsWrite, Leaves
        <4>8. CASE cpu'[s] = cpu[s]
          BY <4>2, <4>3, <4>8 DEF RestartInv
        <4>9. QED
          BY <3>4, <4>3, <4>4, <4>5, <4>6, <4>7, <4>8 DEF Does
      <3>5. QED
        BY <3>3, <3>4
    <2>3. QED
      BY <2>1, <2>2
  <1>3. BusInv /\ RestartInv(s) => RestartAsSwitched
    BY DEF BusInv, TypeOK, Ctrl!BusTypeOK, RestartInv, RestartAsSwitched
  <1>4. QED
    BY <1>1, <1>2, <1>3, BusInvariant, PTL DEF EventsSpec
(* Client h alone clears interrupts. *)
OneHandler(h) == \A c \in Clients : \A x \in Program[c] : x.fn = "InterruptClear" => c = h

(* What h has read of the flags, and not cleared, is still up.             *)
FlagInv(h) ==
    /\ isr = owed
    /\ cpu[h].status \subseteq isr
    /\ cpu[h].stage = "reading" /\ cpu[h].call.fn = "InterruptGetStatus" => bus.rdata \subseteq isr
    /\ cpu[h].stage = "writing" /\ cpu[h].call.fn = "InterruptClear" =>
        cpu[h].call.val \subseteq isr /\ cpu[h].call.val \cap cpu[h].status = {}

(* The flags at an edge, h being the only one to clear any. *)
LEMMA FlagStep ==
    ASSUME NEW h \in Clients, OneHandler(h), BusInv, FlagInv(h), Changes,
           owed' = (owed \ Cleared) \cup Raised
    PROVE  /\ isr' = owed'
           /\ isr' = (isr \ (IF Lands(h, {"InterruptClear"}) THEN cpu[h].call.val ELSE {})) \cup Raised
  <1>1. ASSUME NEW c \in Clients, Lands(c, {"InterruptClear"}) PROVE c = h
    <2>1. Hands(c) /\ cpu[c].call.fn = "InterruptClear"
      BY <1>1 DEF Changes, ClientChanges
    <2>2. cpu[c].call \in Program[c]
      BY <2>1, Fields
    <2>3. QED
      BY <2>1, <2>2 DEF OneHandler
  <1>2. isr \subseteq Ctrl!Channels /\ Raised \subseteq Ctrl!Channels
    BY DEF BusInv, TypeOK, Ctrl!BusTypeOK, Raised
  <1>3. Lands(h, {"InterruptClear"}) => cpu[h].call.val \subseteq isr
    BY DEF Lands, FlagInv
  <1>4. \A k : k \in Cleared <=> \E c \in Clients : Lands(c, {"InterruptClear"}) /\ k \in cpu[c].call.val
    BY DEF Cleared
  <1>5. isr' = {k \in Ctrl!Channels :
                    \/ k \in Raised
                    \/ ~(k \in isr <=> \E c \in Clients : /\ Lands(c, {"InterruptClear"})
                                                           /\ k \in cpu[c].call.val)}
    BY DEF Changes, FlagChanges
  <1>6. CASE Lands(h, {"InterruptClear"})
    <2>1. \A k : (\E c \in Clients : Lands(c, {"InterruptClear"}) /\ k \in cpu[c].call.val) <=> k \in cpu[h].call.val
      BY <1>1, <1>6
    <2>2. isr' = (isr \ cpu[h].call.val) \cup Raised
      BY <1>2, <1>3, <1>5, <1>6, <2>1
    <2>3. owed' = (isr \ cpu[h].call.val) \cup Raised
      BY <1>4, <2>1 DEF FlagInv
    <2>4. QED
      BY <1>6, <2>2, <2>3
  <1>7. CASE ~Lands(h, {"InterruptClear"})
    <2>1. \A k : ~\E c \in Clients : Lands(c, {"InterruptClear"}) /\ k \in cpu[c].call.val
      BY <1>1, <1>7
    <2>2. isr' = isr \cup Raised
      BY <1>2, <1>5, <2>1
    <2>3. owed' = isr \cup Raised
      BY <1>4, <2>1 DEF FlagInv
    <2>4. QED
      BY <1>7, <2>2, <2>3
  <1>8. QED
    BY <1>6, <1>7

(* Where one careful client alone clears interrupts, a flag is up exactly  *)
(* when its interrupt came and was not cleared since, although writing ISR *)
(* toggles: h never toggles a flag up, and an interrupt that comes at the  *)
(* edge of the write stays.                                                *)
THEOREM Flags ==
    ASSUME NEW h \in Clients, OneHandler(h), Careful
    PROVE  EventsSpec => []FlagsAreEvents
  <1>1. EventsInit => FlagInv(h)
    <2> SUFFICES ASSUME EventsInit PROVE FlagInv(h)
      OBVIOUS
    <2>1. cpu[h].stage = "away" /\ cpu[h].status = {}
      BY DEF EventsInit, Init, Driver!Init
    <2>2. isr = {} /\ owed = {}
      BY DEF EventsInit, HistoryInit, Init, Ctrl!Init
    <2>3. QED
      BY <2>1, <2>2 DEF FlagInv
  <1>2. BusInv /\ FlagInv(h) /\ [EventsNext]_allvars => FlagInv(h)'
    <2> SUFFICES ASSUME BusInv, FlagInv(h), [EventsNext]_allvars PROVE FlagInv(h)'
      OBVIOUS
    <2>1. CASE UNCHANGED allvars
      BY <2>1 DEF FlagInv, allvars, vars, history
    <2>2. CASE EventsNext
      <3>1. Changes /\ owed' = (owed \ Cleared) \cup Raised
        BY <2>2, StepChanges DEF EventsNext, History
      <3>2. /\ isr' = owed'
            /\ isr' = (isr \ (IF Lands(h, {"InterruptClear"}) THEN cpu[h].call.val ELSE {})) \cup Raised
        BY <3>1, FlagStep
      <3>3. /\ Does(h) /\ (cpu[h].stage = "reading" => bus'.rdata = bus.rdata)
            /\ Lands(h, {"InterruptClear"}) <=> Hands(h) /\ cpu[h].call.fn = "InterruptClear"
        BY <3>1 DEF Changes, ClientChanges
      <3>4. CASE Hands(h)
        <4>1. cpu[h].stage = "writing" /\ cpu'[h].stage = "responding" /\ cpu'[h].status = cpu[h].status
          BY <3>4, Fields
        <4>2. QED
          BY <3>2, <3>3, <3>4, <4>1 DEF FlagInv
      <3>5. CASE ~Hands(h)
        <4>1. isr \subseteq isr' /\ isr' = owed'
          BY <3>2, <3>3, <3>5
        <4>2. ASSUME NEW x \in Program[h], BeginsRead(h, x) PROVE FlagInv(h)'
          <5>1. /\ bus'.rdata = Ctrl!Answer(Driver!Reads(x)) /\ Driver!Reads(x) # None
                /\ cpu'[h].call = x /\ cpu'[h].stage = "reading"
                /\ cpu'[h].status = IF x.fn = "InterruptClear" THEN cpu[h].status \ x.val ELSE cpu[h].status
            BY <3>1, <4>2 DEF Changes, ClientChanges, BeginsRead, Enters
          <5>2. x.fn = "InterruptGetStatus" => bus'.rdata = isr
            BY <5>1, CallFacts, Constants, AnswerFacts
          <5>3. QED
            BY <4>1, <5>1, <5>2 DEF FlagInv
        <4>3. ASSUME NEW x \in Program[h], BeginsWrite(h, x) PROVE FlagInv(h)'
          <5>1. /\ cpu'[h].call = x /\ cpu'[h].stage = "writing"
                /\ cpu'[h].status = IF x.fn = "InterruptClear" THEN cpu[h].status \ x.val ELSE cpu[h].status
                /\ x.fn = "InterruptClear" => x.val \subseteq cpu[h].status
            BY <4>3 DEF BeginsWrite, Enters
          <5>2. x.fn = "InterruptClear" => x.val \subseteq isr' /\ x.val \cap cpu'[h].status = {}
            BY <4>1, <5>1 DEF FlagInv
          <5>3. QED
            BY <4>1, <5>1, <5>2 DEF FlagInv
        <4>4. CASE Turns(h)
          BY <4>1, <4>4, Fields DEF FlagInv
        <4>5. CASE GoesOn(h)
          <5>1. Reads(h) # None /\ cpu[h].call \in Driver!Calls
            BY <4>5, Fields DEF BusInv, ClientOK
          <5>2. cpu[h].call.fn # "InterruptClear"
            BY <5>1, CallFacts DEF Reads
          <5>3. QED
            BY <4>1, <4>5, <5>2, Fields DEF FlagInv
        <4>6. CASE EndsRead(h) \/ EndsWrite(h)
          <5>1. cpu'[h].stage = "away"
            BY <4>6 DEF EndsRead, EndsWrite, Leaves
          <5>2. cpu'[h].status \subseteq isr
            BY <4>6 DEF EndsRead, EndsWrite, Leaves, FlagInv
          <5>3. QED
            BY <4>1, <5>1, <5>2 DEF FlagInv
        <4>7. CASE cpu'[h] = cpu[h]
          BY <4>1, <3>3, <4>7 DEF FlagInv
        <4>8. QED
          BY <3>3, <3>5, <4>2, <4>3, <4>4, <4>5, <4>6, <4>7 DEF Does
      <3>6. QED
        BY <3>4, <3>5
    <2>3. QED
      BY <2>1, <2>2
  <1>3. FlagInv(h) => FlagsAreEvents
    BY DEF FlagInv, FlagsAreEvents
  <1>4. QED
    BY <1>1, <1>2, <1>3, BusInvariant, PTL DEF EventsSpec
(* Client s alone starts the block and sets its arguments, and nobody lets *)
(* it restart by itself.                                                   *)
OneStarter(s) ==
    \A c \in Clients : \A x \in Program[c] : /\ x.fn \in {"Start", "Set"} => c = s
                                             /\ x.fn # "EnableAutoRestart"

(* Nothing runs and nothing waits to run. *)
Quiet == core.state = "state1" /\ ~ap.start

(* A start goes through ap.start, which stays up until the run ends.       *)
RunInv ==
    /\ run \in {"none", "asked", "begun"}
    /\ run = "none" <=> Quiet
    /\ run = "asked" <=> core.state = "state1" /\ ap.start
    /\ core.state # "state1" => ap.start
    /\ run = "asked" => data = asked

(* What AP_CTRL says of it. *)
WordInv(s) ==
    /\ ~ap.auto
    /\ ap.done => Quiet
    /\ ap.idle => Quiet \/ (cpu[s].stage = "responding" /\ cpu[s].call.fn = "Start")

(* What s knows of it, or is about to be told. *)
KnowsInv(s) ==
    /\ cpu[s].free => Quiet
    /\ cpu[s].stage = "reading" /\ Driver!Says(cpu[s].call, bus.rdata) => Quiet
    /\ cpu[s].stage = "writing" /\ cpu[s].call.fn = "Set" => cpu[s].free
    /\ cpu[s].stage # "away" /\ cpu[s].call.fn = "Start" =>
        /\ ~cpu[s].free
        /\ cpu[s].stage \in {"reading", "toWrite", "writing"} => Quiet /\ ~ap.done
        /\ cpu[s].stage = "reading" => 7 \notin bus.rdata
        /\ cpu[s].stage \in {"toWrite", "writing"} => 7 \notin cpu[s].word

StarterInv(s) == RunInv /\ WordInv(s) /\ KnowsInv(s)

LEMMA QuietStays ==
    ASSUME Changes, Quiet, ~Commands({"Start"})
    PROVE  Quiet' /\ ~Begins /\ ~Ends /\ core' = core
  BY DEF Changes, CoreChanges, StartChanges, Quiet, Begins, Ends

(* Only s writes the registers that start a run or describe it.            *)
LEMMA OnlyStarter ==
    ASSUME NEW s \in Clients, OneStarter(s), BusInv, Changes
    PROVE  /\ Commands({"Start"}) <=> Hands(s) /\ cpu[s].call.fn = "Start"
           /\ Commands({"Set"}) => Hands(s) /\ cpu[s].call.fn = "Set"
           /\ \A c \in Clients : Lands(c, {"Start"}) => c = s
           /\ ~Commands({"EnableAutoRestart"})
  <1>1. ASSUME NEW c \in Clients, NEW f \in {"Start", "Set", "EnableAutoRestart"}
        PROVE  Lands(c, {f}) => Hands(c) /\ cpu[c].call.fn = f /\ c = s /\ f # "EnableAutoRestart"
    <2>1. SUFFICES ASSUME Lands(c, {f})
                   PROVE  Hands(c) /\ cpu[c].call.fn = f /\ c = s /\ f # "EnableAutoRestart"
      OBVIOUS
    <2>2. Hands(c) /\ cpu[c].call.fn = f
      BY <2>1 DEF Changes, ClientChanges
    <2>3. cpu[c].call \in Program[c]
      BY <2>2, Fields
    <2>4. QED
      BY <2>2, <2>3 DEF OneStarter
  <1>2. Hands(s) /\ cpu[s].call.fn = "Start" => Lands(s, {"Start"})
    BY DEF Changes, ClientChanges
  <1>3. QED
    BY <1>1, <1>2 DEF Commands

(* The edge of the clock at which a start is written.                      *)
LEMMA StartLands ==
    ASSUME NEW s \in Clients, OneStarter(s), BusInv, StarterInv(s), Changes, History,
           Hands(s), cpu[s].call.fn = "Start"
    PROVE  StarterInv(s)' /\ run = "none" /\ ~Begins
  <1>1. /\ cpu[s].stage = "writing" /\ cpu'[s].stage = "responding" /\ cpu'[s].call = cpu[s].call
        /\ cpu'[s].free = cpu[s].free
    BY Fields
  <1>2. Quiet /\ ~ap.done /\ 7 \notin cpu[s].word /\ ~cpu[s].free /\ ~ap.auto /\ run = "none"
    BY <1>1 DEF StarterInv, KnowsInv, WordInv, RunInv
  <1>3. /\ Commands({"Start"}) /\ ~Commands({"EnableAutoRestart"}) /\ ~Commands({"Set"})
        /\ \A c \in Clients : Lands(c, {"Start"}) => c = s
    BY OnlyStarter
  <1>4. core' = core /\ ap'.start /\ ~Begins /\ ~Ends
    BY <1>2, <1>3 DEF Changes, CoreChanges, StartChanges, Quiet, Begins, Ends
  <1>5. ~ap'.auto /\ ~ap'.done /\ data' = data
    BY <1>2, <1>3, <1>4, AutoCalls DEF Changes, DoneChanges, DataChanges
  <1>6. run' = "asked" /\ asked' = data
    BY <1>3 DEF History
  <1>7. RunInv'
    BY <1>2, <1>4, <1>5, <1>6 DEF RunInv, Quiet
  <1>8. WordInv(s)' /\ KnowsInv(s)'
    BY <1>1, <1>2, <1>5 DEF WordInv, KnowsInv
  <1>9. QED
    BY <1>2, <1>4, <1>7, <1>8 DEF StarterInv

(* The other edges.  *)
LEMMA NoStart ==
    ASSUME NEW s \in Clients, OneStarter(s), BusInv, StarterInv(s), Changes, History,
           ~(Hands(s) /\ cpu[s].call.fn = "Start")
    PROVE  /\ ~Commands({"Start"}) /\ (Quiet => Quiet')
           /\ RunInv' /\ ~ap'.auto /\ (ap'.done => Quiet') /\ (ap'.idle => Quiet')
           /\ Begins => run = "asked" /\ core'.args = data
           /\ Quiet /\ ~ap.done => ~ap'.done
  <1>1. ~Commands({"Start"}) /\ ~Commands({"EnableAutoRestart"})
        /\ (Commands({"Set"}) => Hands(s) /\ cpu[s].call.fn = "Set")
        /\ \A c \in Clients : ~Lands(c, {"Start"})
    BY OnlyStarter DEF Commands
  <1>2. Quiet => Quiet' /\ ~Begins /\ ~Ends
    BY <1>1, QuietStays
  <1>3. ~ap.auto /\ ~ap'.auto
    BY <1>1, AutoCalls DEF StarterInv, WordInv
  <1>4. ap'.start <=> ~Ends /\ ap.start
    BY <1>1, <1>3 DEF Changes, StartChanges
  <1>5. Ends => Quiet'
    BY <1>4 DEF Ends, Quiet
  <1>6. ap'.done => Quiet'
    BY <1>2, <1>5 DEF Changes, DoneChanges, StarterInv, WordInv
  <1>7. ap'.idle => Quiet'
    BY <1>2 DEF Changes, IdleChanges, Quiet
  <1>8. Begins => core.state = "state1" /\ ap.start /\ core'.args = data
    BY DEF Changes, CoreChanges, Begins
  <1>9. RunInv'
    <2>1. run' = IF Begins THEN "begun" ELSE IF Ends THEN "none" ELSE run
      BY <1>1 DEF History
    <2>2. RunInv
      BY DEF StarterInv
    <2>3. run = "asked" => data' = data /\ asked' = asked
      <3>1. Commands({"Set"}) => Quiet
        BY <1>1, Fields DEF StarterInv, KnowsInv
      <3>2. run = "asked" => ~Quiet
        BY <2>2 DEF RunInv, Quiet
      <3>3. QED
        BY <1>1, <3>1, <3>2 DEF Changes, DataChanges, History
    <2>4. core'.state # "state1" => ap'.start
      BY <1>4, <2>2 DEF Changes, CoreChanges, RunInv, Ends
    <2>5. CASE Begins
      BY <1>4, <1>8, <2>1, <2>2, <2>4, <2>5 DEF RunInv, Quiet, Begins, Ends
    <2>6. CASE Ends
      BY <1>4, <2>1, <2>4, <2>6 DEF RunInv, Quiet, Begins, Ends
    <2>7. CASE ~Begins /\ ~Ends
      <3>1. core.state = "state1" <=> core'.state = "state1"
        BY <2>7 DEF Begins, Ends
      <3>2. QED
        BY <1>4, <2>1, <2>2, <2>3, <2>4, <2>7, <3>1 DEF RunInv, Quiet
    <2>8. QED
      BY <2>5, <2>6, <2>7
  <1>10. Quiet /\ ~ap.done => ~ap'.done
    BY <1>2 DEF Changes, DoneChanges
  <1>11. QED
    BY <1>1, <1>2, <1>3, <1>6, <1>7, <1>8, <1>9, <1>10 DEF StarterInv, RunInv
(* What s knows stays so until s starts the block itself.                  *)
LEMMA KnowsStep ==
    ASSUME NEW s \in Clients, OneStarter(s), Careful, BusInv, StarterInv(s), Changes, History,
           ~(Hands(s) /\ cpu[s].call.fn = "Start")
    PROVE  KnowsInv(s)'
  <1>1. /\ Quiet => Quiet'
        /\ Quiet /\ ~ap.done => ~ap'.done
    BY NoStart
  <1>2. Does(s) /\ (cpu[s].stage = "reading" => bus'.rdata = bus.rdata)
    BY DEF Changes, ClientChanges
  <1>3. ASSUME NEW x \in Program[s], BeginsRead(s, x) PROVE KnowsInv(s)'
    <2>1. /\ bus'.rdata = Ctrl!Answer(Driver!Reads(x)) /\ x \in Driver!Calls
          /\ cpu[s].stage = "away" /\ cpu'[s].call = x /\ cpu'[s].stage = "reading"
          /\ cpu'[s].free = (cpu[s].free /\ x.fn # "Start")
          /\ x.fn = "Start" => cpu[s].free
      BY <1>3, Constants DEF Changes, ClientChanges, BeginsRead, Enters
    <2>2. cpu[s].free => Quiet
      BY DEF StarterInv, KnowsInv
    <2>3. x.fn \in {"Start", "IsDone", "IsIdle", "IsReady"} =>
            /\ Driver!Reads(x) = "AP_CTRL"
            /\ 0 \in bus'.rdata <=> ap.start
            /\ 1 \in bus'.rdata <=> ap.done
            /\ 2 \in bus'.rdata <=> ap.idle
            /\ 7 \notin bus'.rdata
      BY <2>1, CallFacts, AnswerFacts DEF StarterInv, WordInv
    <2>4. Driver!Says(x, bus'.rdata) => Quiet
      <3>1. (ap.done => Quiet) /\ (ap.idle => Quiet) /\ (~ap.start => Quiet)
        BY <2>1 DEF StarterInv, WordInv, RunInv, Quiet
      <3>2. QED
        BY <2>3, <3>1 DEF Driver!Says
    <2>5. x.fn = "Start" => Quiet' /\ ~ap'.done /\ 7 \notin bus'.rdata
      <3>1. SUFFICES ASSUME x.fn = "Start" PROVE Quiet' /\ ~ap'.done /\ 7 \notin bus'.rdata
        OBVIOUS
      <3>2. Quiet /\ Samples(s, "AP_CTRL")
        BY <1>3, <2>1, <2>2, <2>3, <3>1 DEF Samples
      <3>3. ~Ends
        BY <3>2, NoStart, QuietStays
      <3>4. ~ap'.done
        BY <3>2, <3>3 DEF Changes, DoneChanges
      <3>5. QED
        BY <1>1, <2>3, <3>1, <3>2, <3>4
    <2>6. QED
      BY <1>1, <2>1, <2>2, <2>4, <2>5 DEF KnowsInv
  <1>4. ASSUME NEW x \in Program[s], BeginsWrite(s, x) PROVE KnowsInv(s)'
    <2>1. /\ Driver!Reads(x) = None /\ x \in Driver!Calls
          /\ cpu'[s].call = x /\ cpu'[s].stage = "writing"
          /\ cpu'[s].free = (cpu[s].free /\ x.fn # "Start")
          /\ x.fn = "Set" => cpu[s].free
      BY <1>4, Constants DEF BeginsWrite, Enters
    <2>2. x.fn # "Start"
      BY <2>1, CallFacts, HLSTopAssumption DEF Ctrl!Addrs
    <2>3. cpu[s].free => Quiet'
      BY <1>1 DEF StarterInv, KnowsInv
    <2>4. QED
      BY <2>1, <2>2, <2>3 DEF KnowsInv
  <1>5. CASE Turns(s)
    BY <1>1, <1>5, Fields DEF StarterInv, KnowsInv
  <1>6. CASE GoesOn(s)
    <2>1. Reads(s) # None /\ cpu[s].call \in Driver!Calls
      BY <1>6, Fields DEF BusInv, ClientOK
    <2>2. cpu[s].call.fn # "Set"
      BY <2>1, CallFacts DEF Reads
    <2>3. QED
      BY <1>1, <1>6, <2>2, Fields DEF StarterInv, KnowsInv
  <1>7. CASE Hands(s)
    BY <1>1, <1>7, Fields DEF StarterInv, KnowsInv
  <1>8. CASE EndsRead(s)
    BY <1>1, <1>8 DEF StarterInv, KnowsInv, EndsRead, Leaves
  <1>9. CASE EndsWrite(s)
    <2>1. Writes(s) # None /\ cpu'[s].free = (cpu[s].free \/ Driver!Says(cpu[s].call, {}))
          /\ cpu'[s].stage = "away"
      BY <1>9 DEF EndsWrite, Leaves, BusInv, ClientOK, Busy
    <2>2. cpu[s].call.fn # "IsReady"
      BY <2>1 DEF Writes, Driver!Writes
    <2>3. ~Driver!Says(cpu[s].call, {})
      BY <2>2 DEF Driver!Says
    <2>4. QED
      BY <1>1, <2>1, <2>3 DEF StarterInv, KnowsInv
  <1>10. CASE cpu'[s] = cpu[s]
    BY <1>1, <1>2, <1>10 DEF StarterInv, KnowsInv
  <1>11. QED
    BY <1>2, <1>3, <1>4, <1>5, <1>6, <1>7, <1>8, <1>9, <1>10 DEF Does

LEMMA StarterInit ==
    ASSUME NEW s \in Clients, EventsInit
    PROVE  cpu[s].stage = "away" /\ StarterInv(s)
  <1>1. cpu[s].stage = "away"
    BY DEF EventsInit, Init, Driver!Init
  <1>2. /\ core.state = "state1" /\ ~ap.start /\ ~ap.auto /\ ~ap.done /\ ~ap.idle
        /\ run = "none"
    BY DEF EventsInit, HistoryInit, Init, Ctrl!Init, Core!Init
  <1>3. QED
    BY <1>1, <1>2 DEF StarterInv, RunInv, WordInv, KnowsInv, Quiet

LEMMA StarterStep ==
    ASSUME NEW s \in Clients, OneStarter(s), Careful, BusInv, StarterInv(s), EventsNext
    PROVE  /\ StarterInv(s)'
           /\ Commands({"Start"}) => run = "none"
           /\ Begins => run = "asked" /\ core'.args = data
  <1>1. Changes /\ History
    BY StepChanges DEF EventsNext
  <1>2. CASE Hands(s) /\ cpu[s].call.fn = "Start"
    BY <1>1, <1>2, StartLands
  <1>3. CASE ~(Hands(s) /\ cpu[s].call.fn = "Start")
    BY <1>1, <1>3, NoStart, KnowsStep DEF StarterInv, WordInv
  <1>4. QED
    BY <1>2, <1>3

LEMMA StarterInvariant ==
    ASSUME NEW s \in Clients, OneStarter(s), Careful
    PROVE  EventsSpec => []StarterInv(s)
  <1>1. EventsInit => StarterInv(s)
    BY StarterInit
  <1>2. BusInv /\ StarterInv(s) /\ [EventsNext]_allvars => StarterInv(s)'
    <2>1. UNCHANGED allvars /\ StarterInv(s) => StarterInv(s)'
      BY DEF StarterInv, RunInv, WordInv, KnowsInv, Quiet, allvars, vars, history
    <2>2. QED
      BY <2>1, StarterStep
  <1>3. QED
    BY <1>1, <1>2, BusInvariant, PTL DEF EventsSpec

(* Where one careful client starts the block, it is free whenever IsDone,  *)
(* IsIdle or IsReady has said so: done was cleared before the last start,  *)
(* and idle, a cycle late, is only believed while no start can be new.     *)
THEOREM Free ==
    ASSUME NEW s \in Clients, OneStarter(s), Careful
    PROVE  EventsSpec => []FreeWhenTold
  <1>1. StarterInv(s) => FreeWhenTold
    BY DEF StarterInv, KnowsInv, RunInv, Quiet, FreeWhenTold, Starters, OneStarter
  <1>2. QED
    BY <1>1, StarterInvariant, PTL

(* Every start of such a client is one run, and nothing else is.           *)
THEOREM Runs ==
    ASSUME NEW s \in Clients, OneStarter(s), Careful
    PROVE  EventsSpec => OneRunPerStart
  <1>1. BusInv /\ StarterInv(s) /\ [EventsNext]_allvars =>
            [/\ Commands({"Start"}) => run = "none"
             /\ Begins => run = "asked"]_allvars
    BY StarterStep
  <1>2. QED
    BY <1>1, BusInvariant, StarterInvariant, PTL DEF EventsSpec, OneRunPerStart

(* A run takes the arguments its start was written with, however late the  *)
(* block fetches them.                                                     *)
THEOREM Arguments ==
    ASSUME NEW s \in Clients, OneStarter(s), Careful
    PROVE  EventsSpec => RunsWithItsArguments
  <1>1. BusInv /\ StarterInv(s) /\ [EventsNext]_allvars => [Begins => core'.args = asked]_allvars
    BY StarterStep DEF StarterInv, RunInv
  <1>2. QED
    BY <1>1, BusInvariant, StarterInvariant, PTL DEF EventsSpec, RunsWithItsArguments

(* The result is that of the last instruction, except in the one cycle in  *)
(* which a FINISH has cleared it and not set it yet.                       *)
ResultInv ==
    /\ finishes \in BOOLEAN
    /\ core.state # "state80" => result.val = IF finishes THEN {0} ELSE {}
    /\ core.state = "state80" => finishes /\ Block = "compute"
    /\ Block # "compute" => ~finishes

LEMMA ResultStep == BusInv /\ ResultInv /\ [EventsNext]_allvars => ResultInv'
  <1> SUFFICES ASSUME BusInv, ResultInv, [EventsNext]_allvars PROVE ResultInv'
    OBVIOUS
  <1>1. CASE UNCHANGED allvars
    BY <1>1 DEF ResultInv, allvars, vars, history
  <1>2. CASE EventsNext
    <2>1. /\ Changes
          /\ finishes' = IF Begins THEN core'.state = "state80" ELSE finishes
      BY <1>2, StepChanges DEF EventsNext, History
    <2>2. result'.val = IF Block # "compute" THEN result.val
                        ELSE IF Begins THEN {} ELSE IF core.state = "state80" THEN {0} ELSE result.val
      BY <2>1 DEF Changes, ResultChanges
    <2>3. CASE Begins
      <3>1. core.state = "state1" /\ (core'.state = "running" \/ (Block = "compute" /\ core'.state = "state80"))
        BY <2>1, <2>3 DEF Changes, CoreChanges, Begins
      <3>2. QED
        BY <2>1, <2>2, <2>3, <3>1 DEF ResultInv
    <2>4. CASE ~Begins /\ core.state = "state80"
      <3>1. core'.state = "running"
        BY <2>1, <2>4 DEF Changes, CoreChanges
      <3>2. QED
        BY <2>1, <2>2, <2>4, <3>1 DEF ResultInv
    <2>5. CASE ~Begins /\ core.state # "state80"
      <3>1. core'.state # "state80"
        BY <2>1, <2>5 DEF Changes, CoreChanges, Begins
      <3>2. QED
        BY <2>1, <2>2, <2>5, <3>1 DEF ResultInv
    <2>6. QED
      BY <2>3, <2>4, <2>5
  <1>3. QED
    BY <1>1, <1>2

LEMMA ResultInvariant == EventsSpec => []ResultInv
  <1>1. EventsInit => ResultInv
    <2> SUFFICES ASSUME EventsInit PROVE ResultInv
      OBVIOUS
    <2>1. core.state = "state1" /\ result.val = {} /\ finishes = FALSE
      BY DEF EventsInit, HistoryInit, Init, Ctrl!Init, Core!Init
    <2>2. QED
      BY <2>1 DEF ResultInv
  <1>2. QED
    BY <1>1, ResultStep, BusInvariant, PTL DEF EventsSpec

(* A client that knows the block to be free reads in done_o whether the    *)
(* last instruction was a FINISH.                                          *)
THEOREM Results ==
    ASSUME NEW s \in Clients, OneStarter(s), Careful
    PROVE  EventsSpec => []ResultIsOfRun
  <1>1. FreeWhenTold /\ ResultInv => ResultIsOfRun
    BY DEF FreeWhenTold, ResultInv, ResultIsOfRun
  <1>2. QED
    BY <1>1, ResultInvariant, Free, PTL
-----------------------------------------------------------------------------
(* Jobs.  What the client that starts the block does at an edge, as seen   *)
(* from there.                                                             *)
Calls == cpu[Starter].free /\ ~cpu'[Starter].free /\ Calling' /\ data' = data
Starts == /\ ~cpu[Starter].free /\ ~cpu'[Starter].free /\ Calling /\ ~Calling'
          /\ Quiet /\ data' = data
IsTold == ~cpu[Starter].free /\ cpu'[Starter].free /\ ~Calling /\ Quiet /\ data' = data
SetsOne == /\ cpu[Starter].free /\ cpu'[Starter].free
           /\ \E r \in Ctrl!DataRegs, w \in Ctrl!Words : data' = [data EXCEPT ![r] = w]
Keeps == cpu'[Starter].free = cpu[Starter].free /\ (Calling' <=> Calling) /\ data' = data

LEMMA FreeIsBool == ASSUME BusInv, NEW c \in Clients PROVE cpu[c].free \in BOOLEAN
  BY DEF BusInv, TypeOK, Driver!Cpus

LEMMA StarterMoves ==
    ASSUME Starter \in Clients, OneStarter(Starter), Careful, BusInv, StarterInv(Starter), EventsNext
    PROVE  IF Commands({"Start"}) THEN Starts ELSE Calls \/ IsTold \/ SetsOne \/ Keeps
  <1> DEFINE s == Starter
  <1>0. Changes
    BY StepChanges DEF EventsNext
  <1>1. /\ Commands({"Start"}) <=> Hands(s) /\ cpu[s].call.fn = "Start"
        /\ Commands({"Set"}) => Hands(s) /\ cpu[s].call.fn = "Set"
    BY <1>0, OnlyStarter
  <1>2. Does(s) /\ KnowsInv(s)
    BY <1>0 DEF Changes, ClientChanges, StarterInv
  <1>3. Commands({"Set"}) \/ data' = data
    BY <1>0 DEF Changes, DataChanges
  <1>4. ASSUME NEW x \in Program[s], BeginsRead(s, x) PROVE Calls \/ Keeps
    <2>1. /\ cpu[s].stage = "away" /\ cpu'[s].call = x /\ cpu'[s].stage = "reading"
          /\ cpu'[s].free = (cpu[s].free /\ x.fn # "Start")
          /\ x.fn = "Start" => cpu[s].free
      BY <1>4 DEF BeginsRead, Enters
    <2>2. data' = data
      BY <1>1, <1>3, <2>1, Fields
    <2>3. ~Calling /\ (Calling' <=> x.fn = "Start")
      BY <2>1 DEF Calling
    <2>4. CASE x.fn = "Start"
      BY <2>1, <2>2, <2>3, <2>4 DEF Calls
    <2>5. CASE x.fn # "Start"
      <3>1. cpu'[s].free = cpu[s].free
        BY <2>1, <2>5, FreeIsBool
      <3>2. QED
        BY <2>2, <2>3, <2>5, <3>1 DEF Keeps
    <2>6. QED
      BY <2>4, <2>5
  <1>5. ASSUME NEW x \in Program[s], BeginsWrite(s, x) PROVE Keeps
    <2>1. /\ cpu[s].stage = "away" /\ cpu'[s].call = x /\ Driver!Reads(x) = None
          /\ cpu'[s].free = (cpu[s].free /\ x.fn # "Start") /\ x \in Driver!Calls
      BY <1>5, Constants DEF BeginsWrite, Enters
    <2>2. x.fn # "Start"
      BY <2>1, CallFacts, HLSTopAssumption DEF Ctrl!Addrs
    <2>3. data' = data /\ ~Calling /\ ~Calling'
      BY <1>1, <1>3, <2>1, <2>2, Fields DEF Calling
    <2>4. cpu'[s].free = cpu[s].free
      BY <2>1, <2>2, FreeIsBool
    <2>5. QED
      BY <2>3, <2>4 DEF Keeps
  <1>6. ASSUME Turns(s) \/ GoesOn(s) PROVE Keeps
    <2>1. /\ cpu[s].stage \in {"reading", "toWrite"} /\ cpu'[s].stage \in {"toWrite", "writing"}
          /\ cpu'[s].call = cpu[s].call /\ cpu'[s].free = cpu[s].free
      BY <1>6, Fields
    <2>2. data' = data
      BY <1>1, <1>3, <2>1, Fields
    <2>3. (Calling <=> cpu[s].call.fn = "Start") /\ (Calling' <=> cpu[s].call.fn = "Start")
      BY <2>1 DEF Calling
    <2>4. QED
      BY <2>1, <2>2, <2>3 DEF Keeps
  <1>7. CASE Hands(s)
    <2>1. /\ cpu[s].stage = "writing" /\ cpu'[s].stage = "responding"
          /\ cpu'[s].call = cpu[s].call /\ cpu'[s].free = cpu[s].free
      BY <1>7, Fields
    <2>2. (Calling <=> cpu[s].call.fn = "Start") /\ ~Calling'
      BY <2>1 DEF Calling
    <2>3. CASE cpu[s].call.fn = "Start"
      <3>1. ~cpu[s].free /\ Quiet /\ data' = data
        BY <1>1, <1>2, <1>3, <2>1, <2>3 DEF KnowsInv
      <3>2. QED
        BY <1>1, <1>7, <2>1, <2>2, <2>3, <3>1 DEF Starts
    <2>4. CASE cpu[s].call.fn = "Set"
      <3>1. cpu[s].free
        BY <1>2, <2>1, <2>4 DEF KnowsInv
      <3>2. CASE Commands({"Set"})
        BY <1>0, <1>1, <2>1, <2>4, <3>1, <3>2 DEF SetsOne, Changes, DataChanges
      <3>3. CASE data' = data
        BY <1>1, <2>1, <2>2, <2>4, <3>3 DEF Keeps
      <3>4. QED
        BY <1>1, <1>3, <2>4, <3>2, <3>3
    <2>5. CASE cpu[s].call.fn \notin {"Start", "Set"}
      BY <1>1, <1>3, <2>1, <2>2, <2>5 DEF Keeps
    <2>6. QED
      BY <1>1, <2>3, <2>4, <2>5
  <1>8. ASSUME EndsRead(s) PROVE IsTold \/ Keeps
    <2>1. /\ cpu[s].stage = "reading" /\ cpu'[s].stage = "away" /\ Writes(s) = None
          /\ cpu'[s].free = (cpu[s].free \/ Driver!Says(cpu[s].call, bus.rdata))
      BY <1>8 DEF EndsRead, Leaves
    <2>2. cpu[s].call.fn # "Start"
      BY <2>1, Fields, CallFacts, HLSTopAssumption DEF Writes, Ctrl!Addrs
    <2>3. data' = data /\ ~Calling /\ ~Calling'
      BY <1>1, <1>3, <2>1, <2>2, Fields DEF Calling
    <2>4. CASE Driver!Says(cpu[s].call, bus.rdata) /\ ~cpu[s].free
      <3>1. Quiet
        BY <1>2, <2>1, <2>4 DEF KnowsInv
      <3>2. cpu'[s].free
        BY <2>1, <2>4
      <3>3. QED
        BY <2>3, <2>4, <3>1, <3>2 DEF IsTold
    <2>5. CASE cpu[s].free \/ ~Driver!Says(cpu[s].call, bus.rdata)
      <3>1. cpu'[s].free = cpu[s].free
        BY <2>1, <2>5, FreeIsBool
      <3>2. QED
        BY <2>3, <3>1 DEF Keeps
    <2>6. QED
      BY <1>1, <2>1, <2>4, <2>5, Fields
  <1>9. ASSUME EndsWrite(s) PROVE Keeps
    <2>1. /\ cpu[s].stage = "responding" /\ cpu'[s].stage = "away" /\ Writes(s) # None
          /\ cpu'[s].free = (cpu[s].free \/ Driver!Says(cpu[s].call, {}))
      BY <1>9 DEF EndsWrite, Leaves, BusInv, ClientOK, Busy
    <2>2. ~Driver!Says(cpu[s].call, {})
      BY <2>1 DEF Writes, Driver!Writes, Driver!Says
    <2>3. data' = data /\ ~Calling /\ ~Calling'
      BY <1>1, <1>3, <2>1, Fields DEF Calling
    <2>4. cpu'[s].free = cpu[s].free
      BY <2>1, <2>2, FreeIsBool
    <2>5. QED
      BY <2>3, <2>4 DEF Keeps
  <1>10. ASSUME cpu'[s] = cpu[s] PROVE Keeps
    BY <1>1, <1>3, <1>10, Fields DEF Keeps, Calling
  <1>11. Commands({"Start"}) => Hands(s)
    BY <1>1
  <1>12. ASSUME Hands(s)
         PROVE  /\ ~\E x \in Program[s] : BeginsRead(s, x) \/ BeginsWrite(s, x)
                /\ ~Turns(s) /\ ~GoesOn(s) /\ ~EndsRead(s) /\ ~EndsWrite(s) /\ cpu'[s] # cpu[s]
    BY <1>12, Fields DEF BeginsRead, BeginsWrite, Enters, EndsRead, EndsWrite
  <1>13. QED
    BY <1>2, <1>4, <1>5, <1>6, <1>7, <1>8, <1>9, <1>10, <1>11, <1>12 DEF Does

(* What the block does while s does that.                                  *)
JobOf(state, start) == IF state # "state1" THEN "begun" ELSE IF start THEN "asked" ELSE "none"
Finished == core.state = "state80" \/ result.val = {0}

BeginsJob == /\ ~Quiet /\ core.state = "state1" /\ ap.start /\ core'.state # "state1"
             /\ core'.args = data /\ data' = data
EndsJob == /\ core.state # "state1" /\ core'.state = "state1" /\ ~ap'.start
           /\ core'.args = core.args /\ (Finished' <=> Finished)
GoesOnWithJob == /\ JobOf(core'.state, ap'.start) = JobOf(core.state, ap.start)
                 /\ core'.args = core.args /\ (Finished' <=> Finished)
StartsJob == /\ core.state = "state1" /\ ~ap.start /\ core'.state = "state1" /\ ap'.start
             /\ core'.args = core.args /\ (Finished' <=> Finished)

LEMMA BlockMoves ==
    ASSUME Starter \in Clients, OneStarter(Starter), Careful, BusInv, StarterInv(Starter), ResultInv, ResultInv',
           EventsNext
    PROVE  /\ Quiet => result'.val = result.val
           /\ IF Commands({"Start"}) THEN StartsJob
              ELSE BeginsJob \/ (~Quiet /\ EndsJob) \/ GoesOnWithJob
  <1>0. /\ Changes /\ RunInv
        /\ finishes' = IF Begins THEN core'.state = "state80" ELSE finishes
    BY StepChanges DEF EventsNext, History, StarterInv
  <1>1. /\ StarterInv(Starter)' /\ (Commands({"Start"}) => run = "none")
        /\ (Begins => run = "asked" /\ core'.args = data)
    BY StarterStep
  <1>2. core \in [state: {"state1", "state80", "running"}, args: {None} \cup [Ctrl!DataRegs -> Ctrl!Words]]
    BY DEF BusInv, TypeOK
  <1>3. (Finished <=> finishes) /\ (Finished' <=> finishes')
    BY DEF ResultInv, Finished
  <1>4. ~Begins => core'.args = core.args /\ (Finished' <=> Finished)
    <2>1. ~Begins => core'.args = core.args
      BY <1>0, <1>2 DEF Changes, CoreChanges, Begins
    <2>2. QED
      BY <1>0, <1>3, <2>1
  <1>5. ASSUME Quiet PROVE core' = core /\ ~Begins /\ result'.val = result.val
    BY <1>0, <1>5 DEF Changes, CoreChanges, ResultChanges, Quiet, Begins
  <1>6. CASE Commands({"Start"})
    <2>1. Quiet
      BY <1>0, <1>1, <1>6 DEF RunInv
    <2>2. ap'.start
      BY <1>0, <1>6 DEF Changes, StartChanges
    <2>3. QED
      BY <1>4, <1>5, <1>6, <2>1, <2>2 DEF StartsJob, Quiet
  <1>7. CASE ~Commands({"Start"})
    <2>1. ap'.start <=> ap.start /\ ~Ends
      BY <1>0, <1>7 DEF Changes, StartChanges, StarterInv, WordInv
    <2>2. CASE Begins
      <3>1. core.state = "state1" /\ ap.start /\ core'.state # "state1" /\ core'.args = data
        BY <1>0, <1>1, <2>2 DEF Begins, Changes, CoreChanges
      <3>2. data' = data
        <4>1. ~cpu[Starter].free
          BY <3>1 DEF StarterInv, KnowsInv, Quiet
        <4>2. QED
          BY <1>7, <4>1, StarterMoves DEF Calls, IsTold, SetsOne, Keeps
      <3>3. QED
        BY <1>5, <1>7, <3>1, <3>2 DEF BeginsJob, Quiet
    <2>3. CASE Ends
      BY <1>4, <1>5, <1>7, <2>1, <2>3 DEF EndsJob, Ends, Begins, Quiet
    <2>4. CASE ~Begins /\ ~Ends
      BY <1>4, <1>5, <1>7, <2>1, <2>4 DEF GoesOnWithJob, JobOf, Begins, Ends
    <2>5. QED
      BY <2>2, <2>3, <2>4
  <1>8. QED
    BY <1>5, <1>6, <1>7

LEMMA JobStep ==
    ASSUME Starter \in Clients, OneStarter(Starter), Careful, BusInv, StarterInv(Starter), ResultInv, ResultInv',
           EventsNext
    PROVE  [Jobs!Next]_Jobs!vars
  <1> DEFINE free == cpu[Starter].free
             client == IF free THEN "free" ELSE IF Calling THEN "calling" ELSE "waiting"
             job == IF core.state # "state1" THEN "begun" ELSE IF ap.start THEN "asked" ELSE "none"
             answer == IF free THEN result.val ELSE None
  <1>1. /\ StarterInv(Starter)' /\ (free => Quiet) /\ (free' => Quiet') /\ (Calling => Quiet)
        /\ (Quiet <=> job = "none") /\ Finished \in BOOLEAN
    BY StarterStep DEF StarterInv, KnowsInv, Calling, Quiet, Finished
  <1>2. CASE Commands({"Start"})
    <2>1. Starts /\ StartsJob
      BY <1>2, StarterMoves, BlockMoves
    <2>2. Jobs!Start
      BY <1>1, <2>1 DEF Starts, StartsJob, Jobs!Start, Finished, Quiet
    <2>3. QED
      BY <2>2 DEF Jobs!Next
  <1>3. CASE ~Commands({"Start"}) /\ ~Quiet
    <2>1. ~free /\ ~Calling /\ ~free' /\ ~Calling' /\ data' = data
      BY <1>1, <1>3, StarterMoves DEF Calls, IsTold, SetsOne, Keeps
    <2>2. CASE BeginsJob
      <3>1. Jobs!Begin
        BY <1>1, <2>1, <2>2 DEF BeginsJob, Jobs!Begin, Finished
      <3>2. QED
        BY <3>1 DEF Jobs!Next
    <2>3. CASE EndsJob
      <3>1. Jobs!End
        BY <1>1, <2>1, <2>3 DEF EndsJob, Jobs!End, Finished
      <3>2. QED
        BY <3>1 DEF Jobs!Next
    <2>4. CASE GoesOnWithJob
      BY <1>1, <2>1, <2>4 DEF GoesOnWithJob, JobOf, Jobs!vars, Finished
    <2>5. QED
      BY <1>3, <2>2, <2>3, <2>4, BlockMoves
  <1>4. CASE ~Commands({"Start"}) /\ Quiet
    <2>1. /\ GoesOnWithJob /\ result'.val = result.val
      BY <1>4, BlockMoves DEF BeginsJob
    <2>2. job' = job /\ job = "none" /\ core'.args = core.args /\ (Finished' <=> Finished)
      BY <1>1, <1>4, <2>1 DEF GoesOnWithJob, JobOf
    <2>3. CASE Calls
      <3>1. Jobs!Call
        BY <2>2, <2>3 DEF Calls, Jobs!Call, Finished
      <3>2. QED
        BY <3>1 DEF Jobs!Next
    <2>4. CASE IsTold
      <3>1. result.val = IF Finished THEN {0} ELSE {}
        BY <1>4 DEF ResultInv, Quiet, Finished
      <3>2. Jobs!Tell
        BY <2>1, <2>2, <2>4, <3>1 DEF IsTold, Jobs!Tell, Finished
      <3>3. QED
        BY <3>2 DEF Jobs!Next
    <2>5. CASE SetsOne
      <3>1. PICK r \in Ctrl!DataRegs, w \in Ctrl!Words : data' = [data EXCEPT ![r] = w]
        BY <2>5 DEF SetsOne
      <3>2. Jobs!Set(r, w)
        BY <2>1, <2>2, <2>5, <3>1 DEF SetsOne, Jobs!Set, Finished
      <3>3. QED
        BY <3>1, <3>2 DEF Jobs!Next
    <2>6. CASE Keeps
      BY <2>1, <2>2, <2>6 DEF Keeps, Jobs!vars, Finished
    <2>7. QED
      BY <1>4, <2>3, <2>4, <2>5, <2>6, StarterMoves
  <1>5. QED
    BY <1>2, <1>3, <1>4

LEMMA JobInit ==
    ASSUME Starter \in Clients, EventsInit
    PROVE  Jobs!Init
  <1>1. /\ cpu[Starter].free /\ core.state = "state1" /\ ~ap.start /\ core.args = None
        /\ data = [r \in Ctrl!DataRegs |-> {}] /\ result.val = {}
    BY DEF EventsInit, Init, Driver!Init, Core!Init, Ctrl!Init
  <1>2. QED
    BY <1>1 DEF Jobs!Init

(* To a careful client that alone starts the block, block and driver do    *)
(* jobs (HLSJobs): each edge is one step of a job, or none that it sees.   *)
THEOREM Refinement ==
    ASSUME NEW s \in Clients, s = Starter, OneStarter(s), Careful
    PROVE  EventsSpec => DoesJobs
  <1>1. EventsSpec => []ResultInv
    BY ResultInvariant
  <1>2. EventsSpec => []StarterInv(s)
    BY StarterInvariant
  <1>3. EventsInit => Jobs!Init
    BY JobInit
  <1>4. BusInv /\ StarterInv(s) /\ ResultInv /\ ResultInv' /\ [EventsNext]_allvars
            => [Jobs!Next]_Jobs!vars
    <2>1. UNCHANGED allvars => UNCHANGED Jobs!vars
      BY DEF allvars, vars, history, Jobs!vars, Calling
    <2>2. QED
      BY <2>1, JobStep
  <1>5. EventsSpec => Jobs!Init /\ [][Jobs!Next]_Jobs!vars
    BY <1>1, <1>2, <1>3, <1>4, BusInvariant, PTL DEF EventsSpec
  <1>6. QED
    BY <1>5 DEF DoesJobs, Jobs!Spec
=============================================================================
