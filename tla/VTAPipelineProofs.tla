------------------------- MODULE VTAPipelineProofs -------------------------
(***************************************************************************)
(* Proofs about the four HLS blocks, for programs and queues of any size.  *)
(* The invariant says what is in the queues: an instruction queue holds    *)
(* what fetch has handed to its unit and the unit has not begun, in order; *)
(* a dependency queue holds as many tokens as were left and not taken.     *)
(***************************************************************************)
EXTENDS VTAPipelineProps, FiniteSetTheorems, TLAPS

(* The sets of VTAProgram in the terms of this module.                     *)
Own(u) == {i \in 1 .. Len(program) : Destination(program[i]) = u}
Left(c) ==
    LET u == Producer[c]
    IN  {i \in Pushers(program, c) : i < last[u] \/ (i = last[u] /\ c \notin todo[u])}
Taken(c) == {i \in Poppers(program, c) : i <= last[Consumer[c]]}

FetchOK == at <= upto /\ (~fetching => at = upto)

QueueOK(u) ==
    /\ \A k \in 1 .. Len(queue[u]) :
        queue[u][k] \in Own(u) /\ last[u] < queue[u][k] /\ queue[u][k] <= at
    /\ \A j, k \in 1 .. Len(queue[u]) : j < k => queue[u][j] < queue[u][k]
    /\ \A i \in Own(u) : last[u] < i /\ i <= at => \E k \in 1 .. Len(queue[u]) : queue[u][k] = i

RegisterOK(u) ==
    /\ last[u] <= at
    /\ last[u] = 0 \/ last[u] \in Own(u)
    /\ stage[u] # "idle" => last[u] # 0 /\ todo[u] \subseteq Pushes(program[last[u]])
    /\ stage[u] = "idle" => todo[u] = {}
    /\ stage[u] = "working" => todo[u] = Pushes(program[last[u]])

CountOK(c) == tokens[c] + Cardinality(Taken(c)) = Cardinality(Left(c))

(* The slice in front of a dependency queue holds a token only while the   *)
(* unit whose token it is has not ended.                                   *)
SliceOK(c) ==
    LET u == Producer[c]
    IN  tokens[c] > TokenDepth =>
            stage[u] = "leaving" /\ c \in Pushes(program[last[u]]) /\ c \notin todo[u]

IInv ==
    /\ VTATypeOK
    /\ FetchOK
    /\ \A u \in Units : QueueOK(u) /\ RegisterOK(u)
    /\ \A c \in Channels : CountOK(c) /\ SliceOK(c)

LEMMA Same ==
    /\ Abstract!Units = Units /\ Abstract!Channels = Channels
    /\ \A insn : Abstract!Pops(insn) = Pops(insn) /\ Abstract!Pushes(insn) = Pushes(insn)
    /\ \A u : Abstract!Own(u) = Own(u)
    /\ \A c : Abstract!Left(c) = Left(c) /\ Abstract!Taken(c) = Taken(c)
    /\ \A S : Abstract!Cardinality(S) = Cardinality(S)
  <1>1. /\ Abstract!Units = Units /\ Abstract!Channels = Channels
        /\ Abstract!Producer = Producer /\ Abstract!Consumer = Consumer /\ Abstract!Forward = Forward
        /\ \A insn : Abstract!Destination(insn) = Destination(insn)
    BY DEF Abstract!Units, Abstract!Channels, Abstract!Producer, Abstract!Consumer, Abstract!Forward,
       Abstract!Destination, Units, Channels, Producer, Consumer, Forward, Destination
  <1>2. \A insn : Abstract!Pops(insn) = Pops(insn) /\ Abstract!Pushes(insn) = Pushes(insn)
    BY <1>1 DEF Abstract!Pops, Abstract!Pushes, Pops, Pushes
  <1>3. \A c : /\ Abstract!Pushers(program, c) = Pushers(program, c)
              /\ Abstract!Poppers(program, c) = Poppers(program, c)
    BY <1>2 DEF Abstract!Pushers, Abstract!Poppers, Pushers, Poppers
  <1>4. \A S : Abstract!Cardinality(S) = Cardinality(S)
    BY DEF Abstract!Cardinality, Cardinality
  <1>5. QED
    BY <1>1, <1>2, <1>3, <1>4 DEF Abstract!Own, Abstract!Left, Abstract!Taken, Own, Left, Taken

(* What an instruction tells the blocks.                                   *)
LEMMA InsnFacts ==
    ASSUME NEW insn
    PROVE  /\ Destination(insn) \in Units
           /\ \A c \in Pops(insn) : c \in Channels /\ Consumer[c] = Destination(insn)
           /\ \A c \in Pushes(insn) : c \in Channels /\ Producer[c] = Destination(insn)
  BY DEF Destination, Units, Pops, Pushes

LEMMA ChannelFacts ==
    ASSUME NEW c \in Channels
    PROVE  Producer[c] \in Units /\ Consumer[c] \in Units /\ Producer[c] # Consumer[c]
  BY DEF Channels, Producer, Consumer, Units

LEMMA ProgramFacts == ASSUME VTATypeOK PROVE Len(program) \in Nat /\ program \in Seq(Instruction)
  BY VTAPipelineAssumption DEF VTATypeOK

(* The sets that are counted are finite.                                   *)
LEMMA Counts ==
    ASSUME VTATypeOK, NEW S \in SUBSET (1 .. Len(program))
    PROVE  /\ IsFiniteSet(S) /\ Cardinality(S) \in Nat
           /\ \A T \in SUBSET S : Cardinality(T) <= Cardinality(S)
           /\ \A x \in 1 .. Len(program) : x \notin S => Cardinality(S \cup {x}) = Cardinality(S) + 1
  <1>1. IsFiniteSet(1 .. Len(program))
    BY ProgramFacts, FS_Interval
  <1>2. IsFiniteSet(S)
    BY <1>1, FS_Subset
  <1>3. QED
    BY <1>2, FS_CardinalityType, FS_Subset, FS_AddElement

LEMMA SetFacts ==
    ASSUME NEW c
    PROVE  /\ Left(c) \in SUBSET (1 .. Len(program)) /\ Taken(c) \in SUBSET (1 .. Len(program))
           /\ Pushers(program, c) \in SUBSET (1 .. Len(program))
           /\ Poppers(program, c) \in SUBSET (1 .. Len(program))
  BY DEF Left, Taken, Pushers, Poppers
-----------------------------------------------------------------------------
THEOREM InitIInv == Init => IInv
  <1> SUFFICES ASSUME Init PROVE IInv
    OBVIOUS
  <1>1. VTATypeOK
    <2>1. Len(program) \in Nat
      BY VTAPipelineAssumption DEF Init
    <2>2. queue \in [Units -> Seq(Places)] /\ \A u \in Units : Len(queue[u]) = 0
      BY DEF Init
    <2>3. tokens \in [Channels -> 0 .. (TokenDepth + 1)]
      BY VTAPipelineAssumption DEF Init
    <2>4. program \in Programs /\ 0 \in Places
      BY <2>1 DEF Init, Places
    <2>5. todo \in [Units -> SUBSET Channels] /\ stage \in [Units -> {"idle", "working", "leaving"}]
          /\ start \in [Units -> BOOLEAN] /\ last \in [Units -> Places]
      BY <2>4 DEF Init
    <2>6. upto = 0 /\ at = 0 /\ fetching = FALSE /\ 0 <= QueueDepth + Slice
      BY VTAPipelineAssumption DEF Init, Slice
    <2>7. QED
      BY <2>2, <2>3, <2>4, <2>5, <2>6 DEF VTATypeOK
  <1>2. FetchOK
    BY DEF Init, FetchOK
  <1>3. ASSUME NEW u \in Units PROVE QueueOK(u) /\ RegisterOK(u)
    BY DEF Init, QueueOK, RegisterOK, Own
  <1>4. ASSUME NEW c \in Channels PROVE CountOK(c) /\ SliceOK(c)
    <2>1. Left(c) = {} /\ Taken(c) = {}
      BY ChannelFacts, SetFacts DEF Init, Left, Taken, Pushers, Poppers
    <2>2. QED
      BY <2>1, FS_EmptySet, VTAPipelineAssumption DEF Init, CountOK, SliceOK
  <1>5. QED
    BY <1>1, <1>2, <1>3, <1>4 DEF IInv
-----------------------------------------------------------------------------
(* What does not move the units leaves the sets as they are.               *)
LEMMA SetsKept ==
    ASSUME UNCHANGED <<program, last, todo>>
    PROVE  /\ \A c : Left(c)' = Left(c) /\ Taken(c)' = Taken(c)
           /\ \A u : Own(u)' = Own(u)
  BY DEF Left, Taken, Own, Pushers, Poppers

LEMMA StartFetchOK == ASSUME IInv, NEW n \in 1 .. Len(program), StartFetch(n) PROVE IInv'
  <1> USE DEF IInv, StartFetch, units
  <1>1. VTATypeOK'
    BY ProgramFacts DEF VTATypeOK, Places
  <1>2. FetchOK'
    BY ProgramFacts DEF FetchOK, VTATypeOK, Places
  <1>3. ASSUME NEW u \in Units PROVE QueueOK(u)' /\ RegisterOK(u)'
    BY SetsKept DEF QueueOK, RegisterOK
  <1>4. ASSUME NEW c \in Channels PROVE CountOK(c)' /\ SliceOK(c)'
    BY SetsKept DEF CountOK, SliceOK
  <1>5. QED
    BY <1>1, <1>2, <1>3, <1>4

LEMMA FetchStepOK == ASSUME IInv, Fetch PROVE IInv'
  <1> DEFINE i == at + 1
             v == Destination(program[i])
  <1>1. i \in 1 .. Len(program) /\ v \in Units /\ queue[v] \in Seq(Places) /\ Len(queue[v]) \in Nat
    BY ProgramFacts, InsnFacts DEF IInv, Fetch, VTATypeOK, Places
  <1>2. queue' = [queue EXCEPT ![v] = Append(queue[v], i)] /\ at' = i /\ at < upto
    BY DEF Fetch
  <1>3. UNCHANGED <<program, upto, fetching, tokens, start, last, stage, todo>> /\ fetching
    BY DEF Fetch, units
  <1>4. VTATypeOK'
    <2>1. Places' = Places /\ i \in Places
      BY <1>1, <1>3 DEF Places
    <2>2. Append(queue[v], i) \in Seq(Places) /\ Len(Append(queue[v], i)) <= QueueDepth + Slice
      <3>1. Room(i)
        BY <1>1 DEF Fetch
      <3>2. QED
        BY <1>1, <2>1, <3>1, VTAPipelineAssumption DEF Room, Slice
    <2>3. queue' \in [Units -> Seq(Places)] /\ \A u \in Units : Len(queue'[u]) <= QueueDepth + Slice
      BY <1>1, <1>2, <2>2 DEF IInv, VTATypeOK
    <2>4. QED
      BY <1>2, <1>3, <2>1, <2>3 DEF IInv, VTATypeOK, Slice
  <1>5. FetchOK'
    BY <1>2, <1>3 DEF IInv, FetchOK, VTATypeOK, Places
  <1>6. ASSUME NEW u \in Units PROVE QueueOK(u)'
    <2>1. Own(u)' = Own(u)
      BY <1>3, SetsKept
    <2>2. last[u] \in Nat /\ at \in Nat /\ last[u] <= at
      BY DEF IInv, VTATypeOK, Places, RegisterOK
    <2>3. CASE u # v
      <3>1. queue'[u] = queue[u] /\ i \notin Own(u)
        BY <1>1, <1>2, <2>3 DEF IInv, VTATypeOK, Own
      <3>2. \A o \in Own(u) : o \in Nat /\ (o <= at => o <= i) /\ (o <= i => o <= at)
        BY <2>2, <3>1 DEF Own
      <3>3. QueueOK(u)
        BY DEF IInv
      <3>4. QED
        BY <1>2, <1>3, <2>1, <3>1, <3>2, <3>3 DEF QueueOK
    <2>4. CASE u = v
      <3>1. i \in Own(u) /\ queue'[u] = Append(queue[u], i)
        BY <1>1, <1>2, <2>4 DEF IInv, VTATypeOK, Own
      <3>2. /\ Len(queue'[u]) = Len(queue[u]) + 1 /\ queue'[u][Len(queue[u]) + 1] = i
            /\ \A k \in 1 .. Len(queue[u]) : queue'[u][k] = queue[u][k]
        BY <1>1, <2>4, <3>1
      <3>3. \A k \in 1 .. Len(queue[u]) : queue[u][k] \in Own(u) /\ last[u] < queue[u][k] /\ queue[u][k] <= at
        BY DEF IInv, QueueOK
      <3>4. \A k \in 1 .. Len(queue'[u]) :
                queue'[u][k] \in Own(u) /\ last[u] < queue'[u][k] /\ queue'[u][k] <= i
        BY <1>1, <2>2, <2>4, <3>1, <3>2, <3>3 DEF Own
      <3>5. \A j, k \in 1 .. Len(queue'[u]) : j < k => queue'[u][j] < queue'[u][k]
        <4> SUFFICES ASSUME NEW j \in 1 .. Len(queue'[u]), NEW k \in 1 .. Len(queue'[u]), j < k
                     PROVE  queue'[u][j] < queue'[u][k]
          OBVIOUS
        <4>1. j \in 1 .. Len(queue[u]) /\ queue'[u][j] = queue[u][j]
          BY <1>1, <2>4, <3>2
        <4>2. CASE k = Len(queue[u]) + 1
          <5>1. queue[u][j] \in Nat /\ queue[u][j] <= at
            BY <3>3, <4>1 DEF Own
          <5>2. QED
            BY <2>2, <3>2, <4>1, <4>2, <5>1
        <4>3. CASE k # Len(queue[u]) + 1
          <5>1. Len(queue[u]) \in Nat /\ Len(queue'[u]) = Len(queue[u]) + 1
            BY <1>1, <2>4, <3>2
          <5>2. k \in 1 .. Len(queue[u])
            BY <4>3, <5>1
          <5>3. queue'[u][k] = queue[u][k]
            BY <3>2, <5>2
          <5>4. QED
            BY <4>1, <5>2, <5>3 DEF IInv, QueueOK
        <4>4. QED
          BY <4>2, <4>3
      <3>6. \A o \in Own(u) : last[u] < o /\ o <= i => \E k \in 1 .. Len(queue'[u]) : queue'[u][k] = o
        <4> SUFFICES ASSUME NEW o \in Own(u), last[u] < o, o <= i
                     PROVE  \E k \in 1 .. Len(queue'[u]) : queue'[u][k] = o
          OBVIOUS
        <4>1. CASE o = i
          BY <1>1, <2>4, <3>2, <4>1
        <4>2. CASE o # i
          <5>1. PICK k \in 1 .. Len(queue[u]) : queue[u][k] = o
            BY <2>2, <4>2 DEF IInv, QueueOK, Own
          <5>2. k \in 1 .. Len(queue'[u]) /\ queue'[u][k] = o
            BY <1>1, <2>4, <3>2, <5>1
          <5>3. QED
            BY <5>2
        <4>3. QED
          BY <4>1, <4>2
      <3>7. QED
        BY <1>2, <1>3, <2>1, <3>4, <3>5, <3>6 DEF QueueOK
    <2>5. QED
      BY <2>3, <2>4
  <1>7. ASSUME NEW u \in Units PROVE RegisterOK(u)'
    BY <1>2, <1>3, SetsKept DEF IInv, RegisterOK, VTATypeOK, Places
  <1>8. ASSUME NEW c \in Channels PROVE CountOK(c)' /\ SliceOK(c)'
    BY <1>3, SetsKept DEF IInv, CountOK, SliceOK
  <1>9. QED
    BY <1>4, <1>5, <1>6, <1>7, <1>8 DEF IInv

LEMMA EndFetchOK == ASSUME IInv, EndFetch PROVE IInv'
  <1> USE DEF IInv, EndFetch, units
  <1>1. VTATypeOK'
    BY DEF VTATypeOK, Places
  <1>2. FetchOK'
    BY DEF FetchOK
  <1>3. ASSUME NEW u \in Units PROVE QueueOK(u)' /\ RegisterOK(u)'
    BY SetsKept DEF QueueOK, RegisterOK
  <1>4. ASSUME NEW c \in Channels PROVE CountOK(c)' /\ SliceOK(c)'
    BY SetsKept DEF CountOK, SliceOK
  <1>5. QED
    BY <1>1, <1>2, <1>3, <1>4

LEMMA StartOK == ASSUME IInv, NEW v \in Units, Start(v) PROVE IInv'
  <1> USE DEF IInv, Start, units
  <1>1. VTATypeOK'
    BY DEF VTATypeOK, Places
  <1>2. FetchOK'
    BY DEF FetchOK
  <1>3. ASSUME NEW u \in Units PROVE QueueOK(u)' /\ RegisterOK(u)'
    BY SetsKept DEF QueueOK, RegisterOK
  <1>4. ASSUME NEW c \in Channels PROVE CountOK(c)' /\ SliceOK(c)'
    BY SetsKept DEF CountOK, SliceOK
  <1>5. QED
    BY <1>1, <1>2, <1>3, <1>4

(* The instruction at the head of a queue is the next of its unit.         *)
LEMMA HeadIsNext ==
    ASSUME IInv, NEW u \in Units, queue[u] # <<>>
    PROVE  LET i == Head(queue[u])
           IN  /\ i \in Own(u) /\ last[u] < i /\ i <= at
               /\ \A j \in Own(u) : last[u] < j => i <= j
               /\ Len(queue[u]) \in Nat \ {0} /\ queue[u] \in Seq(Places)
  <1> DEFINE i == Head(queue[u])
  <1>1. queue[u] \in Seq(Places) /\ Len(queue[u]) \in Nat \ {0} /\ i = queue[u][1]
    BY DEF IInv, VTATypeOK
  <1>2. i \in Own(u) /\ last[u] < i /\ i <= at
    BY <1>1 DEF IInv, QueueOK
  <1>3. ASSUME NEW j \in Own(u), last[u] < j PROVE i <= j
    <2>1. j \in Nat /\ i \in Nat /\ at \in Nat
      BY <1>2 DEF Own, IInv, VTATypeOK, Places
    <2>2. CASE j > at
      BY <1>2, <2>1, <2>2
    <2>3. CASE j <= at
      <3>1. PICK k \in 1 .. Len(queue[u]) : queue[u][k] = j
        BY <1>3, <2>3 DEF IInv, QueueOK
      <3>2. k # 1 => queue[u][1] < j
        BY <1>1, <3>1 DEF IInv, QueueOK
      <3>3. QED
        BY <1>1, <2>1, <3>1, <3>2
    <2>4. QED
      BY <2>1, <2>2, <2>3
  <1>4. QED
    BY <1>1, <1>2, <1>3

LEMMA BeginOK == ASSUME IInv, NEW v \in Units, Begin(v) PROVE IInv'
  <1> DEFINE i == Head(queue[v])
  <1>1. /\ i \in Own(v) /\ last[v] < i /\ i <= at
        /\ \A j \in Own(v) : last[v] < j => i <= j
        /\ Len(queue[v]) \in Nat \ {0} /\ queue[v] \in Seq(Places)
    BY HeadIsNext DEF Begin
  <1>2. /\ stage[v] = "idle" /\ todo[v] = {}
        /\ \A c \in Pops(program[i]) : tokens[c] > 0
        /\ queue' = [queue EXCEPT ![v] = Tail(queue[v])]
        /\ tokens' = [c \in Channels |-> IF c \in Pops(program[i]) THEN tokens[c] - 1 ELSE tokens[c]]
        /\ last' = [last EXCEPT ![v] = i]
        /\ stage' = [stage EXCEPT ![v] = "working"]
        /\ todo' = [todo EXCEPT ![v] = Pushes(program[i])]
        /\ UNCHANGED <<program, upto, fetching, at, start>>
    BY DEF Begin, IInv, RegisterOK
  <1>3. i \in 1 .. Len(program) /\ Destination(program[i]) = v /\ i \in Nat /\ last[v] \in Nat /\ at \in Nat
    BY <1>1 DEF Own, IInv, VTATypeOK, Places
  <1>4. \A u : Own(u)' = Own(u)
    BY <1>2 DEF Own
  <1>5. Tail(queue[v]) \in Seq(Places) /\ Len(Tail(queue[v])) = Len(queue[v]) - 1
        /\ \A k \in 1 .. (Len(queue[v]) - 1) : Tail(queue[v])[k] = queue[v][k + 1]
    BY <1>1
  <1>6. VTATypeOK'
    <2>1. Places' = Places /\ i \in Places /\ Pushes(program[i]) \in SUBSET Channels
      BY <1>2, <1>3, InsnFacts DEF Places
    <2>2. queue' \in [Units -> Seq(Places)] /\ \A u \in Units : Len(queue'[u]) <= QueueDepth + Slice
      BY <1>1, <1>2, <1>5, VTAPipelineAssumption DEF IInv, VTATypeOK, Slice
    <2>3. tokens' \in [Channels -> 0 .. (TokenDepth + 1)]
      BY <1>2, VTAPipelineAssumption DEF IInv, VTATypeOK
    <2>4. last' \in [Units -> Places] /\ stage' \in [Units -> {"idle", "working", "leaving"}]
          /\ todo' \in [Units -> SUBSET Channels]
      BY <1>2, <2>1 DEF IInv, VTATypeOK
    <2>5. QED
      BY <1>2, <2>1, <2>2, <2>3, <2>4 DEF IInv, VTATypeOK, Slice
  <1>7. FetchOK'
    BY <1>2 DEF IInv, FetchOK
  <1>8. ASSUME NEW u \in Units PROVE QueueOK(u)'
    <2>1. CASE u # v
      <3>1. queue'[u] = queue[u] /\ last'[u] = last[u]
        BY <1>2, <2>1 DEF IInv, VTATypeOK
      <3>2. at' = at /\ Own(u)' = Own(u) /\ QueueOK(u)
        BY <1>2, <1>4 DEF IInv
      <3>3. QED
        BY <3>1, <3>2 DEF QueueOK
    <2>2. CASE u = v
      <3>1. queue'[u] = Tail(queue[u]) /\ last'[u] = i
        BY <1>2, <2>2 DEF IInv, VTATypeOK
      <3>2. \A k \in 1 .. Len(queue'[u]) : k + 1 \in 1 .. Len(queue[u]) /\ queue'[u][k] = queue[u][k + 1]
                                           /\ 1 < k + 1
        BY <1>1, <1>5, <2>2, <3>1
      <3>3. i = queue[u][1] /\ 1 \in 1 .. Len(queue[u])
        BY <1>1, <2>2
      <3>4. QueueOK(u)
        BY DEF IInv
      <3>5. \A k \in 1 .. Len(queue'[u]) : queue'[u][k] \in Own(u) /\ i < queue'[u][k] /\ queue'[u][k] <= at
        BY <3>2, <3>3, <3>4 DEF QueueOK
      <3>6. \A j, k \in 1 .. Len(queue'[u]) : j < k => queue'[u][j] < queue'[u][k]
        <4>1. \A j, k \in 1 .. Len(queue'[u]) : j < k => j + 1 < k + 1
          OBVIOUS
        <4>2. QED
          BY <3>2, <3>4, <4>1 DEF QueueOK
      <3>7. ASSUME NEW o \in Own(u), i < o, o <= at PROVE \E k \in 1 .. Len(queue'[u]) : queue'[u][k] = o
        <4>1. PICK k \in 1 .. Len(queue[u]) : queue[u][k] = o
          BY <1>1, <1>3, <2>2, <3>4, <3>7 DEF QueueOK, Own
        <4>2. k # 1
          BY <1>3, <3>3, <3>7, <4>1
        <4>3. k - 1 \in 1 .. Len(queue'[u]) /\ queue'[u][k - 1] = o
          BY <1>1, <1>5, <2>2, <3>1, <4>1, <4>2
        <4>4. QED
          BY <4>3
      <3>8. \A o \in Own(u) : i < o /\ o <= at => \E k \in 1 .. Len(queue'[u]) : queue'[u][k] = o
        BY <3>7
      <3>9. at' = at /\ last'[u] = i /\ Own(u)' = Own(u)
        BY <1>2, <1>4, <3>1
      <3>10. QED
        BY <3>5, <3>6, <3>8, <3>9 DEF QueueOK
    <2>3. QED
      BY <2>1, <2>2
  <1>9. ASSUME NEW u \in Units PROVE RegisterOK(u)'
    BY <1>1, <1>2, <1>3, <1>4 DEF IInv, RegisterOK, VTATypeOK, Own
  <1>10. ASSUME NEW c \in Channels PROVE CountOK(c)'
    <2>1. Left(c)' = Left(c)
      <3>1. CASE Producer[c] # v
        <4>1. last'[Producer[c]] = last[Producer[c]] /\ todo'[Producer[c]] = todo[Producer[c]]
          BY <1>2, <3>1, ChannelFacts DEF IInv, VTATypeOK
        <4>2. QED
          BY <1>2, <4>1 DEF Left, Pushers
      <3>2. CASE Producer[c] = v
        <4>1. last'[v] = i /\ todo'[v] = Pushes(program[i])
          BY <1>2 DEF IInv, VTATypeOK
        <4>2. \A j \in Pushers(program, c) : j \in Own(v) /\ j \in Nat
          BY <3>2, InsnFacts DEF Pushers, Own
        <4>3. \A j \in Pushers(program, c) :
                  j < i \/ (j = i /\ c \notin Pushes(program[i])) <=> j < last[v] \/ j = last[v]
          BY <1>1, <1>3, <4>2 DEF Pushers
        <4>4. QED
          BY <1>2, <3>2, <4>1, <4>3 DEF Left, Pushers
      <3>3. QED
        BY <3>1, <3>2
    <2>2. CASE c \notin Pops(program[i])
      <3>1. Taken(c)' = Taken(c)
        <4>1. CASE Consumer[c] # v
          <5>1. last'[Consumer[c]] = last[Consumer[c]]
            BY <1>2, <4>1, ChannelFacts DEF IInv, VTATypeOK
          <5>2. QED
            BY <1>2, <5>1 DEF Taken, Poppers
        <4>2. CASE Consumer[c] = v
          <5>1. last'[v] = i
            BY <1>2 DEF IInv, VTATypeOK
          <5>2. \A j \in Poppers(program, c) : j \in Own(v) /\ j \in Nat /\ j # i
            BY <2>2, <4>2, InsnFacts DEF Poppers, Own
          <5>3. \A j \in Poppers(program, c) : j <= i <=> j <= last[v]
            BY <1>1, <1>3, <5>2
          <5>4. QED
            BY <1>2, <4>2, <5>1, <5>3 DEF Taken, Poppers
        <4>3. QED
          BY <4>1, <4>2
      <3>2. QED
        BY <1>2, <2>1, <2>2, <3>1 DEF IInv, CountOK
    <2>3. CASE c \in Pops(program[i])
      <3>1. Consumer[c] = v /\ last'[v] = i
        BY <1>2, <1>3, <2>3, InsnFacts DEF IInv, VTATypeOK
      <3>2. \A j \in Poppers(program, c) : j \in Own(v) /\ j \in Nat
        BY <3>1, InsnFacts DEF Poppers, Own
      <3>3. i \in Poppers(program, c)
        BY <1>3, <2>3 DEF Poppers
      <3>4. \A j \in Poppers(program, c) : j <= i <=> j <= last[v] \/ j = i
        BY <1>1, <1>3, <3>2
      <3>5. Taken(c)' = Taken(c) \cup {i} /\ i \notin Taken(c)
        BY <1>1, <1>2, <1>3, <3>1, <3>3, <3>4 DEF Taken, Poppers
      <3>6. Cardinality(Taken(c)') = Cardinality(Taken(c)) + 1 /\ Cardinality(Taken(c)) \in Nat
        BY <1>3, <3>5, Counts, SetFacts DEF IInv
      <3>7. tokens'[c] = tokens[c] - 1 /\ tokens[c] \in Nat
        BY <1>2, <2>3 DEF IInv, VTATypeOK
      <3>8. tokens'[c] + Cardinality(Taken(c)') = tokens[c] + Cardinality(Taken(c))
        BY <3>6, <3>7
      <3>9. QED
        BY <2>1, <3>8 DEF IInv, CountOK
    <2>4. QED
      BY <2>2, <2>3
  <1>11. ASSUME NEW c \in Channels PROVE SliceOK(c)'
    <2>1. tokens'[c] <= tokens[c] /\ tokens'[c] \in Int /\ tokens[c] \in Int
      BY <1>2 DEF IInv, VTATypeOK
    <2>2. CASE Producer[c] = v
      <3>1. tokens[c] <= TokenDepth
        BY <1>2, <2>1, <2>2, VTAPipelineAssumption DEF IInv, SliceOK
      <3>2. QED
        BY <2>1, <3>1, VTAPipelineAssumption DEF SliceOK
    <2>3. CASE Producer[c] # v
      BY <1>2, <2>1, <2>3, ChannelFacts, VTAPipelineAssumption DEF IInv, SliceOK, VTATypeOK
    <2>4. QED
      BY <2>2, <2>3
  <1>12. QED
    BY <1>6, <1>7, <1>8, <1>9, <1>10, <1>11 DEF IInv

LEMMA WorkOK == ASSUME IInv, NEW v \in Units, Work(v) PROVE IInv'
  <1> USE DEF IInv, Work
  <1>1. VTATypeOK'
    BY DEF VTATypeOK, Places
  <1>2. FetchOK'
    BY DEF FetchOK
  <1>3. ASSUME NEW u \in Units PROVE QueueOK(u)'
    BY SetsKept DEF QueueOK
  <1>4. ASSUME NEW u \in Units PROVE RegisterOK(u)'
    <2>1. RegisterOK(u) /\ Own(u)' = Own(u)
      BY SetsKept
    <2>2. QED
      BY <2>1 DEF RegisterOK, VTATypeOK
  <1>5. ASSUME NEW c \in Channels PROVE CountOK(c)'
    BY SetsKept DEF CountOK
  <1>6. ASSUME NEW c \in Channels PROVE SliceOK(c)'
    <2>1. SliceOK(c) /\ Producer[c] \in Units
      BY ChannelFacts
    <2>2. QED
      BY <2>1 DEF SliceOK, VTATypeOK
  <1>7. QED
    BY <1>1, <1>2, <1>3, <1>4, <1>5, <1>6

LEMMA PushOK == ASSUME IInv, NEW v \in Units, NEW d \in Channels, Push(v, d) PROVE IInv'
  <1>1. /\ stage[v] = "leaving" /\ d \in todo[v]
        /\ tokens' = [tokens EXCEPT ![d] = tokens[d] + 1]
        /\ todo' = [todo EXCEPT ![v] = todo[v] \ {d}]
        /\ UNCHANGED <<program, upto, fetching, at, queue, start, last, stage>>
    BY DEF Push, Free
  <1>2. last[v] \in 1 .. Len(program) /\ d \in Pushes(program[last[v]]) /\ Producer[d] = v
    BY <1>1, InsnFacts DEF IInv, RegisterOK, Own
  <1>3. tokens[d] \in 0 .. TokenDepth
    <2>1. ~(tokens[d] > TokenDepth) /\ tokens[d] \in 0 .. (TokenDepth + 1)
      BY <1>1, <1>2 DEF IInv, SliceOK, VTATypeOK
    <2>2. QED
      BY <2>1, VTAPipelineAssumption
  <1>4. VTATypeOK'
    <2>1. tokens' \in [Channels -> 0 .. (TokenDepth + 1)]
      BY <1>1, <1>3, VTAPipelineAssumption DEF IInv, VTATypeOK
    <2>2. todo' \in [Units -> SUBSET Channels]
      BY <1>1 DEF IInv, VTATypeOK
    <2>3. QED
      BY <1>1, <2>1, <2>2 DEF IInv, VTATypeOK, Places
  <1>5. FetchOK'
    BY <1>1 DEF IInv, FetchOK
  <1>6. \A u : Own(u)' = Own(u)
    BY <1>1 DEF Own
  <1>7. ASSUME NEW u \in Units PROVE QueueOK(u)'
    BY <1>1, <1>6 DEF IInv, QueueOK
  <1>8. ASSUME NEW u \in Units PROVE RegisterOK(u)'
    <2>1. RegisterOK(u) /\ todo'[u] = IF u = v THEN todo[v] \ {d} ELSE todo[u]
      BY <1>1 DEF IInv, VTATypeOK
    <2>2. QED
      BY <1>1, <1>6, <2>1 DEF RegisterOK
  <1>9. ASSUME NEW c \in Channels PROVE CountOK(c)'
    <2>1. Taken(c)' = Taken(c)
      BY <1>1 DEF Taken, Poppers
    <2>2. CASE c # d
      <3>1. c \in todo'[Producer[c]] <=> c \in todo[Producer[c]]
        BY <1>1, <2>2, ChannelFacts DEF IInv, VTATypeOK
      <3>2. Left(c)' = Left(c)
        BY <1>1, <3>1 DEF Left, Pushers
      <3>3. tokens'[c] = tokens[c]
        BY <1>1, <2>2 DEF IInv, VTATypeOK
      <3>4. QED
        BY <2>1, <3>2, <3>3 DEF IInv, CountOK
    <2>3. CASE c = d
      <3>1. d \notin todo'[v]
        BY <1>1 DEF IInv, VTATypeOK
      <3>2. last[v] \in Pushers(program, d)
        BY <1>2 DEF Pushers
      <3>3. Left(c)' = Left(c) \cup {last[v]} /\ last[v] \notin Left(c)
        BY <1>1, <1>2, <2>3, <3>1, <3>2 DEF Left, Pushers
      <3>4. Cardinality(Left(c)') = Cardinality(Left(c)) + 1 /\ Cardinality(Left(c)) \in Nat
            /\ Cardinality(Taken(c)) \in Nat
        BY <1>2, <3>3, Counts, SetFacts DEF IInv
      <3>5. tokens'[c] = tokens[c] + 1 /\ tokens[c] \in Nat
        BY <1>1, <2>3 DEF IInv, VTATypeOK
      <3>6. QED
        BY <2>1, <3>4, <3>5 DEF IInv, CountOK
    <2>4. QED
      BY <2>2, <2>3
  <1>10. ASSUME NEW c \in Channels PROVE SliceOK(c)'
    <2>1. CASE c = d
      BY <1>1, <1>2, <2>1 DEF SliceOK, IInv, VTATypeOK
    <2>2. CASE c # d
      <3>1. tokens'[c] = tokens[c] /\ (c \in todo'[Producer[c]] <=> c \in todo[Producer[c]])
        BY <1>1, <2>2, ChannelFacts DEF IInv, VTATypeOK
      <3>2. QED
        BY <1>1, <3>1 DEF IInv, SliceOK
    <2>3. QED
      BY <2>1, <2>2
  <1>11. QED
    BY <1>4, <1>5, <1>7, <1>8, <1>9, <1>10 DEF IInv

LEMMA EndOK == ASSUME IInv, NEW v \in Units, End(v) PROVE IInv'
  <1>1. /\ stage[v] = "leaving" /\ todo[v] = {}
        /\ \A c \in Channels : Producer[c] = v => tokens[c] <= TokenDepth
        /\ stage' = [stage EXCEPT ![v] = "idle"]
        /\ UNCHANGED <<program, upto, fetching, at, queue, tokens, last, todo>>
        /\ start' \in [Units -> BOOLEAN]
    BY DEF End, IInv, VTATypeOK
  <1>2. VTATypeOK'
    BY <1>1 DEF IInv, VTATypeOK, Places
  <1>3. FetchOK'
    BY <1>1 DEF IInv, FetchOK
  <1>4. ASSUME NEW u \in Units PROVE QueueOK(u)'
    BY <1>1, SetsKept DEF IInv, QueueOK
  <1>5. ASSUME NEW u \in Units PROVE RegisterOK(u)'
    <2>1. RegisterOK(u) /\ Own(u)' = Own(u)
      BY <1>1, SetsKept DEF IInv
    <2>2. QED
      BY <1>1, <2>1 DEF RegisterOK, IInv, VTATypeOK
  <1>6. ASSUME NEW c \in Channels PROVE CountOK(c)'
    BY <1>1, SetsKept DEF IInv, CountOK
  <1>7. ASSUME NEW c \in Channels PROVE SliceOK(c)'
    <2>1. SliceOK(c) /\ Producer[c] \in Units /\ tokens[c] \in Int
      BY ChannelFacts DEF IInv, VTATypeOK
    <2>2. QED
      BY <1>1, <2>1, VTAPipelineAssumption DEF SliceOK, IInv, VTATypeOK
  <1>8. QED
    BY <1>2, <1>3, <1>4, <1>5, <1>6, <1>7 DEF IInv

THEOREM NextIInv == ASSUME IInv, [Next]_vars PROVE IInv'
  <1>1. CASE HostStartsFetch
    BY <1>1, StartFetchOK DEF HostStartsFetch
  <1>2. CASE Fetch
    BY <1>2, FetchStepOK
  <1>3. CASE EndFetch
    BY <1>3, EndFetchOK
  <1>4. ASSUME NEW u \in Units, Start(u) \/ Unit(u) PROVE IInv'
    BY <1>4, StartOK, BeginOK, WorkOK, PushOK, EndOK DEF Unit
  <1>5. CASE UNCHANGED vars
    <2>1. \A u \in Units : (QueueOK(u) /\ RegisterOK(u)) => (QueueOK(u) /\ RegisterOK(u))'
      BY <1>5, SetsKept DEF vars, units, QueueOK, RegisterOK
    <2>2. \A c \in Channels : (CountOK(c) /\ SliceOK(c)) => (CountOK(c) /\ SliceOK(c))'
      BY <1>5, SetsKept DEF vars, units, CountOK, SliceOK
    <2>3. VTATypeOK' /\ FetchOK'
      BY <1>5 DEF vars, units, IInv, VTATypeOK, Places, FetchOK
    <2>4. QED
      BY <2>1, <2>2, <2>3 DEF IInv
  <1>6. QED
    BY <1>1, <1>2, <1>3, <1>4, <1>5 DEF Next

THEOREM Invariance == Spec => []IInv
  BY InitIInv, NextIInv, PTL DEF Spec

(* The types hold: nothing is put in a queue without a place for it.       *)
THEOREM Typed == Spec => []VTATypeOK
  <1>1. IInv => VTATypeOK
    BY DEF IInv
  <1>2. QED
    BY <1>1, Invariance, PTL
-----------------------------------------------------------------------------
(* Each step of the blocks is a step of the program, or none.              *)
LEMMA InitRefines == Init => Abstract!Init
  BY Same DEF Init, Abstract!Init

LEMMA StepRefines == ASSUME IInv, [Next]_vars PROVE [Abstract!Next]_Abstract!vars
  <1> USE DEF Abstract!vars
  <1>1. ASSUME NEW n \in 1 .. Len(program), StartFetch(n) PROVE Abstract!Next
    <2>1. Abstract!Give(n)
      BY <1>1, ProgramFacts DEF StartFetch, Abstract!Give, units
    <2>2. QED
      BY <2>1 DEF Abstract!Next
  <1>2. CASE Fetch \/ EndFetch \/ \E u \in Units : Start(u)
    BY <1>2 DEF Fetch, EndFetch, Start, units
  <1>3. ASSUME NEW u \in Units, Begin(u) PROVE Abstract!Next
    <2> DEFINE i == Head(queue[u])
    <2>1. /\ i \in Own(u) /\ last[u] < i /\ i <= at
          /\ \A j \in Own(u) : last[u] < j => i <= j
      BY <1>3, HeadIsNext DEF Begin
    <2>2. i \in 1 .. Len(program) /\ i <= upto
      BY <2>1 DEF Own, IInv, FetchOK, VTATypeOK, Places
    <2>3. ASSUME NEW c \in Pops(program[i]) PROVE Cardinality(Taken(c)) < Cardinality(Left(c))
      <3>1. c \in Channels
        BY InsnFacts
      <3>2. tokens[c] > 0 /\ tokens[c] \in Nat
        BY <1>3, <3>1 DEF Begin, IInv, VTATypeOK
      <3>3. Cardinality(Taken(c)) \in Nat /\ Cardinality(Left(c)) \in Nat
        BY Counts, SetFacts DEF IInv
      <3>4. QED
        BY <3>1, <3>2, <3>3 DEF IInv, CountOK
    <2>4. Abstract!Begin(u, i)
      <3>1. /\ stage[u] = "idle"
            /\ last' = [last EXCEPT ![u] = i]
            /\ stage' = [stage EXCEPT ![u] = "working"]
            /\ todo' = [todo EXCEPT ![u] = Pushes(program[i])]
            /\ UNCHANGED <<program, upto>>
        BY <1>3 DEF Begin
      <3>2. Abstract!Pushes(program[i]) = Pushes(program[i]) /\ Abstract!Own(u) = Own(u)
        BY Same
      <3>3. \A c \in Abstract!Pops(program[i]) :
                Abstract!Cardinality(Abstract!Taken(c)) < Abstract!Cardinality(Abstract!Left(c))
        BY <2>3, Same
      <3>4. QED
        BY <2>1, <2>2, <3>1, <3>2, <3>3 DEF Abstract!Begin
    <2>5. QED
      BY <2>2, <2>4, Same DEF Abstract!Next
  <1>4. ASSUME NEW u \in Units, Work(u) PROVE Abstract!Next
    BY <1>4, Same DEF Work, Abstract!Work, Abstract!Next
  <1>5. ASSUME NEW u \in Units, NEW c \in Channels, Push(u, c) PROVE Abstract!Next
    BY <1>5, Same DEF Push, Free, Abstract!Push, Abstract!Next
  <1>6. ASSUME NEW u \in Units, End(u) PROVE Abstract!Next
    BY <1>6, Same DEF End, Abstract!End, Abstract!Next
  <1>7. CASE UNCHANGED vars
    BY <1>7 DEF vars, units
  <1>8. QED
    BY <1>1, <1>2, <1>3, <1>4, <1>5, <1>6, <1>7 DEF Next, HostStartsFetch, Unit

(* The four blocks with their bounded queues carry out the program: each   *)
(* unit its own instructions in order, each once, and none before the work *)
(* it depends on has been done.                                            *)
THEOREM Refinement == Spec => ExecutesProgram
  <1>1. Spec => Abstract!Init /\ [][Abstract!Next]_Abstract!vars
    BY InitRefines, StepRefines, Invariance, PTL DEF Spec
  <1>2. QED
    BY <1>1 DEF ExecutesProgram, Abstract!Spec
-----------------------------------------------------------------------------
(* A FINISH under way has its token from the last of as many stores as     *)
(* compute has waited for.                                                 *)
LEMMA FinishFollows == IInv => FinishAfterStores
  <1> DEFINE f == last["compute"]
             P == Pushers(program, "s2g")
             T == Poppers(program, "s2g")
  <1> SUFFICES ASSUME IInv, f # 0, NEW i \in Before(P, f),
                      Cardinality(Before(P, i + 1)) <= Cardinality(Before(T, f + 1)),
                      ~(i < last["store"] \/ (i = last["store"] /\ stage["store"] # "working"))
               PROVE  FALSE
    BY DEF FinishAfterStores, StoresWritten
  <1>1. /\ "s2g" \in Channels /\ Producer["s2g"] = "store" /\ Consumer["s2g"] = "compute"
        /\ "store" \in Units /\ "compute" \in Units
    BY DEF Channels, Producer, Consumer, Units
  <1>2. i \in P /\ i \in 1 .. Len(program) /\ last["store"] \in Nat /\ f \in Nat
    BY <1>1 DEF Before, Pushers, IInv, VTATypeOK, Places
  <1>3. i >= last["store"] /\ (i = last["store"] => "s2g" \in todo["store"])
    <2>1. i = last["store"] => stage["store"] = "working"
      BY <1>2
    <2>2. QED
      BY <1>1, <1>2, <2>1 DEF IInv, RegisterOK, Pushers
  <1>4. Left("s2g") \subseteq Before(P, i)
    BY <1>1, <1>2, <1>3 DEF Left, Before, Pushers
  <1>5. Before(P, i + 1) = Before(P, i) \cup {i} /\ i \notin Before(P, i)
    BY <1>2 DEF Before, Pushers
  <1>6. Before(T, f + 1) = Taken("s2g")
    BY <1>1, <1>2 DEF Before, Taken, Poppers
  <1>7. Cardinality(Left("s2g")) <= Cardinality(Before(P, i))
        /\ Cardinality(Before(P, i + 1)) = Cardinality(Before(P, i)) + 1
        /\ Cardinality(Before(P, i)) \in Nat
    <2>1. Before(P, i) \in SUBSET (1 .. Len(program))
      BY SetFacts DEF Before
    <2>2. QED
      BY <1>2, <1>4, <1>5, <2>1, Counts DEF IInv
  <1>8. Cardinality(Taken("s2g")) <= Cardinality(Left("s2g"))
    <2>1. Cardinality(Taken("s2g")) \in Nat /\ Cardinality(Left("s2g")) \in Nat
      BY Counts, SetFacts DEF IInv
    <2>2. QED
      BY <1>1, <2>1 DEF IInv, CountOK, VTATypeOK
  <1>9. QED
    <2>1. Cardinality(Taken("s2g")) \in Nat /\ Cardinality(Left("s2g")) \in Nat
      BY Counts, SetFacts DEF IInv
    <2>2. QED
      BY <1>6, <1>7, <1>8, <2>1

(* Software that has seen the end of a FINISH finds the results of the     *)
(* stores it waited for in memory.                                         *)
THEOREM FinishIsLast == Spec => []FinishAfterStores
  BY FinishFollows, Invariance, PTL
-----------------------------------------------------------------------------
(* Where a unit stands: the instruction it is at or will begin next, or    *)
(* the one that fetch has yet to hand out.                                 *)
First(u) ==
    IF stage[u] # "idle" THEN last[u] ELSE IF queue[u] # <<>> THEN Head(queue[u]) ELSE at + 1

LEMMA BeforeFirst ==
    ASSUME IInv, NEW u \in Units
    PROVE  /\ First(u) \in Nat /\ First(u) <= at + 1
           /\ First(u) <= at => First(u) \in Own(u)
           /\ \A j \in Own(u) : j < First(u) => j < last[u] \/ (j = last[u] /\ stage[u] = "idle")
  <1>1. /\ last[u] \in Nat /\ at \in Nat /\ last[u] <= at
        /\ (stage[u] # "idle" => last[u] \in Own(u)) /\ \A j \in Own(u) : j \in Nat
    BY DEF IInv, VTATypeOK, Places, RegisterOK, Own
  <1>2. CASE stage[u] # "idle"
    BY <1>1, <1>2 DEF First
  <1>3. CASE stage[u] = "idle" /\ queue[u] # <<>>
    <2>1. /\ Head(queue[u]) \in Own(u) /\ last[u] < Head(queue[u]) /\ Head(queue[u]) <= at
          /\ \A j \in Own(u) : last[u] < j => Head(queue[u]) <= j
      BY <1>3, HeadIsNext
    <2>2. First(u) = Head(queue[u])
      BY <1>3 DEF First
    <2>3. QED
      BY <1>1, <1>3, <2>1, <2>2
  <1>4. CASE stage[u] = "idle" /\ queue[u] = <<>>
    <2>1. First(u) = at + 1
      BY <1>4 DEF First
    <2>2. \A j \in Own(u) : ~(last[u] < j /\ j <= at)
      BY <1>4 DEF IInv, QueueOK
    <2>3. QED
      BY <1>1, <1>4, <2>1, <2>2
  <1>5. QED
    BY <1>2, <1>3, <1>4

(* The unit that stands first is never the one that has to wait: what it   *)
(* waits for was to be left, or taken, by instructions before its own, and *)
(* those are through.                                                      *)
LEMMA FirstMoves == IInv => NeverStuck
  <1> SUFFICES ASSUME IInv, fetching \/ \E i \in 1 .. upto : ~Ended(i), Orderly(program), ~CanMove
               PROVE  FALSE
    BY DEF NeverStuck
  <1>1. PICK v \in Units : \A u \in Units : First(v) <= First(u)
    <2>1. /\ First("load") \in Nat /\ First("compute") \in Nat /\ First("store") \in Nat
      BY BeforeFirst DEF Units
    <2>2. \/ First("load") <= First("compute") /\ First("load") <= First("store")
          \/ First("compute") <= First("load") /\ First("compute") <= First("store")
          \/ First("store") <= First("load") /\ First("store") <= First("compute")
      BY <2>1
    <2>3. QED
      BY <2>1, <2>2 DEF Units
  <1> DEFINE m == First(v)
             B(S) == Before(S, m)
  <1>2. /\ m \in Nat /\ at \in Nat /\ upto \in Nat /\ m <= at + 1 /\ (m <= at => m \in Own(v))
        /\ at <= upto /\ upto <= Len(program) /\ Len(program) \in Nat
    BY BeforeFirst, ProgramFacts DEF IInv, FetchOK, VTATypeOK, Places
  <1>3. ASSUME NEW c \in Channels
        PROVE  /\ B(Pushers(program, c)) \subseteq Left(c)
               /\ B(Poppers(program, c)) \subseteq Taken(c)
    <2>1. Producer[c] \in Units /\ Consumer[c] \in Units
      BY ChannelFacts
    <2>2. ASSUME NEW j \in B(Pushers(program, c)) PROVE j \in Left(c)
      <3>1. j \in Pushers(program, c) /\ j < m /\ j \in Own(Producer[c])
        BY InsnFacts DEF Before, Pushers, Own
      <3>2. m \in Nat /\ First(Producer[c]) \in Nat /\ j \in Nat /\ m <= First(Producer[c])
        BY <1>1, <1>2, <2>1, <3>1, BeforeFirst DEF Own
      <3>3. j < First(Producer[c])
        BY <3>1, <3>2
      <3>4. j < last[Producer[c]] \/ (j = last[Producer[c]] /\ stage[Producer[c]] = "idle")
        BY <2>1, <3>1, <3>3, BeforeFirst
      <3>5. stage[Producer[c]] = "idle" => todo[Producer[c]] = {}
        BY <2>1 DEF IInv, RegisterOK
      <3>6. QED
        BY <3>1, <3>4, <3>5 DEF Left
    <2>3. ASSUME NEW j \in B(Poppers(program, c)) PROVE j \in Taken(c)
      <3>1. j \in Poppers(program, c) /\ j < m /\ j \in Own(Consumer[c])
        BY InsnFacts DEF Before, Poppers, Own
      <3>2. m \in Nat /\ First(Consumer[c]) \in Nat /\ j \in Nat /\ m <= First(Consumer[c])
            /\ last[Consumer[c]] \in Nat
        BY <1>1, <1>2, <2>1, <3>1, BeforeFirst DEF Own, IInv, VTATypeOK, Places
      <3>3. j < First(Consumer[c])
        BY <3>1, <3>2
      <3>4. j <= last[Consumer[c]]
        BY <2>1, <3>1, <3>2, <3>3, BeforeFirst
      <3>5. QED
        BY <3>1, <3>4 DEF Taken
    <2>4. QED
      BY <2>2, <2>3
  <1>4. ASSUME NEW c \in Channels
        PROVE  /\ Cardinality(B(Pushers(program, c))) \in Nat /\ Cardinality(B(Poppers(program, c))) \in Nat
               /\ Cardinality(Left(c)) \in Nat /\ Cardinality(Taken(c)) \in Nat
               /\ Cardinality(B(Pushers(program, c))) <= Cardinality(Left(c))
               /\ Cardinality(B(Poppers(program, c))) <= Cardinality(Taken(c))
               /\ tokens[c] \in Nat
    <2>1. B(Pushers(program, c)) \in SUBSET (1 .. Len(program))
          /\ B(Poppers(program, c)) \in SUBSET (1 .. Len(program))
      BY SetFacts DEF Before
    <2>2. tokens[c] \in Nat
      BY DEF IInv, VTATypeOK
    <2>3. QED
      BY <1>3, <2>1, <2>2, SetFacts, Counts DEF IInv
  <1>5. CASE m = at + 1
    <2>1. ASSUME NEW u \in Units PROVE First(u) = at + 1 /\ stage[u] = "idle" /\ queue[u] = <<>>
      <3>1. First(u) = at + 1
        BY <1>1, <1>2, <1>5, BeforeFirst
      <3>2. last[u] # at + 1
        BY <1>2 DEF IInv, RegisterOK, VTATypeOK, Places
      <3>3. queue[u] # <<>> => Head(queue[u]) # at + 1
        BY <1>2, HeadIsNext DEF Own
      <3>4. QED
        BY <3>1, <3>2, <3>3 DEF First
    <2>2. CASE fetching
      <3>1. \A u \in Units : Len(queue[u]) = 0
        BY <2>1
      <3>2. at < upto => \A j \in {at, at + 1} \ {0} : Destination(program[j]) \in Units
        BY <1>2, InsnFacts
      <3>3. at < upto => \A j \in {at, at + 1} \ {0} : Room(j)
        BY <3>1, <3>2, VTAPipelineAssumption DEF Room, Slice
      <3>4. CanFetch
        BY <2>2, <3>1, <3>3, VTAPipelineAssumption DEF CanFetch
      <3>5. QED
        BY <3>4 DEF CanMove
    <2>3. CASE ~fetching
      <3>1. PICK i \in 1 .. upto : ~Ended(i)
        BY <2>3
      <3>2. at = upto
        BY <2>3 DEF IInv, FetchOK
      <3>3. i \in Own(Destination(program[i])) /\ Destination(program[i]) \in Units
        BY <1>2, InsnFacts DEF Own
      <3>4. i < First(Destination(program[i]))
        BY <1>2, <2>1, <3>2, <3>3
      <3>5. QED
        BY <3>1, <3>3, <3>4, BeforeFirst DEF Ended
    <2>4. QED
      BY <2>2, <2>3
  <1>6. CASE m <= at
    <2>1. m \in 1 .. Len(program) /\ Destination(program[m]) = v
      BY <1>2, <1>6 DEF Own
    <2>2. stage[v] \in {"idle", "working", "leaving"}
      BY DEF IInv, VTATypeOK
    <2>3. stage[v] # "working"
      BY DEF CanMove
    <2>4. CASE stage[v] = "leaving"
      <3>1. m = last[v] /\ todo[v] \subseteq Pushes(program[m])
        BY <2>4 DEF First, IInv, RegisterOK
      <3>2. CASE todo[v] = {}
        <4>1. PICK c \in Channels : Producer[c] = v /\ ~(tokens[c] <= TokenDepth)
          BY <2>4, <3>2 DEF CanMove, CanLeave
        <4>2. c \in Pushes(program[m])
          <5>1. tokens[c] > TokenDepth
            BY <1>4, <4>1, VTAPipelineAssumption
          <5>2. QED
            BY <3>1, <4>1, <5>1 DEF IInv, SliceOK
        <4>3. Left(c) \subseteq B(Pushers(program, c)) \cup {m} /\ m \notin B(Pushers(program, c))
          BY <1>2, <3>1, <4>1 DEF Left, Before, Pushers
        <4>4. Cardinality(Left(c)) <= Cardinality(B(Pushers(program, c))) + 1
          <5>1. B(Pushers(program, c)) \in SUBSET (1 .. Len(program))
            BY SetFacts DEF Before
          <5>2. Cardinality(B(Pushers(program, c)) \cup {m}) = Cardinality(B(Pushers(program, c))) + 1
            BY <2>1, <4>3, <5>1, Counts DEF IInv
          <5>3. B(Pushers(program, c)) \cup {m} \in SUBSET (1 .. Len(program))
            BY <2>1, <5>1
          <5>4. Cardinality(Left(c)) <= Cardinality(B(Pushers(program, c)) \cup {m})
            BY <4>3, <5>3, Counts DEF IInv
          <5>5. QED
            BY <5>2, <5>4
        <4>5. Cardinality(B(Pushers(program, c))) < Cardinality(B(Poppers(program, c))) + TokenDepth
          BY <2>1, <4>2 DEF Orderly
        <4>6. tokens[c] + Cardinality(Taken(c)) = Cardinality(Left(c))
          BY DEF IInv, CountOK
        <4>7. QED
          BY <1>4, <4>1, <4>4, <4>5, <4>6, VTAPipelineAssumption
      <3>3. CASE todo[v] # {}
        <4>1. PICK c \in todo[v] : c = "g2s" => "g2l" \notin todo[v]
          BY <3>3
        <4>2. c \in Channels /\ Producer[c] = v
          BY <2>1, <3>1, InsnFacts
        <4>3. Pushes(program[last[v]]) \subseteq Channels
          BY <2>1, <3>1, InsnFacts
        <4>4. \A d \in Channels : tokens[d] < TokenDepth + Slice
          BY <1>4, VTAPipelineAssumption DEF IInv, VTATypeOK, Slice
        <4>5. Free(v, c)
          BY <4>1, <4>2, <4>3, <4>4 DEF Free
        <4>6. QED
          BY <2>4, <3>3, <4>5 DEF CanMove, CanLeave
      <3>4. QED
        BY <3>2, <3>3
    <2>5. CASE stage[v] = "idle"
      <3>1. queue[v] # <<>> /\ m = Head(queue[v])
        BY <1>2, <1>6, <2>5 DEF First
      <3>2. PICK c \in Pops(program[m]) : ~(tokens[c] > 0)
        BY <2>5, <3>1 DEF CanMove, CanBegin
      <3>3. c \in Channels /\ Consumer[c] = v
        BY <2>1, <3>2, InsnFacts
      <3>4. last[v] < m /\ last[v] \in Nat
        BY <3>1, HeadIsNext DEF IInv, VTATypeOK, Places
      <3>5. Taken(c) \subseteq B(Poppers(program, c))
        BY <1>2, <3>3, <3>4 DEF Taken, Before, Poppers
      <3>6. Cardinality(Taken(c)) <= Cardinality(B(Poppers(program, c)))
        <4>1. B(Poppers(program, c)) \in SUBSET (1 .. Len(program))
          BY SetFacts DEF Before
        <4>2. QED
          BY <3>5, <4>1, Counts DEF IInv
      <3>7. Cardinality(B(Poppers(program, c))) < Cardinality(B(Pushers(program, c)))
        BY <2>1, <3>2 DEF Orderly
      <3>8. tokens[c] + Cardinality(Taken(c)) = Cardinality(Left(c))
        BY <3>3 DEF IInv, CountOK
      <3>9. QED
        BY <1>4, <3>2, <3>3, <3>6, <3>7, <3>8
    <2>6. QED
      BY <2>2, <2>3, <2>4, <2>5
  <1>7. QED
    BY <1>2, <1>5, <1>6

(* No program that could run one instruction after the other ever brings   *)
(* the blocks to a standstill, however small the queues are.               *)
THEOREM NotStuck == Spec => []NeverStuck
  BY FirstMoves, Invariance, PTL
=============================================================================
