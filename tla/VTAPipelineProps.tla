-------------------------- MODULE VTAPipelineProps --------------------------
(***************************************************************************)
(* What the four blocks together promise.                                  *)
(***************************************************************************)
EXTENDS VTAPipeline

(* The blocks carry out the program (VTAProgram): between bounded queues   *)
(* no instruction is lost, repeated or overtaken, and no unit begins       *)
(* before the work is done whose token it takes.                           *)
Abstract == INSTANCE VTAProgram WITH given <- upto
ExecutesProgram == Abstract!Spec

(* A program that could run one instruction after the other: when its turn *)
(* comes, an instruction finds its tokens, and room for those it leaves.   *)
Before(S, i) == {j \in S : j < i}
Orderly(p) ==
    \A i \in 1 .. Len(p) :
        /\ \A c \in Pops(p[i]) :
            Cardinality(Before(Poppers(p, c), i)) < Cardinality(Before(Pushers(p, c), i))
        /\ \A c \in Pushes(p[i]) :
            Cardinality(Before(Pushers(p, c), i)) < Cardinality(Before(Poppers(p, c), i)) + TokenDepth

Ended(i) ==
    LET u == Destination(program[i])
    IN  i < last[u] \/ (i = last[u] /\ stage[u] = "idle")

(* As long as fetch is at work or an instruction that was handed to it has *)
(* not ended, some block can go on, once software has started it: a unit   *)
(* that waits for a token, one that waits for room for a token and fetch   *)
(* that waits for room, for an instruction or behind the one it handed out *)
(* last, never wait for each other, however small the queues are.          *)
CanFetch ==
    /\ fetching
    /\ IF at < upto THEN \A j \in {at, at + 1} \ {0} : Room(j)
       ELSE \A u \in Units : Len(queue[u]) <= QueueDepth
CanBegin(u) ==
    /\ stage[u] = "idle" /\ queue[u] # <<>>
    /\ \A c \in Pops(program[Head(queue[u])]) : tokens[c] > 0
CanLeave(u) ==
    /\ stage[u] = "leaving"
    /\ IF todo[u] = {} THEN \A c \in Channels : Producer[c] = u => tokens[c] <= TokenDepth
       ELSE \E c \in todo[u] : Free(u, c)
CanMove == CanFetch \/ \E u \in Units : CanBegin(u) \/ stage[u] = "working" \/ CanLeave(u)
NeverStuck ==
    (fetching \/ \E i \in 1 .. upto : ~Ended(i)) => CanMove \/ ~Orderly(program)

(* So it ends.                                                             *)
AllEnded == \A i \in 1 .. Len(program) : Ended(i)
ProgramEnds == Orderly(program) => <>AllEnded

(* When compute has begun a FINISH that takes the token of a store, that   *)
(* store and all before it have written their results.                     *)
StoresWritten(f) ==
    \A i \in Before(Pushers(program, "s2g"), f) :
        Cardinality(Before(Pushers(program, "s2g"), i + 1))
            <= Cardinality(Before(Poppers(program, "s2g"), f + 1))
        => i < last["store"] \/ (i = last["store"] /\ stage["store"] # "working")
FinishAfterStores ==
    LET f == last["compute"]
    IN  f # 0 /\ program[f].op = "finish" => StoresWritten(f)
=============================================================================
