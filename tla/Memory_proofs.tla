---------------------------- MODULE Memory_proofs ----------------------------
(***************************************************************************)
(* Proofs about PromptBuilder and Memory, for any number of messages,      *)
(* tasks, nodes and generations: what a builder builds only grows, the     *)
(* prompts of one process work from one domain memory, and the bulletin    *)
(* that is shown is the newest.                                            *)
(***************************************************************************)
EXTENDS Memory, SequenceTheorems, TLAPS

(***************************************************************************)
(* The builder.                                                            *)
(***************************************************************************)

\* The order of the layers, and each one's place in it.
LEMMA Places ==
  /\ Order[1] = 0 /\ Order[2] = 1 /\ Order[3] = 3 /\ Order[4] = 2 /\ Order[5] = 4
  /\ Position[0] = 1 /\ Position[1] = 2 /\ Position[3] = 3 /\ Position[2] = 4 /\ Position[4] = 5
<1>1. Order[1] = 0 /\ Order[2] = 1 /\ Order[3] = 3 /\ Order[4] = 2 /\ Order[5] = 4
  BY DEF Order
<1>2. ASSUME NEW i \in 1 .. 5 PROVE Position[Order[i]] = i
  <2> DEFINE l == Order[i]
  <2>1. i = 1 \/ i = 2 \/ i = 3 \/ i = 4 \/ i = 5
    OBVIOUS
  <2>2. \A j \in 1 .. 5 : j = 1 \/ j = 2 \/ j = 3 \/ j = 4 \/ j = 5
    OBVIOUS
  <2>3. l \in 0 .. 4 /\ \A j \in 1 .. 5 : Order[j] = l => j = i
    BY <1>1, <2>1, <2>2
  <2>4. Position[l] = CHOOSE j \in 1 .. 5 : Order[j] = l
    BY <2>3 DEF Position
  <2> HIDE DEF l
  <2>5. (CHOOSE j \in 1 .. 5 : Order[j] = l) \in 1 .. 5 /\ Order[CHOOSE j \in 1 .. 5 : Order[j] = l] = l
    <3>1. \E j \in 1 .. 5 : Order[j] = l
      BY DEF l
    <3> QED
      BY <3>1
  <2>6. Position[l] = i
    BY <2>3, <2>4, <2>5
  <2> QED
    BY <2>6 DEF l
<1>3. Position[Order[1]] = 1 /\ Position[Order[2]] = 2 /\ Position[Order[3]] = 3
      /\ Position[Order[4]] = 4 /\ Position[Order[5]] = 5
  BY <1>2
<1> QED
  BY <1>1, <1>3

\* The depth of a builder, layer by layer.
LEMMA DepthIs ==
  ASSUME NEW k \in 0 .. 5
  PROVE  Depth(k) <=> /\ content[0] # "unset" <=> k >= 1
                      /\ content[1] # "unset" <=> k >= 2
                      /\ content[3] # "unset" <=> k >= 3
                      /\ content[2] # "unset" <=> k >= 4
                      /\ working > 0 <=> k >= 5
                      /\ last = IF k = 0 THEN -1 ELSE Order[k]
<1>1. \A i \in 1 .. 5 : i = 1 \/ i = 2 \/ i = 3 \/ i = 4 \/ i = 5
  OBVIOUS
<1>2. /\ IsSet(Order[1]) <=> content[0] # "unset"
      /\ IsSet(Order[2]) <=> content[1] # "unset"
      /\ IsSet(Order[3]) <=> content[3] # "unset"
      /\ IsSet(Order[4]) <=> content[2] # "unset"
      /\ IsSet(Order[5]) <=> working > 0
  BY Places DEF IsSet
<1>3. (\A i \in 1 .. 5 : IsSet(Order[i]) <=> i <= k) <=>
        /\ IsSet(Order[1]) <=> 1 <= k
        /\ IsSet(Order[2]) <=> 2 <= k
        /\ IsSet(Order[3]) <=> 3 <= k
        /\ IsSet(Order[4]) <=> 4 <= k
        /\ IsSet(Order[5]) <=> 5 <= k
  BY <1>1
<1> QED
  BY <1>2, <1>3 DEF Depth

\* A layer is in order when it is the next one of the order.
LEMMA InOrderIsNext ==
  ASSUME NEW k \in 0 .. 5, Depth(k), NEW l \in 0 .. 4, InOrder(l)
  PROVE  Position[l] = k + 1
<1>1. Position[l] \in 1 .. 5 /\ l \in {0, 1, 2, 3, 4}
  BY Places
<1>2. last # -1 => Position[l] > Position[last]
  BY DEF InOrder
<1>3. \A i \in 1 .. Position[l] - 1 : i <= k
  BY <1>1 DEF InOrder, Depth
<1>4. Position[l] - 1 <= k
  BY <1>1, <1>3
<1>5. CASE k = 0
  BY <1>1, <1>4, <1>5
<1>6. CASE k # 0
  <2>1. last = Order[k] /\ k \in 1 .. 5
    BY <1>6 DEF Depth
  <2>2. last # -1 /\ Position[last] = k
    <3>1. k = 1 \/ k = 2 \/ k = 3 \/ k = 4 \/ k = 5
      BY <2>1
    <3> QED
      BY <2>1, <3>1, Places
  <2> QED
    BY <1>1, <1>2, <1>4, <2>2
<1> QED
  BY <1>5, <1>6

\* Nothing added to a sequence of blocks.
LEMMA Nil == /\ \A s \in Seq(0 .. 4) : s \o <<>> = s /\ <<>> \o s = s
             /\ <<>> \in Seq(0 .. 4)
             /\ [i \in 1 .. 0 |-> 4] = <<>>
<1>1. \A s \in Seq(0 .. 4) : s \o <<>> = s /\ <<>> \o s = s
  BY ConcatEmptySeq
<1>2. [i \in 1 .. 0 |-> 4] = <<>>
  <2> DEFINE none == [i \in 1 .. 0 |-> 4]
  <2>1. none \in Seq(0 .. 4) /\ Len(none) = 0
    OBVIOUS
  <2>2. <<>> \in Seq(0 .. 4) /\ Len(<<>>) = 0
    OBVIOUS
  <2> HIDE DEF none
  <2>3. \A i \in 1 .. Len(none) : none[i] = <<>>[i]
    BY <2>1
  <2>4. none = <<>>
    BY <2>1, <2>2, <2>3, SeqEqual
  <2> QED
    BY <2>4 DEF none
<1> QED
  BY <1>1, <1>2

\* The blocks of a prompt.
LEMMA Blocks ==
  ASSUME BuilderTypeOK
  PROVE  /\ \A l \in 0 .. 4 : Block(l) \in Seq(0 .. 4)
         /\ [i \in 1 .. working |-> 4] \in Seq(0 .. 4)
         /\ Assembled \in Seq(0 .. 4)
<1>1. ASSUME NEW l \in 0 .. 4 PROVE Block(l) \in Seq(0 .. 4)
  <2>1. <<l>> \in Seq(0 .. 4) /\ <<>> \in Seq(0 .. 4)
    OBVIOUS
  <2> QED
    BY <2>1 DEF Block
<1>2. [i \in 1 .. working |-> 4] \in Seq(0 .. 4)
  <2>1. working \in Nat
    BY BuilderAssumption DEF BuilderTypeOK
  <2> QED
    BY <2>1
<1> DEFINE messages == [i \in 1 .. working |-> 4]
<1>3. messages \in Seq(0 .. 4)
  BY <1>2
<1> HIDE DEF messages
<1>4. Block(0) \in Seq(0 .. 4) /\ Block(1) \in Seq(0 .. 4) /\ Block(2) \in Seq(0 .. 4)
      /\ Block(3) \in Seq(0 .. 4)
  BY <1>1
<1>5. Block(0) \o Block(1) \in Seq(0 .. 4)
  BY <1>4, ConcatProperties
<1>6. Block(0) \o Block(1) \o Block(3) \in Seq(0 .. 4)
  BY <1>4, <1>5, ConcatProperties
<1>7. Block(0) \o Block(1) \o Block(3) \o Block(2) \in Seq(0 .. 4)
  BY <1>4, <1>6, ConcatProperties
<1>8. Block(0) \o Block(1) \o Block(3) \o Block(2) \o messages \in Seq(0 .. 4)
  BY <1>3, <1>7, ConcatProperties
<1> QED
  BY <1>1, <1>2, <1>8 DEF Assembled, messages

\* A prefix of what is assembled is one still when a block is added.
LEMMA PrefixGrows ==
  ASSUME NEW a \in Seq(0 .. 4), NEW t \in Seq(0 .. 4), NEW b \in Seq(0 .. 4),
         Len(b) <= Len(a), b = SubSeq(a, 1, Len(b))
  PROVE  Len(b) <= Len(a \o t) /\ b = SubSeq(a \o t, 1, Len(b))
<1>1. Len(a) \in Nat /\ Len(t) \in Nat /\ Len(b) \in Nat /\ Len(a \o t) = Len(a) + Len(t)
  BY ConcatProperties
<1>2. Len(b) <= Len(a \o t)
  BY <1>1
<1>3. CASE Len(b) = 0
  <2>1. SubSeq(a \o t, 1, 0) = <<>> /\ SubSeq(a, 1, 0) = <<>>
    BY SubSeqEmpty
  <2> QED
    BY <1>2, <1>3, <2>1
<1>4. CASE Len(b) # 0
  <2>1. 1 \in 1 .. Len(a) /\ Len(b) \in 1 .. Len(a)
    BY <1>1, <1>4
  <2>2. SubSeq(a \o t, 1, Len(b)) = SubSeq(a, 1, Len(b))
    BY <2>1, SubSeqOfConcat1
  <2> QED
    BY <1>2, <2>2
<1> QED
  BY <1>3, <1>4

\* The next layer of the order comes after what is assembled so far.
LEMMA SetAppends ==
  ASSUME BuilderTypeOK, NEW k \in 0 .. 3, Depth(k), NEW l \in 0 .. 3, Position[l] = k + 1,
         NEW c \in {"empty", "text"}, content' = [content EXCEPT ![l] = c], UNCHANGED working
  PROVE  \E t \in Seq(0 .. 4) : Assembled' = Assembled \o t
<1>1. /\ content[0] # "unset" <=> k >= 1
      /\ content[1] # "unset" <=> k >= 2
      /\ content[3] # "unset" <=> k >= 3
      /\ content[2] # "unset" <=> k >= 4
      /\ working > 0 <=> k >= 5
  BY DepthIs
<1>2. working = 0
  BY <1>1, BuilderAssumption DEF BuilderTypeOK
<1>3. [i \in 1 .. working |-> 4] = <<>>
  BY <1>2, Nil
<1>4. /\ Assembled = Block(0) \o Block(1) \o Block(3) \o Block(2) \o <<>>
      /\ Assembled' = Block(0)' \o Block(1)' \o Block(3)' \o Block(2)' \o <<>>
  BY <1>3 DEF Assembled
<1>5. \A j \in 0 .. 3 : j # l => content'[j] = content[j]
  BY DEF BuilderTypeOK
<1>6. \A j \in 0 .. 3 : j # l => Block(j)' = Block(j)
  BY <1>5 DEF Block
<1>7. content'[l] = c
  BY DEF BuilderTypeOK
<1>8. Block(l)' \in Seq(0 .. 4)
  <2>1. <<l>> \in Seq(0 .. 4) /\ <<>> \in Seq(0 .. 4)
    OBVIOUS
  <2> QED
    BY <1>7, <2>1 DEF Block
<1>9. Block(0) \in Seq(0 .. 4) /\ Block(1) \in Seq(0 .. 4) /\ Block(3) \in Seq(0 .. 4)
      /\ Block(2) \in Seq(0 .. 4)
  BY Blocks
<1>10. CASE k = 0
  <2>1. l = 0
    BY <1>10, Places
  <2>2. Block(0) = <<>> /\ Block(1) = <<>> /\ Block(3) = <<>> /\ Block(2) = <<>>
    BY <1>1, <1>10 DEF Block
  <2>3. Assembled = <<>> /\ Assembled' = Block(l)'
    BY <1>4, <1>6, <1>8, <2>1, <2>2, Nil
  <2> QED
    BY <1>8, <2>3, Nil
<1>11. CASE k = 1
  <2>1. l = 1
    BY <1>11, Places
  <2>2. Block(1) = <<>> /\ Block(3) = <<>> /\ Block(2) = <<>>
    BY <1>1, <1>11 DEF Block
  <2>3. Block(0) \o Block(l)' \in Seq(0 .. 4)
    BY <1>8, <1>9, ConcatProperties
  <2>4. Block(0)' = Block(0) /\ Block(1)' = Block(l)' /\ Block(3)' = <<>> /\ Block(2)' = <<>>
    BY <1>6, <2>1, <2>2
  <2>5. /\ Assembled = Block(0) \o <<>> \o <<>> \o <<>> \o <<>>
        /\ Assembled' = Block(0) \o Block(l)' \o <<>> \o <<>> \o <<>>
    BY <1>4, <2>2, <2>4
  <2>6. Assembled = Block(0) /\ Assembled' = Block(0) \o Block(l)'
    BY <1>9, <2>3, <2>5, Nil
  <2> QED
    BY <1>8, <2>6
<1>12. CASE k = 2
  <2>1. l = 3
    BY <1>12, Places
  <2>2. Block(3) = <<>> /\ Block(2) = <<>>
    BY <1>1, <1>12 DEF Block
  <2>3. Block(0) \o Block(1) \in Seq(0 .. 4)
    BY <1>9, ConcatProperties
  <2>4. Block(0) \o Block(1) \o Block(l)' \in Seq(0 .. 4)
    BY <1>8, <2>3, ConcatProperties
  <2>5. Block(0)' = Block(0) /\ Block(1)' = Block(1) /\ Block(3)' = Block(l)' /\ Block(2)' = <<>>
    BY <1>6, <2>1, <2>2
  <2>6. /\ Assembled = Block(0) \o Block(1) \o <<>> \o <<>> \o <<>>
        /\ Assembled' = Block(0) \o Block(1) \o Block(l)' \o <<>> \o <<>>
    BY <1>4, <2>2, <2>5
  <2>7. Assembled = Block(0) \o Block(1) /\ Assembled' = Block(0) \o Block(1) \o Block(l)'
    BY <2>3, <2>4, <2>6, Nil
  <2> QED
    BY <1>8, <2>7
<1>13. CASE k = 3
  <2>1. l = 2
    BY <1>13, Places
  <2>2. Block(2) = <<>>
    BY <1>1, <1>13 DEF Block
  <2>3. Block(0) \o Block(1) \in Seq(0 .. 4)
    BY <1>9, ConcatProperties
  <2>4. Block(0) \o Block(1) \o Block(3) \in Seq(0 .. 4)
    BY <1>9, <2>3, ConcatProperties
  <2>5. Block(0) \o Block(1) \o Block(3) \o Block(l)' \in Seq(0 .. 4)
    BY <1>8, <2>4, ConcatProperties
  <2>6. /\ Block(0)' = Block(0) /\ Block(1)' = Block(1) /\ Block(3)' = Block(3)
        /\ Block(2)' = Block(l)'
    BY <1>6, <2>1
  <2>7. /\ Assembled = Block(0) \o Block(1) \o Block(3) \o <<>> \o <<>>
        /\ Assembled' = Block(0) \o Block(1) \o Block(3) \o Block(l)' \o <<>>
    BY <1>4, <2>2, <2>6
  <2>8. /\ Assembled = Block(0) \o Block(1) \o Block(3)
        /\ Assembled' = Block(0) \o Block(1) \o Block(3) \o Block(l)'
    BY <2>4, <2>5, <2>7, Nil
  <2> QED
    BY <1>8, <2>8
<1>14. k = 0 \/ k = 1 \/ k = 2 \/ k = 3
  OBVIOUS
<1> QED
  BY <1>10, <1>11, <1>12, <1>13, <1>14, Zenon

\* A working message comes after everything.
LEMMA MessageAppends ==
  ASSUME BuilderTypeOK, UNCHANGED content, working' = working + 1
  PROVE  \E t \in Seq(0 .. 4) : Assembled' = Assembled \o t
<1> DEFINE front == Block(0) \o Block(1) \o Block(3) \o Block(2)
           ms == [i \in 1 .. working |-> 4]
<1>1. working \in Nat /\ ms \in Seq(0 .. 4) /\ Len(ms) = working
  BY BuilderAssumption DEF BuilderTypeOK
<1>2. front \in Seq(0 .. 4)
  <2>1. Block(0) \in Seq(0 .. 4) /\ Block(1) \in Seq(0 .. 4) /\ Block(3) \in Seq(0 .. 4)
        /\ Block(2) \in Seq(0 .. 4)
    BY Blocks
  <2>2. Block(0) \o Block(1) \in Seq(0 .. 4)
    BY <2>1, ConcatProperties
  <2>3. Block(0) \o Block(1) \o Block(3) \in Seq(0 .. 4)
    BY <2>1, <2>2, ConcatProperties
  <2> QED
    BY <2>1, <2>3, ConcatProperties
<1> DEFINE more == [i \in 1 .. working + 1 |-> 4]
<1>3. Assembled = front \o ms /\ Assembled' = front \o more
  <2>1. Block(0)' = Block(0) /\ Block(1)' = Block(1) /\ Block(3)' = Block(3) /\ Block(2)' = Block(2)
    BY DEF Block
  <2>2. Assembled' = Block(0)' \o Block(1)' \o Block(3)' \o Block(2)' \o [i \in 1 .. working' |-> 4]
    BY DEF Assembled
  <2>3. Assembled' = front \o more
    BY <2>1, <2>2
  <2> QED
    BY <2>3 DEF Assembled
<1>4. more = ms \o <<4>>
  <2>1. more \in Seq(0 .. 4) /\ Len(more) = working + 1 /\ \A i \in 1 .. working + 1 : more[i] = 4
    BY <1>1
  <2>2. <<4>> \in Seq(0 .. 4) /\ Len(<<4>>) = 1 /\ <<4>>[1] = 4
    OBVIOUS
  <2>3. \A i \in 1 .. working : ms[i] = 4
    OBVIOUS
  <2> HIDE DEF ms, more
  <2>4. /\ ms \o <<4>> \in Seq(0 .. 4)
        /\ Len(ms \o <<4>>) = Len(ms) + Len(<<4>>)
        /\ \A i \in 1 .. Len(ms) + Len(<<4>>) :
             (ms \o <<4>>)[i] = IF i <= Len(ms) THEN ms[i] ELSE <<4>>[i - Len(ms)]
    BY <1>1, <2>2, ConcatProperties
  <2>5. ASSUME NEW i \in 1 .. working + 1 PROVE (ms \o <<4>>)[i] = 4
    <3>1. CASE i <= working
      BY <1>1, <2>2, <2>3, <2>4, <3>1
    <3>2. CASE i = working + 1
      <4>1. i - Len(ms) = 1 /\ ~(i <= Len(ms)) /\ i \in 1 .. Len(ms) + Len(<<4>>)
        BY <1>1, <2>2, <3>2
      <4> QED
        BY <2>2, <2>4, <4>1
    <3> QED
      BY <1>1, <3>1, <3>2
  <2>6. Len(more) = Len(ms \o <<4>>) /\ \A i \in 1 .. Len(more) : more[i] = (ms \o <<4>>)[i]
    BY <1>1, <2>1, <2>2, <2>4, <2>5
  <2> QED
    BY <2>1, <2>4, <2>6, SeqEqual
<1>5. <<4>> \in Seq(0 .. 4)
  OBVIOUS
<1> HIDE DEF front, ms, more
<1>6. front \o (ms \o <<4>>) = (front \o ms) \o <<4>>
  BY <1>1, <1>2, <1>5, ConcatAssociative
<1> QED
  BY <1>3, <1>4, <1>5, <1>6

\* A new builder has built nothing.
LEMMA NewIsEmpty ==
  ASSUME \A l \in 0 .. 3 : content[l] = "unset", working = 0
  PROVE  Assembled = <<>>
<1>1. [i \in 1 .. working |-> 4] = <<>>
  BY Nil
<1>2. Block(0) = <<>> /\ Block(1) = <<>> /\ Block(3) = <<>> /\ Block(2) = <<>>
  BY DEF Block
<1> QED
  BY <1>1, <1>2, Nil DEF Assembled

\* Which call of the agents sets which layer.
LEMMA Calls ==
  /\ \A l \in 0 .. 4 : \A u \in 0 .. 5 : AgentCalls[u + 1] = Layer[l] => Position[l] = u + 1
  /\ \A u \in 0 .. 5 : AgentCalls[u + 1] = "build" => u = 5
<1>1. /\ AgentCalls[1] = "0" /\ AgentCalls[2] = "1" /\ AgentCalls[3] = "3"
      /\ AgentCalls[4] = "2" /\ AgentCalls[5] = "4" /\ AgentCalls[6] = "build"
  BY DEF AgentCalls
<1>2. Layer[0] = "0" /\ Layer[1] = "1" /\ Layer[2] = "2" /\ Layer[3] = "3" /\ Layer[4] = "4"
  BY DEF Layer
<1>3. \A u \in 0 .. 5 : u = 0 \/ u = 1 \/ u = 2 \/ u = 3 \/ u = 4 \/ u = 5
  OBVIOUS
<1>4. \A l \in 0 .. 4 : l = 0 \/ l = 1 \/ l = 2 \/ l = 3 \/ l = 4
  OBVIOUS
<1>5. \A u \in 0 .. 5 : AgentCalls[u + 1] = "build" => u = 5
  BY <1>1, <1>3
<1>6. ASSUME NEW l \in 0 .. 4, NEW u \in 0 .. 5, AgentCalls[u + 1] = Layer[l]
      PROVE  Position[l] = u + 1
  BY <1>1, <1>2, <1>3, <1>4, <1>6, Places
<1> QED
  BY <1>5, <1>6

\* The next layer of the order is always accepted.
LEMMA NextIsInOrder ==
  ASSUME NEW k \in 0 .. 4, Depth(k), NEW l \in 0 .. 4, Position[l] = k + 1
  PROVE  InOrder(l)
<1>1. \A i \in 1 .. Position[l] - 1 : IsSet(Order[i])
  BY DEF Depth
<1>2. CASE k = 0
  BY <1>1, <1>2 DEF Depth, InOrder
<1>3. CASE k # 0
  <2>1. last = Order[k] /\ (k = 1 \/ k = 2 \/ k = 3 \/ k = 4)
    BY <1>3 DEF Depth
  <2>2. Position[last] = k
    BY <2>1, Places
  <2>3. l # last /\ Position[l] > Position[last]
    BY <2>2
  <2> QED
    BY <1>1, <2>3 DEF InOrder
<1> QED
  BY <1>2, <1>3

LEMMA NewKeeps == ASSUME NewBuilder PROVE BuilderIInv'
<1>1. /\ content' = [l \in 0 .. 3 |-> "unset"] /\ working' = 0 /\ last' = -1 /\ raised' = FALSE
      /\ built' = <<>> /\ usual' = 0
  BY DEF NewBuilder
<1>2. BuilderTypeOK'
  <2>1. content' \in [0 .. 3 -> {"unset", "empty", "text"}] /\ working' \in 0 .. MaxMessages
    BY <1>1, BuilderAssumption
  <2>2. -1 \in -1 .. 4 /\ 0 \in -1 .. 6
    OBVIOUS
  <2>3. last' \in -1 .. 4 /\ usual' \in -1 .. 6
    BY <1>1, <2>2, Zenon
  <2>4. raised' \in BOOLEAN
    BY <1>1, Zenon
  <2>5. built' \in Seq(0 .. 4)
    BY <1>1, Nil
  <2> QED
    BY <2>1, <2>3, <2>4, <2>5 DEF BuilderTypeOK
<1>3. Assembled' = <<>>
  <2>1. [i \in 1 .. working' |-> 4] = <<>>
    BY <1>1, Nil
  <2>2. \A l \in 0 .. 3 : content'[l] # "text"
    BY <1>1
  <2>3. Block(0)' = <<>> /\ Block(1)' = <<>> /\ Block(3)' = <<>> /\ Block(2)' = <<>>
    BY <2>2 DEF Block
  <2>4. Assembled' = Block(0)' \o Block(1)' \o Block(3)' \o Block(2)' \o [i \in 1 .. working' |-> 4]
    BY DEF Assembled
  <2>5. Assembled' = <<>> \o <<>> \o <<>> \o <<>> \o <<>>
    BY <2>1, <2>3, <2>4
  <2> QED
    BY <2>5, Nil
<1>4. PromptsOnlyGrow'
  <2>1. Len(<<>>) = 0 /\ SubSeq(<<>>, 1, 0) = <<>>
    BY SubSeqEmpty
  <2> QED
    BY <1>1, <1>3, <2>1 DEF PromptsOnlyGrow
<1>5. Depth(0)'
  <2>1. \A i \in 1 .. 5 : ~IsSet(Order[i])'
    <3> TAKE i \in 1 .. 5
    <3>1. i = 1 \/ i = 2 \/ i = 3 \/ i = 4 \/ i = 5
      OBVIOUS
    <3> QED
      BY <1>1, <3>1, Places DEF IsSet
  <2> QED
    BY <1>1, <2>1 DEF Depth
<1> QED
  BY <1>1, <1>2, <1>4, <1>5 DEF BuilderIInv

\* A layer that is set is the next one, and one that is not raises.
LEMMA SetKeeps ==
  ASSUME BuilderIInv, NEW l \in 0 .. 3, SetLayer(l)
  PROVE  BuilderIInv'
<1>1. PICK k \in 0 .. 5 : Depth(k) /\ (usual \in 0 .. 5 => k = usual)
  BY DEF BuilderIInv
<1>2. /\ usual' = IF usual \in 0 .. 5 /\ AgentCalls[usual + 1] = Layer[l] THEN usual + 1 ELSE -1
      /\ raised' = ~InOrder(l)
      /\ UNCHANGED <<working, built>>
  BY DEF SetLayer, Follows
<1>3. BuilderTypeOK /\ PromptsOnlyGrow /\ usual \in -1 .. 6 /\ l \in 0 .. 4
  BY DEF BuilderIInv, BuilderTypeOK
<1>4. usual' # -1 => Position[l] = k + 1 /\ usual' = k + 1
  BY <1>1, <1>2, <1>3, Calls
<1>5. usual' \in -1 .. 6 /\ raised' \in BOOLEAN
  BY <1>2, <1>3
<1>6. CASE InOrder(l)
  <2>1. Position[l] = k + 1
    BY <1>1, <1>3, <1>6, InOrderIsNext
  <2>2. PICK c \in {"empty", "text"} : content' = [content EXCEPT ![l] = c] /\ last' = l
    BY <1>6 DEF SetLayer
  <2>3. k \in 0 .. 3 /\ l = Order[k + 1]
    BY <2>1, Places
  <2>4. PICK t \in Seq(0 .. 4) : Assembled' = Assembled \o t
    BY <1>1, <1>2, <1>3, <2>1, <2>2, <2>3, SetAppends
  <2>5. BuilderTypeOK'
    BY <1>2, <1>3, <1>5, <2>2 DEF BuilderTypeOK
  <2>6. PromptsOnlyGrow'
    <3>1. Assembled \in Seq(0 .. 4) /\ built \in Seq(0 .. 4)
      BY <1>3, Blocks DEF BuilderTypeOK
    <3>2. Len(built) <= Len(Assembled \o t) /\ built = SubSeq(Assembled \o t, 1, Len(built))
      BY <1>3, <3>1, PrefixGrows DEF PromptsOnlyGrow
    <3> QED
      BY <1>2, <1>6, <2>4, <3>2 DEF PromptsOnlyGrow
  <2>7. Depth(k + 1)'
    <3>1. /\ content[0] # "unset" <=> k >= 1
          /\ content[1] # "unset" <=> k >= 2
          /\ content[3] # "unset" <=> k >= 3
          /\ content[2] # "unset" <=> k >= 4
          /\ working > 0 <=> k >= 5
      BY <1>1, DepthIs
    <3>2. \A i \in 1 .. 5 : IsSet(Order[i])' <=> i <= k + 1
      <4> TAKE i \in 1 .. 5
      <4>1. i = 1 \/ i = 2 \/ i = 3 \/ i = 4 \/ i = 5
        OBVIOUS
      <4>2. content'[l] # "unset" /\ \A j \in 0 .. 3 : j # l => content'[j] = content[j]
        BY <1>3, <2>2 DEF BuilderTypeOK
      <4>3. i = 5 => (IsSet(Order[i])' <=> i <= k + 1)
        BY <1>2, <2>3, <3>1, Places DEF IsSet
      <4>4. i # 5 => (IsSet(Order[i])' <=> content'[Order[i]] # "unset")
        BY <4>1, Places DEF IsSet
      <4>5. k = 0 \/ k = 1 \/ k = 2 \/ k = 3
        BY <2>3
      <4>6. i # 5 => (content'[Order[i]] # "unset" <=> i <= k + 1)
        BY <2>3, <3>1, <4>1, <4>2, <4>5, Places
      <4> QED
        BY <4>3, <4>4, <4>6
    <3>3. last' = Order[k + 1] /\ k + 1 # 0
      BY <2>2, <2>3
    <3> QED
      BY <3>2, <3>3 DEF Depth
  <2>8. k + 1 \in 0 .. 5 /\ (usual' \in 0 .. 5 => k + 1 = usual')
    BY <1>4, <2>3
  <2> QED
    BY <2>5, <2>6, <2>7, <2>8 DEF BuilderIInv
<1>7. CASE ~InOrder(l)
  <2>1. UNCHANGED <<content, last>>
    BY <1>7 DEF SetLayer
  <2>2. usual' = -1
    <3> SUFFICES ASSUME usual' # -1 PROVE FALSE
      OBVIOUS
    <3>1. Position[l] = k + 1 /\ Position[l] \in 1 .. 5
      BY <1>4, Places
    <3>2. k \in 0 .. 4
      BY <3>1
    <3> QED
      BY <1>1, <1>3, <1>7, <3>1, <3>2, NextIsInOrder
  <2>3. Assembled' = Assembled /\ Depth(k)'
    BY <1>1, <1>2, <2>1 DEF Assembled, Block, Depth, IsSet
  <2>4. BuilderTypeOK'
    BY <1>2, <1>3, <1>5, <2>1 DEF BuilderTypeOK
  <2>5. PromptsOnlyGrow'
    BY <1>2, <1>3, <2>2, <2>3 DEF PromptsOnlyGrow
  <2> QED
    BY <2>2, <2>3, <2>4, <2>5 DEF BuilderIInv
<1> QED
  BY <1>6, <1>7

\* Messages come after the session state, without further checks.
LEMMA AddKeeps ==
  ASSUME BuilderIInv, AddMessage
  PROVE  BuilderIInv'
<1>1. PICK k \in 0 .. 5 : Depth(k) /\ (usual \in 0 .. 5 => k = usual)
  BY DEF BuilderIInv
<1>2. /\ usual' = IF usual \in 0 .. 5 /\ AgentCalls[usual + 1] = Layer[4] THEN usual + 1 ELSE -1
      /\ raised' = ~(IsSet(2) \/ InOrder(4))
      /\ working' = IF raised' THEN working ELSE working + 1
      /\ last' = IF raised' THEN last ELSE 4
      /\ working < MaxMessages
      /\ UNCHANGED <<content, built>>
  BY DEF AddMessage, Follows
<1>3. BuilderTypeOK /\ PromptsOnlyGrow /\ usual \in -1 .. 6 /\ 4 \in 0 .. 4 /\ working \in Nat
  BY BuilderAssumption DEF BuilderIInv, BuilderTypeOK
<1>4. usual' # -1 => k = 4 /\ usual' = 5
  BY <1>1, <1>2, <1>3, Calls, Places
<1>5. /\ content[0] # "unset" <=> k >= 1
      /\ content[1] # "unset" <=> k >= 2
      /\ content[3] # "unset" <=> k >= 3
      /\ content[2] # "unset" <=> k >= 4
      /\ working > 0 <=> k >= 5
  BY <1>1, DepthIs
<1>6. IsSet(2) <=> k >= 4
  BY <1>5 DEF IsSet
<1>7. raised' \in BOOLEAN /\ usual' \in -1 .. 6
  BY <1>2, <1>4
<1>8. CASE ~raised'
  <2>1. k >= 4
    <3>1. CASE InOrder(4)
      <4>1. Position[4] = k + 1
        BY <1>1, <1>3, <3>1, InOrderIsNext
      <4> QED
        BY <4>1, Places
    <3> QED
      BY <1>2, <1>6, <1>8, <3>1
  <2>2. working' = working + 1 /\ last' = 4 /\ UNCHANGED content
    BY <1>2, <1>8
  <2>3. PICK t \in Seq(0 .. 4) : Assembled' = Assembled \o t
    BY <1>3, <2>2, MessageAppends
  <2>4. BuilderTypeOK'
    BY <1>2, <1>3, <1>7, <2>2, BuilderAssumption DEF BuilderTypeOK
  <2>5. PromptsOnlyGrow'
    <3>1. Assembled \in Seq(0 .. 4) /\ built \in Seq(0 .. 4)
      BY <1>3, Blocks DEF BuilderTypeOK
    <3>2. Len(built) <= Len(Assembled \o t) /\ built = SubSeq(Assembled \o t, 1, Len(built))
      BY <1>3, <3>1, PrefixGrows DEF PromptsOnlyGrow
    <3> QED
      BY <1>2, <1>8, <2>3, <3>2 DEF PromptsOnlyGrow
  <2>6. Depth(5)'
    <3>1. \A i \in 1 .. 5 : IsSet(Order[i])' <=> i <= 5
      <4> TAKE i \in 1 .. 5
      <4>1. i = 1 \/ i = 2 \/ i = 3 \/ i = 4 \/ i = 5
        OBVIOUS
      <4>2. working' > 0 /\ content' = content
        BY <1>3, <2>2
      <4> QED
        BY <1>5, <2>1, <4>1, <4>2, Places DEF IsSet
    <3>2. last' = Order[5]
      BY <2>2, Places
    <3> QED
      BY <3>1, <3>2 DEF Depth
  <2>7. usual' \in 0 .. 5 => 5 = usual'
    BY <1>4
  <2> QED
    BY <2>4, <2>5, <2>6, <2>7 DEF BuilderIInv
<1>9. CASE raised'
  <2>1. UNCHANGED <<content, working, last, built>>
    BY <1>2, <1>9
  <2>2. usual' = -1
    <3>1. ~(k >= 4)
      BY <1>2, <1>6, <1>9
    <3> QED
      BY <1>4, <3>1
  <2>3. Assembled' = Assembled /\ Depth(k)'
    BY <1>1, <2>1 DEF Assembled, Block, Depth, IsSet
  <2>4. BuilderTypeOK'
    BY <1>3, <1>7, <2>1 DEF BuilderTypeOK
  <2>5. PromptsOnlyGrow'
    BY <1>3, <2>1, <2>2, <2>3 DEF PromptsOnlyGrow
  <2> QED
    BY <2>2, <2>3, <2>4, <2>5 DEF BuilderIInv
<1> QED
  BY <1>7, <1>8, <1>9

\* What is built is all that is assembled.
LEMMA BuildKeeps ==
  ASSUME BuilderIInv, Build
  PROVE  BuilderIInv'
<1>1. PICK k \in 0 .. 5 : Depth(k) /\ (usual \in 0 .. 5 => k = usual)
  BY DEF BuilderIInv
<1>2. /\ usual' = IF usual \in 0 .. 5 /\ AgentCalls[usual + 1] = "build" THEN usual + 1 ELSE -1
      /\ raised' = ~IsSet(0)
      /\ built' = IF raised' THEN built ELSE Assembled
      /\ UNCHANGED <<content, working, last>>
  BY DEF Build, Follows
<1>3. BuilderTypeOK /\ PromptsOnlyGrow /\ usual \in -1 .. 6
  BY DEF BuilderIInv, BuilderTypeOK
<1>4. usual' # -1 => k = 5 /\ usual' = 6
  <2> SUFFICES ASSUME usual' # -1 PROVE k = 5 /\ usual' = 6
    OBVIOUS
  <2>1. usual \in 0 .. 5 /\ AgentCalls[usual + 1] = "build" /\ usual' = usual + 1
    BY <1>2
  <2>2. usual = 5
    BY <2>1, Calls
  <2> QED
    BY <1>1, <2>1, <2>2
<1>5. k = 5 => ~raised'
  <2>1. content[0] # "unset" <=> k >= 1
    BY <1>1, DepthIs
  <2>2. IsSet(0) <=> content[0] # "unset"
    BY DEF IsSet
  <2>3. k = 5 => k >= 1
    OBVIOUS
  <2> QED
    BY <1>2, <2>1, <2>2, <2>3
<1>6. Assembled' = Assembled /\ Depth(k)'
  BY <1>1, <1>2 DEF Assembled, Block, Depth, IsSet
<1>7. built' \in Seq(0 .. 4) /\ Len(built') <= Len(Assembled) /\ built' = SubSeq(Assembled, 1, Len(built'))
  <2>1. Assembled \in Seq(0 .. 4) /\ built \in Seq(0 .. 4)
    BY <1>3, Blocks DEF BuilderTypeOK
  <2>2. SubSeq(Assembled, 1, Len(Assembled)) = Assembled /\ Len(Assembled) \in Nat
    BY <2>1, SubSeqFull
  <2> QED
    BY <1>2, <1>3, <2>1, <2>2 DEF PromptsOnlyGrow
<1>8. BuilderTypeOK'
  BY <1>2, <1>3, <1>4, <1>7 DEF BuilderTypeOK
<1>9. PromptsOnlyGrow'
  BY <1>4, <1>5, <1>6, <1>7 DEF PromptsOnlyGrow
<1>10. usual' \in 0 .. 5 => k = usual'
  BY <1>4
<1> QED
  BY <1>6, <1>8, <1>9, <1>10 DEF BuilderIInv

\* Nothing the builder is not asked for changes it.
LEMMA BuilderStutters == BuilderIInv /\ UNCHANGED builder => BuilderIInv'
<1> SUFFICES ASSUME BuilderIInv, UNCHANGED builder PROVE BuilderIInv'
  OBVIOUS
<1>1. /\ content' = content /\ working' = working /\ last' = last /\ raised' = raised
      /\ built' = built /\ usual' = usual
  BY DEF builder
<1>2. BuilderTypeOK' /\ PromptsOnlyGrow'
  BY <1>1 DEF BuilderIInv, BuilderTypeOK, PromptsOnlyGrow, Assembled, Block
<1>3. PICK k \in 0 .. 5 : Depth(k) /\ (usual \in 0 .. 5 => k = usual)
  BY DEF BuilderIInv
<1>4. Depth(k)'
  BY <1>1, <1>3 DEF Depth, IsSet
<1> QED
  BY <1>1, <1>2, <1>3, <1>4 DEF BuilderIInv

\* Every call of a client keeps the invariant of its builder.
LEMMA BuilderStep == BuilderIInv /\ BuilderNext => BuilderIInv'
BY NewKeeps, SetKeeps, AddKeeps, BuildKeeps DEF BuilderNext

LEMMA BuilderStart == BuilderInit => BuilderIInv
<1> SUFFICES ASSUME BuilderInit PROVE BuilderIInv
  OBVIOUS
<1>1. /\ content = [l \in 0 .. 3 |-> "unset"] /\ working = 0 /\ last = -1 /\ raised = FALSE
      /\ built = <<>> /\ usual = 0
  BY DEF BuilderInit
<1>2. BuilderTypeOK
  BY <1>1, BuilderAssumption, Nil DEF BuilderTypeOK
<1>3. Assembled = <<>>
  BY <1>1, NewIsEmpty
<1>4. PromptsOnlyGrow
  BY <1>1, <1>3 DEF PromptsOnlyGrow
<1>5. Depth(0)
  BY <1>1, DepthIs
<1> QED
  BY <1>1, <1>2, <1>4, <1>5 DEF BuilderIInv

(***************************************************************************)
(* The memory of the worker.                                               *)
(***************************************************************************)

\* What is said of the worker's stores and tasks, without the builder.
StoresOK == /\ version \in 1 .. MaxVersion
            /\ cache \in 0 .. version
            /\ stored \subseteq Nodes
            /\ forgotten \subseteq stored
            /\ bulletin \in Bulletins
            /\ clock \in 0 .. MaxClock
            /\ pc \in [Tasks -> {"idle", "embed query", "answer", "embed node", "gather",
                                 "summarise", "generated"}]
            /\ held \in [Tasks -> [memory : 0 .. version, recalled : SUBSET Nodes,
                                   bulletin : Bulletins, asked : SUBSET Nodes]]
            /\ born \in 1 .. version
            /\ dropped \in [Nodes -> 0 .. MaxClock]
            /\ saved \subseteq 1 .. MaxClock

Stores == StoresOK /\ HoldsCache /\ BulletinsTimely /\ BulletinIsNewest

Holdings == [memory : 0 .. version, recalled : SUBSET Nodes, bulletin : Bulletins, asked : SUBSET Nodes]

LEMMA Parts == IInv <=> Stores /\ BuilderIInv
BY DEF IInv, Stores, StoresOK, TypeOK, BuilderIInv

\* A task that holds nothing.
LEMMA Nothing ==
  /\ NoBulletin \in Bulletins /\ NoBulletin.at = 0 /\ NoBulletin.seen = {}
  /\ NothingHeld.memory = 0 /\ NothingHeld.recalled = {} /\ NothingHeld.asked = {}
  /\ NothingHeld.bulletin = NoBulletin
  /\ version \in Nat => NothingHeld \in Holdings
<1>1. NoBulletin \in Bulletins /\ NoBulletin.at = 0 /\ NoBulletin.seen = {}
  BY MemoryAssumption DEF NoBulletin, Bulletins
<1> QED
  BY <1>1 DEF NothingHeld, Holdings

\* Of a task's step: what it and the others hold and where they are.
LEMMA Held ==
  ASSUME StoresOK, NEW t \in Tasks, NEW h, held' = [held EXCEPT ![t] = h],
         NEW where, pc' = [pc EXCEPT ![t] = where]
  PROVE  /\ held'[t] = h /\ pc'[t] = where
         /\ \A u \in Tasks : u # t => held'[u] = held[u] /\ pc'[u] = pc[u]
BY DEF StoresOK

LEMMA Numbers ==
  ASSUME StoresOK
  PROVE  /\ version \in Nat /\ clock \in Nat /\ cache \in Nat /\ born \in Nat /\ born <= version
         /\ version # 0
<1>1. MaxVersion \in Nat /\ MaxClock \in Nat
  BY MemoryAssumption
<1>2. version \in 1 .. MaxVersion /\ cache \in 0 .. version /\ clock \in 0 .. MaxClock
      /\ born \in 1 .. version
  BY DEF StoresOK
<1>3. version \in Nat
  BY <1>1, <1>2
<1> QED
  BY <1>1, <1>2, <1>3

\* While nothing is forgotten a bulletin stays timely.
LEMMA StaysTimely ==
  ASSUME UNCHANGED <<forgotten, dropped>>, clock \in Nat, clock' \in 0 .. MaxClock, clock <= clock',
         NEW b \in Bulletins, Timely(b)
  PROVE  Timely(b)'
<1>1. b.at \in 0 .. MaxClock /\ MaxClock \in Nat
  BY MemoryAssumption DEF Bulletins
<1>2. b.at <= clock /\ b.at \in Nat /\ clock' \in Nat
  BY <1>1 DEF Timely
<1>3. b.at <= clock'
  BY <1>2
<1>4. \A n \in b.seen \cap forgotten' : dropped'[n] >= b.at
  BY DEF Timely
<1> QED
  BY <1>3, <1>4 DEF Timely

States == {"idle", "embed query", "answer", "embed node", "gather", "summarise", "generated"}

\* A step of task t, to where, with h in its hands, that may fill the cache,
\* store nodes and move the clock.
Moved(t, h, where) ==
  /\ h \in Holdings /\ held' = [held EXCEPT ![t] = h]
  /\ where \in States /\ pc' = [pc EXCEPT ![t] = where]
  /\ UNCHANGED <<version, born, forgotten, dropped>>
  /\ cache' \in 0 .. version
  /\ cache' = cache \/ (cache = 0 /\ cache' = version)
  /\ stored \subseteq stored' /\ stored' \subseteq Nodes
  /\ clock' \in 0 .. MaxClock /\ clock <= clock'
  /\ where \in {"embed query", "answer"} =>
       cache' # 0 /\ h.memory = cache' /\ h.asked \subseteq forgotten
  /\ where = "answer" => h.recalled \cap h.asked = {}
  /\ where \in {"summarise", "generated"} => h.bulletin.at > 0
  /\ h.bulletin.at <= clock'
  /\ \A n \in h.bulletin.seen \cap forgotten : dropped[n] >= h.bulletin.at

\* What such a step keeps, but for the bulletin that is kept.
LEMMA TaskStep ==
  ASSUME Stores, NEW t \in Tasks, NEW h, NEW where, Moved(t, h, where)
  PROVE  /\ HoldsCache'
         /\ \A u \in Tasks : /\ Timely(held[u].bulletin)'
                             /\ pc'[u] = "generated" => held'[u].bulletin.at > 0
                             /\ pc'[u] = "summarise" => held'[u].bulletin.at > 0
         /\ \A b \in Bulletins : Timely(b) => Timely(b)'
         /\ cache' \in 0 .. version' /\ forgotten' \subseteq stored'
         /\ pc' \in [Tasks -> States]
         /\ held' \in [Tasks -> Holdings']
<1>1. StoresOK /\ HoldsCache /\ BulletinsTimely /\ held \in [Tasks -> Holdings]
  BY DEF Stores, StoresOK, Holdings
<1>2. /\ held'[t] = h /\ pc'[t] = where
      /\ \A u \in Tasks : u # t => held'[u] = held[u] /\ pc'[u] = pc[u]
  BY <1>1, Held DEF Moved
<1>3. clock \in Nat /\ version \in Nat /\ born \in Nat /\ born <= version /\ cache \in Nat
  BY <1>1, Numbers
<1>4. \A b \in Bulletins : Timely(b) => Timely(b)'
  BY <1>3, StaysTimely DEF Moved
<1>5. HoldsCache'
  <2>1. cache' # 0 => cache' >= born'
    <3>1. born' = born /\ (cache # 0 => cache >= born)
      BY <1>1 DEF HoldsCache, Moved
    <3>2. CASE cache' = cache
      BY <3>1, <3>2
    <3>3. CASE cache' = version
      BY <1>3, <3>1, <3>3
    <3> QED
      BY <3>2, <3>3 DEF Moved
  <2>2. ASSUME NEW u \in Tasks, pc'[u] \in {"embed query", "answer"}
        PROVE  /\ cache' # 0 /\ held'[u].memory = cache'
               /\ held'[u].asked \subseteq forgotten'
               /\ pc'[u] = "answer" => held'[u].recalled \cap held'[u].asked = {}
    <3>1. CASE u = t
      BY <1>2, <2>2, <3>1 DEF Moved
    <3>2. CASE u # t
      <4>1. /\ cache # 0 /\ held[u].memory = cache
            /\ held[u].asked \subseteq forgotten
            /\ pc[u] = "answer" => held[u].recalled \cap held[u].asked = {}
        BY <1>1, <1>2, <2>2, <3>2 DEF HoldsCache
      <4>2. cache' = cache /\ forgotten' = forgotten
        BY <4>1 DEF Moved
      <4> QED
        BY <1>2, <3>2, <4>1, <4>2
    <3> QED
      BY <3>1, <3>2
  <2> QED
    BY <2>1, <2>2 DEF HoldsCache
<1>6. ASSUME NEW u \in Tasks
      PROVE  /\ Timely(held[u].bulletin)'
             /\ pc'[u] = "generated" => held'[u].bulletin.at > 0
             /\ pc'[u] = "summarise" => held'[u].bulletin.at > 0
  <2>1. CASE u = t
    <3>1. Timely(held[u].bulletin)'
      BY <1>2, <2>1 DEF Timely, Moved
    <3> QED
      BY <1>2, <2>1, <3>1 DEF Moved
  <2>2. CASE u # t
    <3>1. held[u].bulletin \in Bulletins /\ Timely(held[u].bulletin) /\ held'[u] = held[u]
      BY <1>1, <1>2, <2>2 DEF BulletinsTimely, Holdings
    <3>2. PICK b \in Bulletins : b = held[u].bulletin /\ Timely(b) /\ b = held'[u].bulletin
      BY <3>1
    <3>3. Timely(b)'
      BY <1>4, <3>2
    <3>4. Timely(held[u].bulletin)'
      BY <3>2, <3>3 DEF Timely
    <3> QED
      BY <1>1, <1>2, <2>2, <3>4 DEF BulletinsTimely
  <2> QED
    BY <2>1, <2>2
<1>7. cache' \in 0 .. version' /\ forgotten' \subseteq stored' /\ Holdings' = Holdings
  BY <1>1 DEF Moved, StoresOK, Holdings
<1>8. pc' \in [Tasks -> States] /\ held' \in [Tasks -> Holdings]
  BY <1>1 DEF Moved, StoresOK, States
<1> QED
  BY <1>4, <1>5, <1>6, <1>7, <1>8

\* And with it: the bulletin stays, or is replaced by one as new.
LEMMA TaskKeeps ==
  ASSUME Stores, NEW t \in Tasks, NEW h, NEW where, Moved(t, h, where),
         UNCHANGED <<bulletin, saved>>
  PROVE  Stores'
<1>1. /\ HoldsCache'
      /\ \A u \in Tasks : /\ Timely(held[u].bulletin)'
                          /\ pc'[u] = "generated" => held'[u].bulletin.at > 0
                          /\ pc'[u] = "summarise" => held'[u].bulletin.at > 0
      /\ \A b \in Bulletins : Timely(b) => Timely(b)'
      /\ cache' \in 0 .. version' /\ forgotten' \subseteq stored'
      /\ pc' \in [Tasks -> States]
      /\ held' \in [Tasks -> Holdings'] 
  BY TaskStep
<1>2. StoresOK /\ BulletinIsNewest /\ Timely(bulletin) /\ bulletin \in Bulletins
  BY DEF Stores, StoresOK, BulletinsTimely
<1>3. StoresOK'
  BY <1>1, <1>2 DEF StoresOK, Moved, States, Holdings
<1>4. BulletinsTimely'
  <2>1. Timely(bulletin)'
    <3>1. PICK b \in Bulletins : b = bulletin /\ Timely(b) /\ b = bulletin'
      BY <1>2
    <3>2. Timely(b)'
      BY <1>1, <3>1
    <3> QED
      BY <3>1, <3>2 DEF Timely
  <2> QED
    BY <1>1, <2>1 DEF BulletinsTimely
<1>5. BulletinIsNewest'
  BY <1>2 DEF BulletinIsNewest, Moved
<1> QED
  BY <1>1, <1>3, <1>4, <1>5 DEF Stores

\* What every step of a task starts from.
LEMMA Before ==
  ASSUME Stores, NEW t \in Tasks
  PROVE  /\ StoresOK /\ held[t] \in Holdings /\ held[t].bulletin \in Bulletins
         /\ pc \in [Tasks -> States] /\ held \in [Tasks -> Holdings]
         /\ clock \in Nat /\ version \in Nat /\ version # 0 /\ cache \in 0 .. version
         /\ clock \in 0 .. MaxClock /\ clock <= clock /\ 0 <= clock /\ version \in 0 .. version
         /\ held[t].bulletin.at <= clock
         /\ \A n \in held[t].bulletin.seen \cap forgotten : dropped[n] >= held[t].bulletin.at
         /\ pc[t] \in {"summarise", "generated"} => held[t].bulletin.at > 0
         /\ stored \subseteq Nodes /\ forgotten \subseteq Nodes
<1>1. StoresOK /\ BulletinsTimely
  BY DEF Stores
<1>2. Timely(held[t].bulletin)
  BY <1>1 DEF BulletinsTimely
<1>3. held[t] \in Holdings /\ pc \in [Tasks -> States] /\ held \in [Tasks -> Holdings]
  BY <1>1 DEF StoresOK, Holdings, States
<1>4. held[t].bulletin \in Bulletins
  BY <1>3 DEF Holdings
<1>5. clock \in Nat /\ version \in Nat /\ version # 0
  BY <1>1, Numbers
<1>6. pc[t] \in {"summarise", "generated"} => held[t].bulletin.at > 0
  BY <1>1 DEF BulletinsTimely
<1>7. clock <= clock /\ 0 <= clock /\ version \in 0 .. version
  BY <1>5
<1>8. clock \in 0 .. MaxClock /\ cache \in 0 .. version /\ stored \subseteq Nodes
      /\ forgotten \subseteq Nodes
  BY <1>1 DEF StoresOK
<1> QED
  BY <1>1, <1>2, <1>3, <1>4, <1>5, <1>6, <1>7, <1>8 DEF Timely

\* A task goes on with what it holds, or lays it down.
LEMMA GoesOn ==
  ASSUME Stores, NEW t \in Tasks, NEW where \in {"idle", "embed node", "gather", "generated"},
         pc' = [pc EXCEPT ![t] = where],
         \/ UNCHANGED held /\ (where = "generated" => pc[t] = "summarise")
         \/ held' = [held EXCEPT ![t] = NothingHeld] /\ where = "idle",
         UNCHANGED <<domain, bulletins, forgotten, dropped>>,
         stored \subseteq stored', stored' \subseteq Nodes
  PROVE  Stores'
<1>1. /\ version' = version /\ cache' = cache /\ born' = born
      /\ bulletin' = bulletin /\ clock' = clock /\ saved' = saved
  BY DEF domain, bulletins
<1>2. where \in States
  BY DEF States
<1>3. PICK h \in {held[t], NothingHeld} :
        /\ held' = [held EXCEPT ![t] = h]
        /\ where = "generated" => h = held[t] /\ pc[t] = "summarise"
  <2>1. CASE UNCHANGED held /\ (where = "generated" => pc[t] = "summarise")
    <3>1. held = [held EXCEPT ![t] = held[t]]
      BY Before
    <3> QED
      BY <2>1, <3>1
  <2>2. CASE held' = [held EXCEPT ![t] = NothingHeld] /\ where = "idle"
    BY <2>2
  <2> QED
    BY <2>1, <2>2
<1>4. h \in Holdings /\ h.bulletin.at <= clock
      /\ \A n \in h.bulletin.seen \cap forgotten : dropped[n] >= h.bulletin.at
  <2>1. CASE h = held[t]
    BY <2>1, Before
  <2>2. CASE h = NothingHeld
    <3>1. clock \in Nat /\ version \in Nat /\ 0 <= clock
      BY Before
    <3> QED
      BY <2>2, <3>1, Nothing
  <2> QED
    BY <2>1, <2>2
<1>5. where \in {"summarise", "generated"} => h.bulletin.at > 0
  BY <1>3, Before
<1>6. clock' \in 0 .. MaxClock /\ clock <= clock' /\ cache' \in 0 .. version
  BY <1>1, Before
<1>7. Moved(t, h, where)
  BY <1>1, <1>2, <1>3, <1>4, <1>5, <1>6 DEF Moved
<1> QED
  BY <1>1, <1>7, TaskKeeps

LEMMA LoadDomainKeeps == ASSUME Stores, NEW t \in Tasks, LoadDomain(t) PROVE Stores'
<1> DEFINE h == [NothingHeld EXCEPT !.memory = cache', !.asked = forgotten]
<1>1. /\ held' = [held EXCEPT ![t] = h] /\ pc' = [pc EXCEPT ![t] = "embed query"]
      /\ cache' = IF cache # 0 THEN cache ELSE version
      /\ version' = version /\ born' = born /\ stored' = stored /\ forgotten' = forgotten
      /\ dropped' = dropped /\ bulletin' = bulletin /\ clock' = clock /\ saved' = saved
  BY DEF LoadDomain, Moves, graph, bulletins
<1>2. version \in Nat /\ version # 0 /\ cache \in 0 .. version /\ clock \in Nat
      /\ forgotten \subseteq Nodes /\ stored \subseteq Nodes /\ clock \in 0 .. MaxClock
      /\ version \in 0 .. version /\ clock <= clock /\ 0 <= clock
  BY Before
<1>3. cache' \in 0 .. version /\ cache' # 0 /\ (cache' = cache \/ (cache = 0 /\ cache' = version))
  BY <1>1, <1>2
<1>4. /\ h \in Holdings /\ h.memory = cache' /\ h.asked = forgotten
      /\ h.bulletin = NoBulletin
  BY <1>2, <1>3, Nothing DEF NothingHeld, Holdings
<1>5. 0 <= clock' /\ clock <= clock' /\ clock' \in 0 .. MaxClock
  BY <1>1, <1>2
<1> HIDE DEF h
<1>6. Moved(t, h, "embed query")
  BY <1>1, <1>2, <1>3, <1>4, <1>5, Nothing DEF Moved, States
<1> QED
  BY <1>1, <1>6, TaskKeeps

LEMMA PromptKeeps == ASSUME Stores, NEW t \in Tasks, Prompt(t) PROVE Stores'
<1> DEFINE h == [held[t] EXCEPT !.recalled = Live, !.bulletin = bulletin]
<1>1. /\ held' = [held EXCEPT ![t] = h] /\ pc' = [pc EXCEPT ![t] = "answer"]
      /\ pc[t] = "embed query"
      /\ cache' = cache /\ version' = version /\ born' = born /\ stored' = stored
      /\ forgotten' = forgotten /\ dropped' = dropped /\ bulletin' = bulletin
      /\ clock' = clock /\ saved' = saved
  <2>1. /\ held' = [held EXCEPT ![t].recalled = Live, ![t].bulletin = bulletin]
        /\ UNCHANGED <<domain, graph, bulletins>> /\ Moves(t, "embed query", "answer")
    BY DEF Prompt
  <2>2. held' = [held EXCEPT ![t] = h]
    <3>1. held \in [Tasks -> Holdings]
      BY Before
    <3> QED
      BY <2>1, <3>1 DEF Holdings
  <2> QED
    BY <2>1, <2>2 DEF Moves, domain, graph, bulletins
<1>2. /\ version \in Nat /\ version # 0 /\ cache \in 0 .. version /\ clock \in 0 .. MaxClock
      /\ held[t] \in Holdings /\ stored \subseteq Nodes /\ clock <= clock
  BY Before
<1>3. Timely(bulletin) /\ bulletin \in Bulletins /\ HoldsCache
  BY DEF Stores, StoresOK, BulletinsTimely
<1>4. /\ h \in Holdings /\ h.memory = held[t].memory /\ h.asked = held[t].asked
      /\ h.recalled = Live /\ h.bulletin = bulletin
  BY <1>2, <1>3 DEF Holdings, Live
<1>5. /\ cache # 0 /\ held[t].memory = cache /\ held[t].asked \subseteq forgotten
  BY <1>1, <1>3 DEF HoldsCache
<1>6. h.recalled \cap h.asked = {}
  BY <1>4, <1>5 DEF Live
<1> HIDE DEF h
<1>7. Moved(t, h, "answer")
  BY <1>1, <1>2, <1>3, <1>4, <1>5, <1>6 DEF Moved, States, Timely
<1> QED
  BY <1>1, <1>7, TaskKeeps

LEMMA GatherKeeps == ASSUME Stores, NEW t \in Tasks, Gather(t) PROVE Stores'
<1> DEFINE b == [at |-> clock + 1, seen |-> Live]
           h == [held[t] EXCEPT !.bulletin = b]
           where == IF Live = {} THEN "generated" ELSE "summarise"
<1>1. /\ clock < MaxClock /\ clock' = clock + 1
      /\ held' = [held EXCEPT ![t] = h] /\ pc' = [pc EXCEPT ![t] = where]
      /\ cache' = cache /\ version' = version /\ born' = born /\ stored' = stored
      /\ forgotten' = forgotten /\ dropped' = dropped /\ bulletin' = bulletin /\ saved' = saved
  <2>1. /\ held' = [held EXCEPT ![t].bulletin = [at |-> clock', seen |-> Live]]
        /\ clock < MaxClock /\ clock' = clock + 1
        /\ Moves(t, "gather", where)
        /\ UNCHANGED <<bulletin, saved, domain, graph>>
    BY DEF Gather
  <2>2. held' = [held EXCEPT ![t] = h]
    <3>1. held \in [Tasks -> Holdings]
      BY Before
    <3> QED
      BY <2>1, <3>1 DEF Holdings
  <2> QED
    BY <2>1, <2>2 DEF Moves, domain, graph
<1>2. /\ cache \in 0 .. version /\ clock \in Nat /\ held[t] \in Holdings /\ stored \subseteq Nodes
  BY Before
<1>3. /\ clock + 1 \in 0 .. MaxClock /\ clock <= clock + 1 /\ clock + 1 > 0
      /\ clock + 1 <= clock + 1
  BY <1>1, <1>2, MemoryAssumption
<1>4. /\ h \in Holdings /\ h.bulletin.at = clock + 1 /\ h.bulletin.seen = Live
  BY <1>2, <1>3 DEF Holdings, Bulletins, Live
<1>5. h.bulletin.seen \cap forgotten = {}
  BY <1>4 DEF Live
<1>6. where \in {"generated", "summarise"}
  OBVIOUS
<1> HIDE DEF h, where
<1>7. Moved(t, h, where)
  BY <1>1, <1>2, <1>3, <1>4, <1>5, <1>6 DEF Moved, States
<1> QED
  BY <1>1, <1>7, TaskKeeps

\* What is saved is kept when it is as new as the bulletin before it.
LEMMA SaveKeeps == ASSUME Stores, NEW t \in Tasks, Save(t) PROVE Stores'
<1> DEFINE b == held[t].bulletin
<1>1. /\ held' = [held EXCEPT ![t] = NothingHeld] /\ pc' = [pc EXCEPT ![t] = "idle"]
      /\ pc[t] = "generated"
      /\ bulletin' = IF b.at >= bulletin.at THEN b ELSE bulletin
      /\ saved' = saved \cup {b.at}
      /\ cache' = cache /\ version' = version /\ born' = born /\ stored' = stored
      /\ forgotten' = forgotten /\ dropped' = dropped /\ clock' = clock
  BY DEF Save, Moves, domain, graph
<1>2. /\ cache \in 0 .. version /\ clock \in Nat /\ clock \in 0 .. MaxClock /\ version \in Nat
      /\ stored \subseteq Nodes /\ clock <= clock /\ b \in Bulletins /\ b.at > 0 /\ StoresOK
  BY <1>1, Before
<1>3. Moved(t, NothingHeld, "idle")
  <2>1. 0 <= clock
    BY <1>2
  <2> QED
    BY <1>1, <1>2, <2>1, Nothing DEF Moved, States
<1>4. /\ HoldsCache'
      /\ \A u \in Tasks : /\ Timely(held[u].bulletin)'
                          /\ pc'[u] = "generated" => held'[u].bulletin.at > 0
                          /\ pc'[u] = "summarise" => held'[u].bulletin.at > 0
      /\ \A c \in Bulletins : Timely(c) => Timely(c)'
      /\ cache' \in 0 .. version' /\ forgotten' \subseteq stored'
      /\ pc' \in [Tasks -> States]
      /\ held' \in [Tasks -> Holdings']
  BY <1>3, TaskStep
<1>5. Timely(bulletin) /\ bulletin \in Bulletins /\ Timely(b) /\ BulletinIsNewest
  BY DEF Stores, StoresOK, BulletinsTimely
<1>6. b.at \in 1 .. MaxClock /\ bulletin.at \in 0 .. MaxClock /\ MaxClock \in Nat
      /\ b.at \in Nat /\ bulletin.at \in Nat
  BY <1>2, <1>5, MemoryAssumption DEF Bulletins
<1>7. bulletin' \in {b, bulletin} /\ bulletin' \in Bulletins
  BY <1>1, <1>2, <1>5
<1>8. StoresOK'
  <2>1. saved' \subseteq 1 .. MaxClock
    BY <1>1, <1>2, <1>6 DEF StoresOK
  <2> QED
    BY <1>1, <1>2, <1>4, <1>7, <2>1 DEF StoresOK, States, Holdings
<1>9. Timely(bulletin)'
  <2>1. PICK c \in Bulletins : c = bulletin' /\ Timely(c)
    BY <1>2, <1>5, <1>7
  <2>2. Timely(c)'
    BY <1>4, <2>1
  <2> QED
    BY <2>1, <2>2 DEF Timely
<1>10. BulletinIsNewest'
  <2>1. bulletin'.at \in saved' \cup {0}
    BY <1>1, <1>5 DEF BulletinIsNewest
  <2>2. b.at <= bulletin'.at /\ bulletin.at <= bulletin'.at
    BY <1>1, <1>6
  <2>3. ASSUME NEW at \in saved' PROVE at <= bulletin'.at
    <3>1. CASE at = b.at
      BY <2>2, <3>1
    <3>2. CASE at \in saved
      <4>1. at <= bulletin.at
        BY <1>5, <3>2 DEF BulletinIsNewest
      <4>2. at \in 1 .. MaxClock
        BY <1>2, <3>2 DEF StoresOK
      <4>3. at \in Nat
        BY <1>6, <4>2
      <4>4. bulletin'.at \in Nat
        BY <1>6, <1>7
      <4> QED
        BY <1>6, <2>2, <4>1, <4>3, <4>4
    <3> QED
      BY <1>1, <3>1, <3>2
  <2>4. \A n \in bulletin'.seen \cap forgotten' : dropped'[n] >= bulletin'.at
    BY <1>9 DEF Timely
  <2> QED
    BY <2>1, <2>3, <2>4 DEF BulletinIsNewest
<1> QED
  BY <1>4, <1>8, <1>9, <1>10 DEF Stores, BulletinsTimely

\* What is forgotten now was not before any bulletin's time.
LEMMA ForgetKeeps == ASSUME Stores, NEW n \in Nodes, Forget(n) PROVE Stores'
<1>1. /\ n \in Live /\ forgotten' = forgotten \cup {n} /\ dropped' = [dropped EXCEPT ![n] = clock]
      /\ stored' = stored /\ pc' = pc /\ held' = held
      /\ version' = version /\ cache' = cache /\ born' = born
      /\ bulletin' = bulletin /\ clock' = clock /\ saved' = saved
  BY DEF Forget, domain, bulletins
<1>2. StoresOK /\ HoldsCache /\ BulletinsTimely /\ BulletinIsNewest
  BY DEF Stores
<1>3. clock \in 0 .. MaxClock /\ dropped \in [Nodes -> 0 .. MaxClock]
  BY <1>2 DEF StoresOK
<1>4. StoresOK'
  BY <1>1, <1>2, <1>3 DEF StoresOK, Live
<1>5. HoldsCache'
  BY <1>1, <1>2 DEF HoldsCache
<1>6. ASSUME NEW b, Timely(b)
      PROVE  /\ b.at <= clock'
             /\ \A m \in b.seen \cap forgotten' : dropped'[m] >= b.at
  <2>1. b.at <= clock'
    BY <1>1, <1>6 DEF Timely
  <2>2. ASSUME NEW m \in b.seen \cap forgotten' PROVE dropped'[m] >= b.at
    <3>1. CASE m = n
      <4>1. dropped'[m] = clock
        BY <1>1, <1>3, <3>1
      <4>2. clock >= b.at
        BY <1>6 DEF Timely
      <4> QED
        BY <4>1, <4>2
    <3>2. CASE m # n
      <4>1. m \in b.seen \cap forgotten
        BY <1>1, <2>2, <3>2
      <4>2. m \in Nodes
        BY <1>2, <4>1 DEF StoresOK
      <4>3. dropped'[m] = dropped[m]
        BY <1>1, <1>3, <3>2, <4>2
      <4> QED
        BY <1>6, <4>1, <4>3 DEF Timely
    <3> QED
      BY <3>1, <3>2
  <2> QED
    BY <2>1, <2>2
<1>7. BulletinsTimely'
  <2>1. Timely(bulletin) /\ \A t \in Tasks : Timely(held[t].bulletin)
    BY <1>2 DEF BulletinsTimely
  <2>2. Timely(bulletin)'
    BY <1>1, <1>6, <2>1 DEF Timely
  <2>3. ASSUME NEW t \in Tasks PROVE Timely(held[t].bulletin)'
    <3>1. Timely(held[t].bulletin)
      BY <2>1
    <3> QED
      BY <1>1, <1>6, <3>1 DEF Timely
  <2> QED
    BY <1>1, <1>2, <2>2, <2>3 DEF BulletinsTimely
<1>8. BulletinIsNewest'
  <2>1. \A m \in bulletin'.seen \cap forgotten' : dropped'[m] >= bulletin'.at
    BY <1>7 DEF BulletinsTimely, Timely
  <2> QED
    BY <1>1, <1>2, <2>1 DEF BulletinIsNewest
<1> QED
  BY <1>4, <1>5, <1>7, <1>8 DEF Stores

LEMMA UpdateDomainKeeps == ASSUME Stores, UpdateDomain PROVE Stores'
<1>1. /\ version < MaxVersion /\ version' = version + 1
      /\ forgotten' = forgotten /\ dropped' = dropped /\ stored' = stored
      /\ pc' = pc /\ held' = held /\ cache' = cache /\ born' = born
      /\ bulletin' = bulletin /\ clock' = clock /\ saved' = saved
  BY DEF UpdateDomain, graph, bulletins
<1>2. StoresOK /\ HoldsCache /\ BulletinsTimely /\ BulletinIsNewest
  BY DEF Stores
<1>3. /\ version' \in 1 .. MaxVersion
      /\ \A i \in 0 .. version : i \in 0 .. version'
      /\ \A i \in 1 .. version : i \in 1 .. version'
  <2>1. version \in 1 .. MaxVersion /\ MaxVersion \in Nat
    BY <1>2, MemoryAssumption DEF StoresOK
  <2> QED
    BY <1>1, <2>1
<1>4. held' \in [Tasks -> Holdings']
  <2>1. held \in [Tasks -> Holdings]
    BY <1>2 DEF StoresOK, Holdings
  <2>2. \A h \in Holdings : h \in Holdings'
    BY <1>3 DEF Holdings
  <2> QED
    BY <1>1, <2>1, <2>2
<1>5. StoresOK'
  BY <1>1, <1>2, <1>3, <1>4 DEF StoresOK, Holdings
<1>6. HoldsCache'
  BY <1>1, <1>2 DEF HoldsCache
<1>7. BulletinsTimely' /\ BulletinIsNewest'
  BY <1>1, <1>2 DEF BulletinsTimely, BulletinIsNewest, Timely
<1> QED
  BY <1>5, <1>6, <1>7 DEF Stores

\* A worker that has just started holds nothing and knows nothing.
LEMMA Fresh ==
  ASSUME version \in 1 .. MaxVersion, clock \in 0 .. MaxClock,
         cache = 0, born = version, stored = {}, forgotten = {},
         dropped = [n \in Nodes |-> 0], bulletin = NoBulletin, saved = {},
         pc = [t \in Tasks |-> "idle"], held = [t \in Tasks |-> NothingHeld]
  PROVE  Stores
<1>1. MaxVersion \in Nat /\ MaxClock \in Nat
  BY MemoryAssumption
<1>2. version \in Nat /\ version \in 1 .. version /\ 0 \in 0 .. version /\ clock \in Nat
  BY <1>1
<1>3. 0 <= clock /\ 0 \in 0 .. MaxClock
  BY <1>1, <1>2
<1>4. StoresOK
  BY <1>2, <1>3, Nothing DEF StoresOK, Holdings
<1>5. HoldsCache
  BY DEF HoldsCache
<1>6. Timely(NoBulletin)
  BY <1>3, Nothing DEF Timely
<1>7. BulletinsTimely
  BY <1>6, Nothing DEF BulletinsTimely
<1>8. BulletinIsNewest
  BY Nothing DEF BulletinIsNewest
<1> QED
  BY <1>4, <1>5, <1>7, <1>8 DEF Stores

LEMMA RestartKeeps == ASSUME Stores, Restart PROVE Stores'
<1>1. /\ cache' = 0 /\ born' = version' /\ stored' = {} /\ forgotten' = {}
      /\ dropped' = [n \in Nodes |-> 0] /\ bulletin' = NoBulletin /\ saved' = {}
      /\ pc' = [t \in Tasks |-> "idle"] /\ held' = [t \in Tasks |-> NothingHeld]
      /\ version' = version /\ clock' = clock
  BY DEF Restart
<1>2. version' \in 1 .. MaxVersion /\ clock' \in 0 .. MaxClock
  BY <1>1 DEF Stores, StoresOK
<1>3. MaxVersion \in Nat /\ MaxClock \in Nat
  BY MemoryAssumption
<1>4. /\ version' \in Nat /\ version' \in 1 .. version' /\ 0 \in 0 .. version' /\ clock' \in Nat
  BY <1>2, <1>3
<1>5. 0 <= clock' /\ 0 \in 0 .. MaxClock
  BY <1>3, <1>4
<1>6. StoresOK'
  <2>1. NothingHeld \in Holdings'
    BY <1>4, Nothing DEF NothingHeld, Holdings
  <2> QED
    BY <1>1, <1>2, <1>4, <1>5, <2>1, Nothing DEF StoresOK, Holdings
<1>7. HoldsCache'
  BY <1>1 DEF HoldsCache
<1>8. Timely(NoBulletin)'
  BY <1>5, Nothing DEF Timely, NoBulletin
<1>9. BulletinsTimely'
  BY <1>1, <1>8, Nothing DEF BulletinsTimely, Timely
<1>10. BulletinIsNewest'
  BY <1>1, Nothing DEF BulletinIsNewest
<1> QED
  BY <1>6, <1>7, <1>9, <1>10 DEF Stores

LEMMA MemoryStutters == ASSUME Stores, UNCHANGED memory PROVE Stores'
<1>1. /\ version' = version /\ forgotten' = forgotten /\ dropped' = dropped /\ stored' = stored
      /\ pc' = pc /\ held' = held /\ cache' = cache /\ born' = born
      /\ bulletin' = bulletin /\ clock' = clock /\ saved' = saved
  BY DEF memory
<1>2. StoresOK' /\ HoldsCache'
  BY <1>1 DEF Stores, StoresOK, HoldsCache
<1>3. BulletinsTimely' /\ BulletinIsNewest'
  BY <1>1 DEF Stores, BulletinsTimely, BulletinIsNewest, Timely
<1> QED
  BY <1>2, <1>3 DEF Stores

\* Every step of the worker keeps what is said of its memory.
LEMMA MemoryStep == ASSUME Stores, Remember PROVE Stores'
<1>1. ASSUME NEW t \in Tasks, Ends(t) PROVE Stores'
  <2>1. pc' = [pc EXCEPT ![t] = "idle"] /\ held' = [held EXCEPT ![t] = NothingHeld]
        /\ UNCHANGED <<domain, graph, bulletins>>
    BY <1>1 DEF Ends, Moves
  <2> QED
    BY <2>1, GoesOn, Before DEF graph
<1>2. ASSUME NEW t \in Tasks, Embed(t) PROVE Stores'
  <2>1. pc' = [pc EXCEPT ![t] = "embed node"] /\ UNCHANGED <<held, domain, graph, bulletins>>
    BY <1>2 DEF Embed, Moves
  <2> QED
    BY <2>1, GoesOn, Before DEF graph
<1>3. ASSUME NEW t \in Tasks, Store(t) PROVE Stores'
  <2>1. /\ pc' = [pc EXCEPT ![t] = "idle"] /\ UNCHANGED <<held, forgotten, dropped, domain, bulletins>>
        /\ \E n \in Nodes \ stored : stored' = stored \cup {n}
    BY <1>3 DEF Store, Moves
  <2>2. stored \subseteq stored' /\ stored' \subseteq Nodes
    BY <2>1, Before
  <2> QED
    BY <2>1, <2>2, GoesOn
<1>4. ASSUME NEW t \in Tasks, Generate(t) PROVE Stores'
  <2>1. pc' = [pc EXCEPT ![t] = "gather"] /\ UNCHANGED <<held, domain, graph, bulletins>>
    BY <1>4 DEF Generate, Moves
  <2> QED
    BY <2>1, GoesOn, Before DEF graph
<1>5. ASSUME NEW t \in Tasks, Summarised(t) PROVE Stores'
  <2>1. /\ pc' = [pc EXCEPT ![t] = "generated"] /\ pc[t] = "summarise"
        /\ UNCHANGED <<held, domain, graph, bulletins>>
    BY <1>5 DEF Summarised, Moves
  <2> QED
    BY <2>1, GoesOn, Before DEF graph
<1>6. ASSUME NEW t \in Tasks, Discard(t) PROVE Stores'
  <2>1. pc' = [pc EXCEPT ![t] = "idle"] /\ held' = [held EXCEPT ![t] = NothingHeld]
        /\ UNCHANGED <<domain, graph, bulletins>>
    BY <1>6 DEF Discard, Moves
  <2> QED
    BY <2>1, GoesOn, Before DEF graph
<1> QED
  BY <1>1, <1>2, <1>3, <1>4, <1>5, <1>6, LoadDomainKeeps, PromptKeeps, GatherKeeps, SaveKeeps,
     ForgetKeeps, UpdateDomainKeeps, RestartKeeps DEF Remember

LEMMA InitIInv == Init => IInv
<1> SUFFICES ASSUME Init PROVE IInv
  OBVIOUS
<1>1. MaxVersion \in Nat \ {0} /\ MaxClock \in Nat
  BY MemoryAssumption
<1>2. 1 \in 1 .. MaxVersion /\ 0 \in 0 .. MaxClock
  BY <1>1
<1>3. Stores
  BY <1>2, Fresh DEF Init
<1>4. BuilderIInv
  BY BuilderStart DEF Init
<1> QED
  BY <1>3, <1>4, Parts

\* Every step keeps the invariant of the memory and that of the builder.
LEMMA StepIInv == IInv /\ [Next]_vars => IInv'
<1> SUFFICES ASSUME IInv, [Next]_vars PROVE IInv'
  OBVIOUS
<1>1. Stores /\ BuilderIInv
  BY Parts
<1>2. ASSUME Remember, UNCHANGED builder PROVE Stores' /\ BuilderIInv'
  BY <1>1, <1>2, MemoryStep, BuilderStutters
<1>3. ASSUME BuilderNext, UNCHANGED memory PROVE Stores' /\ BuilderIInv'
  BY <1>1, <1>3, MemoryStutters, BuilderStep
<1>4. ASSUME UNCHANGED vars PROVE Stores' /\ BuilderIInv'
  <2>1. UNCHANGED memory /\ UNCHANGED builder
    BY <1>4 DEF vars
  <2> QED
    BY <1>1, <2>1, MemoryStutters, BuilderStutters
<1>5. Stores' /\ BuilderIInv'
  BY <1>2, <1>3, <1>4 DEF Next
<1> QED
  BY <1>5 DEF IInv, Stores, StoresOK, TypeOK, BuilderIInv

\* Until it is answered a task that prompts holds what the process has
\* cached, no bulletin tells of what was forgotten before it was generated,
\* and the layers of a builder are the first ones of the order.
THEOREM Invariance == Spec => []IInv
BY InitIInv, StepIInv, PTL DEF Spec

\* The worker's stores, its tasks and the builder have the values meant for
\* them: a task holds no version that is not there yet, what is forgotten
\* was stored.
THEOREM TypeCorrect == Spec => []TypeOK
<1>1. IInv => TypeOK
  BY DEF IInv
<1> QED
  BY <1>1, Invariance, PTL

\* The agents that work at the same time in one process work from the same
\* domain memory, one the file has had since the process started, and are
\* shown no node that was forgotten before they asked: however many there
\* are, and whenever the file is changed, a node is forgotten or the worker
\* is restarted.
THEOREM PromptsAlwaysCurrent == Spec => []PromptsAreCurrent
<1>1. IInv => PromptsAreCurrent
  <2> SUFFICES ASSUME IInv, NEW t \in Prompted
               PROVE  /\ held[t].memory \in born .. version
                      /\ \A u \in Prompted : held[u].memory = held[t].memory
                      /\ held[t].recalled \cap held[t].asked = {}
    BY DEF PromptsAreCurrent
  <2>1. HoldsCache /\ StoresOK
    BY Parts DEF Stores
  <2>2. \A u \in Prompted : /\ u \in Tasks /\ cache # 0 /\ held[u].memory = cache
                            /\ held[u].recalled \cap held[u].asked = {}
    BY <2>1 DEF HoldsCache, Prompted
  <2>3. cache \in Nat /\ born \in Nat /\ version \in Nat /\ cache \in 0 .. version
    BY <2>1, Numbers DEF StoresOK
  <2>4. cache # 0 => cache >= born
    BY <2>1 DEF HoldsCache
  <2>5. cache # 0 => cache \in born .. version
    BY <2>3, <2>4
  <2> QED
    BY <2>2, <2>5
<1> QED
  BY <1>1, Invariance, PTL

\* The bulletin shown is the newest of those saved, in whatever order the
\* generations that overlap come to an end, and it tells of nothing that was
\* forgotten before its time.
THEOREM BulletinAlwaysNewest == Spec => []BulletinIsNewest
<1>1. IInv => BulletinIsNewest
  BY DEF IInv
<1> QED
  BY <1>1, Invariance, PTL

\* Thariq's Law: whatever a client calls, and whatever it is refused, what it
\* builds from a builder starts with all it built from it before; and the
\* calls of the agents, in their order, are never refused.
THEOREM PromptsAlwaysGrow == Spec => []PromptsOnlyGrow
<1>1. IInv => PromptsOnlyGrow
  BY DEF IInv, BuilderIInv
<1> QED
  BY <1>1, Invariance, PTL
=============================================================================
