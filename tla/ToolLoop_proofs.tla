--------------------------- MODULE ToolLoop_proofs ---------------------------
(***************************************************************************)
(* Proofs about ToolLoop, for every limit on the turns, every even number  *)
(* of messages a compaction keeps and every threshold: no compaction parts *)
(* a call from its result, the guidance is given for exactly the calls it  *)
(* is due for, and the report of the loop is true.                         *)
(***************************************************************************)
EXTENDS ToolLoop, FiniteSetTheorems, SequenceTheorems, TLAPS

(***************************************************************************)
(* The conversation.                                                       *)
(***************************************************************************)

\* In a conversation of texts and then pairs every result follows its call.
LEMMA PairedSurvives == TypeOK /\ Paired => PairsSurvive
<1> SUFFICES ASSUME TypeOK, Paired PROVE PairsSurvive
  OBVIOUS
<1>1. PICK p \in 1 .. Len(messages) : PairsAfter(p)
  BY DEF Paired
<1>2. Len(messages) \in Nat
  BY DEF TypeOK
<1> SUFFICES ASSUME NEW i \in 1 .. Len(messages)
             PROVE  /\ messages[i].answers # {} =>
                         i > 1 /\ messages[i - 1].uses = messages[i].answers
                    /\ messages[i].uses # {} /\ (i < Len(messages) \/ pc \in {"turn", "send"}) =>
                         i < Len(messages) /\ messages[i + 1].answers = messages[i].uses
  BY DEF PairsSurvive
<1>3. CASE i \in 1 .. p
  BY <1>1, <1>3 DEF PairsAfter, IsText
<1>4. CASE i \in p + 1 .. Len(messages)
  <2>1. i > 1 /\ i \in Nat /\ i - p \in Nat /\ ((i - p) % 2 = 0 \/ (i - p) % 2 = 1)
    BY <1>2, <1>4
  <2>2. CASE (i - p) % 2 = 0
    <3>1. messages[i].uses = {} /\ messages[i].answers = messages[i - 1].uses
      <4>1. (i - p) % 2 # 1
        BY <2>2
      <4> QED
        BY <1>1, <1>4, <4>1, Zenon DEF PairsAfter
    <3> QED
      BY <2>1, <3>1
  <2>3. CASE (i - p) % 2 = 1
    <3>1. messages[i].uses # {} /\ messages[i].answers = {}
      BY <1>1, <1>4, <2>3 DEF PairsAfter
    <3>2. CASE i < Len(messages)
      <4>1. i + 1 \in p + 1 .. Len(messages) /\ (i + 1 - p) % 2 = 0 /\ i + 1 - 1 = i
        BY <1>2, <1>4, <2>1, <2>3, <3>2
      <4>2. messages[i + 1].answers = messages[i].uses
        BY <1>1, <4>1 DEF PairsAfter
      <4> QED
        BY <3>1, <3>2, <4>2
    <3>3. CASE i = Len(messages)
      <4>1. pc = "tools"
        BY <1>1, <2>3, <3>3 DEF PairsAfter
      <4> QED
        BY <3>1, <3>3, <4>1
    <3> QED
      BY <1>2, <1>4, <3>2, <3>3
  <2> QED
    BY <2>1, <2>2, <2>3
<1> QED
  BY <1>1, <1>2, <1>3, <1>4

\* What a compaction keeps: all but the first d messages.
LEMMA RecentIs ==
  ASSUME NEW ms \in Seq(Messages)
  PROVE  \E d \in 0 .. Len(ms) :
           /\ d = 0 \/ d = Len(ms) - Keep
           /\ Recent(ms) \in Seq(Messages)
           /\ Len(Recent(ms)) = Len(ms) - d
           /\ \A i \in 1 .. Len(ms) - d : Recent(ms)[i] = ms[d + i]
<1>1. Len(ms) \in Nat /\ Keep \in Nat \ {0}
  BY LoopAssumption
<1>2. CASE Len(ms) > Keep
  <2> DEFINE d == Len(ms) - Keep
  <2>1. /\ d \in 0 .. Len(ms) /\ d + 1 \in Int /\ Len(ms) \in Int
        /\ d + 1 <= Len(ms) /\ Len(ms) - (d + 1) + 1 = Len(ms) - d
        /\ \A i \in d + 1 .. Len(ms) : ms[i] \in Messages
    BY <1>1, <1>2
  <2>2. Recent(ms) = SubSeq(ms, d + 1, Len(ms))
    BY <1>2 DEF Recent
  <2>3. d = Len(ms) - Keep
    OBVIOUS
  <2> HIDE DEF d
  <2>4. /\ Recent(ms) \in Seq(Messages)
        /\ Len(Recent(ms)) = Len(ms) - d
        /\ \A i \in 1 .. Len(ms) - d : Recent(ms)[i] = ms[d + 1 + i - 1]
    BY <2>1, <2>2, SubSeqProperties
  <2>5. \A i \in 1 .. Len(ms) - d : d + 1 + i - 1 = d + i
    BY <2>1
  <2>6. \A i \in 1 .. Len(ms) - d : Recent(ms)[i] = ms[d + i]
    BY <2>4, <2>5
  <2> QED
    BY <2>1, <2>3, <2>4, <2>6
<1>3. CASE ~(Len(ms) > Keep)
  <2>1. Recent(ms) = ms /\ 0 \in 0 .. Len(ms) /\ Len(ms) = Len(ms) - 0
    BY <1>1, <1>3 DEF Recent
  <2>2. \A i \in 1 .. Len(ms) - 0 : Recent(ms)[i] = ms[0 + i]
    BY <2>1
  <2> QED
    BY <2>1, <2>2
<1> QED
  BY <1>2, <1>3

\* A sequence of one.
LEMMA Single ==
  ASSUME NEW S, NEW x \in S
  PROVE  <<x>> \in Seq(S) /\ Len(<<x>>) = 1 /\ <<x>>[1] = x
OBVIOUS

\* A compaction comes when every call has its result, and cuts an even
\* number of messages from the end: it parts no pair.
LEMMA CompactKeepsPairs ==
  ASSUME TypeOK, Paired, Compact
  PROVE  Paired' /\ messages' \in Seq(Messages)
<1>1. PICK p \in 1 .. Len(messages) : PairsAfter(p)
  BY DEF Paired
<1>2. messages \in Seq(Messages) /\ Len(messages) \in Nat /\ p \in Nat /\ p <= Len(messages) /\ p >= 1
  BY DEF TypeOK
<1>3. PICK d \in 0 .. Len(messages) :
        /\ d = 0 \/ d = Len(messages) - Keep
        /\ Recent(messages) \in Seq(Messages)
        /\ Len(Recent(messages)) = Len(messages) - d
        /\ \A i \in 1 .. Len(messages) - d : Recent(messages)[i] = messages[d + i]
  BY <1>2, RecentIs
<1>4. /\ messages' = <<Text("assistant", FALSE)>> \o Recent(messages)
      /\ pc = "turn" /\ pc' = "send"
  BY DEF Compact, NextTurn
<1>5. Text("assistant", FALSE) \in Messages /\ IsText(Text("assistant", FALSE))
  BY DEF Text, Messages, IsText
<1> DEFINE n == Len(messages) - d + 1
<1>6. /\ messages' \in Seq(Messages)
      /\ Len(messages') = n
      /\ messages'[1] = Text("assistant", FALSE)
      /\ \A i \in 2 .. n : messages'[i] = messages[d + i - 1]
  <2> DEFINE one == <<Text("assistant", FALSE)>>
  <2>1. one \in Seq(Messages) /\ Len(one) = 1 /\ one[1] = Text("assistant", FALSE)
    BY <1>5, Single
  <2>2. Recent(messages) \in Seq(Messages) /\ Len(Recent(messages)) = Len(messages) - d
    BY <1>3
  <2>3. messages' = one \o Recent(messages)
    BY <1>4
  <2> HIDE DEF one
  <2>4. /\ messages' \in Seq(Messages)
        /\ Len(messages') = Len(one) + Len(Recent(messages))
        /\ \A i \in 1 .. Len(one) + Len(Recent(messages)) :
             messages'[i] = IF i <= Len(one) THEN one[i] ELSE Recent(messages)[i - Len(one)]
    BY <2>1, <2>2, <2>3, ConcatProperties
  <2>5. /\ Len(messages') = n /\ n >= 1
        /\ \A i \in 1 .. n :
             messages'[i] = IF i <= 1 THEN one[i] ELSE Recent(messages)[i - 1]
    BY <1>2, <1>3, <2>1, <2>2, <2>4
  <2>6. \A i \in 2 .. n : messages'[i] = messages[d + i - 1]
    <3> TAKE i \in 2 .. n
    <3>1. i \in 1 .. n /\ ~(i <= 1) /\ i - 1 \in 1 .. Len(messages) - d /\ d + (i - 1) = d + i - 1
      BY <1>2
    <3>2. messages'[i] = Recent(messages)[i - 1]
      BY <2>5, <3>1
    <3>3. Recent(messages)[i - 1] = messages[d + (i - 1)]
      BY <1>3, <3>1
    <3> QED
      BY <3>1, <3>2, <3>3
  <2>7. messages'[1] = Text("assistant", FALSE)
    <3>1. 1 \in 1 .. n /\ 1 <= 1
      BY <1>2
    <3>2. messages'[1] = one[1]
      BY <2>5, <3>1
    <3> QED
      BY <2>1, <3>2
  <2> QED
    BY <2>4, <2>5, <2>6, <2>7
<1>7. (Len(messages) - p) % 2 = 0
  BY <1>1, <1>4 DEF PairsAfter
<1>8. n \in Nat /\ n >= 1
  BY <1>2
<1>9. n = Len(messages) - d + 1
  OBVIOUS
<1> HIDE DEF n
<1>10. CASE d <= p
  <2> DEFINE q == p - d + 1
  <2>1. q \in 1 .. n /\ n - q = Len(messages) - p
    BY <1>2, <1>9, <1>10
  <2>2. ASSUME NEW i \in 1 .. q PROVE IsText(messages'[i])
    <3>1. CASE i = 1
      BY <1>5, <1>6, <3>1
    <3>2. CASE i # 1
      <4>1. i \in 2 .. n /\ d + i - 1 \in 1 .. p
        BY <1>2, <1>9, <1>10, <3>2
      <4> QED
        BY <1>1, <1>6, <4>1 DEF PairsAfter
    <3> QED
      BY <3>1, <3>2
  <2>3. ASSUME NEW i \in q + 1 .. n
        PROVE  IF (i - q) % 2 = 1
               THEN messages'[i].uses # {} /\ messages'[i].answers = {}
               ELSE messages'[i].uses = {} /\ messages'[i].answers = messages'[i - 1].uses
    <3> DEFINE j == d + i - 1
    <3>1. j \in p + 1 .. Len(messages) /\ j - p = i - q /\ i \in 2 .. n
      BY <1>2, <1>9, <1>10
    <3>2. messages'[i] = messages[j]
      BY <1>6, <3>1
    <3>3. IF (j - p) % 2 = 1
          THEN messages[j].uses # {} /\ messages[j].answers = {}
          ELSE messages[j].uses = {} /\ messages[j].answers = messages[j - 1].uses
      BY <1>1, <3>1 DEF PairsAfter
    <3>4. ASSUME (j - p) % 2 # 1 PROVE messages'[i - 1] = messages[j - 1]
      <4>1. j - p >= 2 /\ i - 1 \in 2 .. n /\ d + (i - 1) - 1 = j - 1
        BY <1>2, <1>9, <1>10, <3>1, <3>4
      <4> QED
        BY <1>6, <4>1
    <3> HIDE DEF j
    <3> QED
      BY <3>1, <3>2, <3>3, <3>4
  <2>4. (n - q) % 2 = 0
    BY <1>7, <2>1
  <2> HIDE DEF q
  <2>5. PairsAfter(q)'
    BY <1>4, <1>6, <2>1, <2>2, <2>3, <2>4 DEF PairsAfter
  <2>6. q \in 1 .. Len(messages')
    BY <1>6, <2>1
  <2> QED
    BY <1>6, <2>5, <2>6 DEF Paired
<1>11. CASE d > p
  <2>1. /\ d = Len(messages) - Keep /\ Keep \in Nat /\ Keep % 2 = 0
        /\ d - p \in Nat /\ (d - p) % 2 = 0
    <3>1. d = Len(messages) - Keep /\ Keep \in Nat /\ Keep % 2 = 0
      BY <1>2, <1>3, <1>11, LoopAssumption
    <3>2. d - p = (Len(messages) - p) - Keep /\ d - p \in Nat /\ Len(messages) - p \in Nat
      BY <1>2, <1>11, <3>1
    <3> QED
      BY <1>7, <3>1, <3>2
  <2>2. (n - 1) % 2 = 0
    BY <1>9, <2>1, <1>2
  <2>3. \A i \in 1 .. 1 : IsText(messages'[i])
    <3>1. \A i \in 1 .. 1 : i = 1
      OBVIOUS
    <3> QED
      BY <1>5, <1>6, <3>1
  <2>4. ASSUME NEW i \in 1 + 1 .. n
        PROVE  IF (i - 1) % 2 = 1
               THEN messages'[i].uses # {} /\ messages'[i].answers = {}
               ELSE messages'[i].uses = {} /\ messages'[i].answers = messages'[i - 1].uses
    <3> DEFINE j == d + i - 1
    <3>1. /\ j \in p + 1 .. Len(messages) /\ i \in 2 .. n
          /\ j - p = (d - p) + (i - 1) /\ i - 1 \in Nat
      BY <1>2, <1>9, <1>11
    <3>a. (j - p) % 2 = (i - 1) % 2
      BY <2>1, <3>1
    <3>2. messages'[i] = messages[j]
      BY <1>6, <3>1
    <3>3. IF (j - p) % 2 = 1
          THEN messages[j].uses # {} /\ messages[j].answers = {}
          ELSE messages[j].uses = {} /\ messages[j].answers = messages[j - 1].uses
      BY <1>1, <3>1 DEF PairsAfter
    <3>4. ASSUME (i - 1) % 2 # 1 PROVE messages'[i - 1] = messages[j - 1]
      <4>1. i - 1 \in 2 .. n /\ d + (i - 1) - 1 = j - 1
        BY <1>2, <1>9, <3>1, <3>4
      <4> QED
        BY <1>6, <4>1
    <3> HIDE DEF j
    <3> QED
      BY <3>a, <3>2, <3>3, <3>4
  <2>5. 1 \in 1 .. Len(messages')
    BY <1>6, <1>8
  <2>6. PairsAfter(1)'
    BY <1>4, <1>6, <2>2, <2>3, <2>4, <2>5 DEF PairsAfter
  <2> QED
    BY <1>6, <2>5, <2>6 DEF Paired
<1> QED
  BY <1>2, <1>3, <1>10, <1>11

\* One message more: the calls of a turn, or their results.
LEMMA AppendKeepsPairs ==
  ASSUME TypeOK, Paired, NEW m \in Messages, messages' = Append(messages, m),
         \/ pc = "send" /\ pc' = "tools" /\ m.uses # {} /\ m.answers = {}
         \/ pc = "tools" /\ pc' = "turn" /\ m.uses = {} /\ m.answers = messages[Len(messages)].uses
  PROVE  Paired' /\ messages' \in Seq(Messages)
<1>1. PICK p \in 1 .. Len(messages) : PairsAfter(p)
  BY DEF Paired
<1>2. messages \in Seq(Messages) /\ Len(messages) \in Nat
  BY DEF TypeOK
<1> DEFINE n == Len(messages)
<1>3. /\ messages' \in Seq(Messages)
      /\ Len(messages') = n + 1
      /\ \A i \in 1 .. n : messages'[i] = messages[i]
      /\ messages'[n + 1] = m
  BY <1>2, AppendProperties
<1>4. n \in Nat /\ p \in 1 .. n /\ p \in 1 .. n + 1
  BY <1>2
<1>5. /\ \A i \in 1 .. p : IsText(messages[i])
      /\ \A i \in p + 1 .. n :
           IF (i - p) % 2 = 1
           THEN messages[i].uses # {} /\ messages[i].answers = {}
           ELSE messages[i].uses = {} /\ messages[i].answers = messages[i - 1].uses
      /\ (n - p) % 2 = IF pc = "tools" THEN 1 ELSE 0
  BY <1>1 DEF PairsAfter
<1>6. /\ \/ pc = "send" /\ pc' = "tools" /\ m.uses # {} /\ m.answers = {}
         \/ pc = "tools" /\ pc' = "turn" /\ m.uses = {} /\ m.answers = messages[n].uses
  OBVIOUS
<1> HIDE DEF n
<1>7. (n + 1 - p) % 2 = IF pc' = "tools" THEN 1 ELSE 0
  <2>1. PICK d \in Nat : d = n - p /\ n + 1 - p = d + 1
    BY <1>4
  <2>2. d % 2 = IF pc = "tools" THEN 1 ELSE 0
    BY <1>5, <2>1
  <2>3. pc' = "tools" <=> pc # "tools"
    BY <1>6
  <2>4. d % 2 = 0 => (d + 1) % 2 = 1
    OBVIOUS
  <2>5. d % 2 = 1 => (d + 1) % 2 = 0
    OBVIOUS
  <2> QED
    BY <2>1, <2>2, <2>3, <2>4, <2>5
<1>8. \A i \in 1 .. p : IsText(messages'[i])
  BY <1>3, <1>4, <1>5
<1>9. ASSUME NEW i \in p + 1 .. n + 1
      PROVE  IF (i - p) % 2 = 1
             THEN messages'[i].uses # {} /\ messages'[i].answers = {}
             ELSE messages'[i].uses = {} /\ messages'[i].answers = messages'[i - 1].uses
  <2>0. i - 1 \in 1 .. n
    BY <1>4
  <2>1. CASE i = n + 1
    <3>1. messages'[i] = m /\ messages'[i - 1] = messages[n] /\ i - p = n + 1 - p
      BY <1>3, <1>4, <2>0, <2>1
    <3> QED
      BY <1>6, <1>7, <3>1
  <2>2. CASE i \in p + 1 .. n
    <3>1. i \in 1 .. n /\ messages'[i] = messages[i] /\ messages'[i - 1] = messages[i - 1]
      BY <1>3, <1>4, <2>0, <2>2
    <3> QED
      BY <1>5, <2>2, <3>1
  <2>3. i = n + 1 \/ i \in p + 1 .. n
    BY <1>4
  <2> QED
    BY <2>1, <2>2, <2>3
<1>10. PairsAfter(p)'
  <2>1. /\ p \in 1 .. Len(messages')
        /\ \A i \in p + 1 .. Len(messages') :
             IF (i - p) % 2 = 1
             THEN messages'[i].uses # {} /\ messages'[i].answers = {}
             ELSE messages'[i].uses = {} /\ messages'[i].answers = messages'[i - 1].uses
        /\ (Len(messages') - p) % 2 = IF pc' = "tools" THEN 1 ELSE 0
    BY <1>3, <1>4, <1>7, <1>9
  <2> QED
    BY <1>8, <2>1 DEF PairsAfter
<1> QED
  BY <1>3, <1>4, <1>10 DEF Paired

\* A step that leaves the conversation alone, and does not enter or leave the
\* execution of tools, leaves its pairs alone.
LEMMA SameConversation ==
  ASSUME Paired, UNCHANGED messages, pc' = "tools" <=> pc = "tools"
  PROVE  Paired'
BY DEF Paired, PairsAfter, IsText

\* Every step keeps the pairs.
LEMMA StepPairs ==
  ASSUME TypeOK, Paired, [Next]_vars
  PROVE  Paired' /\ messages' \in Seq(Messages)
<1>0. messages \in Seq(Messages) /\ Len(calls) \in Nat /\ Len(messages) \in Nat
  BY DEF TypeOK
<1>1. CASE Compact
  BY <1>1, CompactKeepsPairs
<1>2. CASE CallTools
  <2>1. PICK n \in 1 .. MaxCalls : messages' = Append(messages, ToolUse(Len(calls) + 1 .. Len(calls) + n))
    BY <1>2 DEF CallTools
  <2> DEFINE m == ToolUse(Len(calls) + 1 .. Len(calls) + n)
  <2>2. Len(calls) + 1 \in Len(calls) + 1 .. Len(calls) + n
    BY <1>0
  <2>3. Len(calls) + 1 .. Len(calls) + n \subseteq Nat
    BY <1>0
  <2>4. m \in Messages /\ m.uses # {} /\ m.answers = {}
    BY <2>2, <2>3 DEF ToolUse, Messages
  <2>5. pc = "send" /\ pc' = "tools" /\ messages' = Append(messages, m)
    BY <1>2, <2>1 DEF CallTools
  <2> HIDE DEF m
  <2> QED
    BY <2>4, <2>5, AppendKeepsPairs
<1>3. CASE Reply
  <2>1. PICK long \in BOOLEAN :
          messages' = Append(messages, ToolResults(messages[Len(messages)].uses, long))
    BY <1>3 DEF Reply
  <2> DEFINE m == ToolResults(messages[Len(messages)].uses, long)
  <2>2. messages[Len(messages)] \in Messages
    <3>1. Len(messages) \in 1 .. Len(messages)
      BY <1>0 DEF Paired
    <3> QED
      BY <1>0, <3>1
  <2>3. m \in Messages /\ m.uses = {} /\ m.answers = messages[Len(messages)].uses
    BY <2>2 DEF ToolResults, Messages
  <2>4. pc = "tools" /\ pc' = "turn" /\ messages' = Append(messages, m)
    BY <1>3, <2>1 DEF Reply
  <2> HIDE DEF m
  <2> QED
    BY <2>3, <2>4, AppendKeepsPairs
<1>4. CASE Begin \/ Finish \/ NoHandler \/ Raises \/ Returns \/ Exhaust \/ ModelFails \/ UNCHANGED vars
  <2>1. UNCHANGED messages
    BY <1>4 DEF Begin, Finish, NoHandler, Raises, Fault, Returns, Exhaust, ModelFails, vars
  <2>2. pc' = "tools" <=> pc = "tools"
    BY <1>4 DEF Begin, NextTurn, Finish, NoHandler, Raises, Fault, Returns, Executing, Exhaust,
                ModelFails, vars
  <2> QED
    BY <1>0, <2>1, <2>2, SameConversation
<1> QED
  BY <1>1, <1>2, <1>3, <1>4 DEF Next

(***************************************************************************)
(* The tally of the calls.                                                 *)
(***************************************************************************)

\* The sets that are counted are finite.
LEMMA Finite ==
  ASSUME NEW n \in Nat, NEW S \in SUBSET (1 .. n)
  PROVE  IsFiniteSet(S) /\ Cardinality(S) \in Nat /\ n + 1 \notin S
<1>1. 1 \in Int /\ n \in Int
  OBVIOUS
<1>2. IsFiniteSet(1 .. n)
  BY <1>1, FS_Interval
<1>3. IsFiniteSet(S)
  BY <1>2, FS_Subset
<1>4. n + 1 \notin S
  OBVIOUS
<1> QED
  BY <1>3, <1>4, FS_CardinalityType

\* What one more element adds to a cardinality.
LEMMA AddOne ==
  ASSUME NEW n \in Nat, NEW S \in SUBSET (1 .. n)
  PROVE  Cardinality(S \cup {n + 1}) = Cardinality(S) + 1
<1>1. IsFiniteSet(S) /\ n + 1 \notin S
  BY Finite
<1> QED
  BY <1>1, FS_AddElement

\* What was made of the first n calls tells which of them are tracked.
LEMMA SamePrefix ==
  ASSUME NEW n \in Nat,
         \A k \in 1 .. n : calls'[k] = calls[k] /\ results'[k] = results[k]
  PROVE  /\ \A k \in 1 .. n : Tracked(k)' <=> Tracked(k)
         /\ \A r : \A k \in 0 .. n : TrackedOf(r, k)' = TrackedOf(r, k)
<1>1. \A k \in 1 .. n : Tracked(k)' <=> Tracked(k)
  BY DEF Tracked
<1>2. ASSUME NEW r, NEW k \in 0 .. n PROVE TrackedOf(r, k)' = TrackedOf(r, k)
  <2>1. \A j \in 1 .. k : j \in 1 .. n
    OBVIOUS
  <2> QED
    BY <1>1, <2>1 DEF TrackedOf
<1> QED
  BY <1>1, <1>2

\* While no call is executed nothing changes that is counted.
LEMMA NoneExecuted ==
  ASSUME TypeOK, InOrder, Counted, GuidanceIsDue, ReportIsTrue,
         UNCHANGED <<results, counts, errors, warnings>>,
         Len(calls') \in Nat,
         \A k \in 1 .. Len(results) : calls'[k] = calls[k]
  PROVE  /\ Counted' /\ GuidanceIsDue'
         /\ errors' = Cardinality(Failed')
<1>0. PICK n \in Nat : n = Len(results)
  BY DEF TypeOK
<1>1. n \in 0 .. n /\ results' = results
  OBVIOUS
<1>2. \A k \in 1 .. n : calls'[k] = calls[k] /\ results'[k] = results[k]
  BY <1>0, <1>1
<1>3. /\ \A k \in 1 .. n : Tracked(k)' <=> Tracked(k)
      /\ \A r : \A k \in 0 .. n : TrackedOf(r, k)' = TrackedOf(r, k)
  BY <1>1, <1>2, SamePrefix
<1>4. Counted'
  <2>1. ASSUME NEW r \in Resources
        PROVE  counts'[r] = Cardinality(TrackedOf(r, Len(results))')
    <3>1. counts[r] = Cardinality(TrackedOf(r, n)) /\ counts' = counts
      BY <1>0 DEF Counted
    <3>2. TrackedOf(r, n)' = TrackedOf(r, n)
      BY <1>1, <1>3
    <3>3. TrackedOf(r, Len(results))' = TrackedOf(r, n)'
      BY <1>0, <1>1 DEF TrackedOf
    <3> QED
      BY <3>1, <3>2, <3>3
  <2> QED
    BY <2>1 DEF Counted
<1>5. Due' = Due
  <2>1. ASSUME NEW k \in 1 .. n
        PROVE  /\ TrackedOf(calls[k], k)' = TrackedOf(calls[k], k)
               /\ Tracked(k)' <=> Tracked(k)
    <3>1. k \in 0 .. n /\ calls'[k] = calls[k]
      BY <1>1, <1>2
    <3>2. \A r : TrackedOf(r, k)' = TrackedOf(r, k)
      BY <1>3, <3>1
    <3> QED
      BY <1>3, <3>1, <3>2 DEF TrackedOf
  <2>2. Due' = {k \in 1 .. n : Tracked(k)' /\ Cardinality(TrackedOf(calls[k], k)') >= Threshold}
    BY <1>0, <1>1 DEF Due
  <2>3. Due = {k \in 1 .. n : Tracked(k) /\ Cardinality(TrackedOf(calls[k], k)) >= Threshold}
    BY <1>0 DEF Due
  <2> QED
    BY <2>1, <2>2, <2>3
<1>6. Failed' = Failed
  BY <1>1 DEF Failed
<1> QED
  BY <1>4, <1>5, <1>6 DEF GuidanceIsDue, ReportIsTrue

\* A call that was executed is failed, tracked and due for guidance or not;
\* those before it stay what they were.
LEMMA OneExecuted ==
  ASSUME TypeOK, NEW how \in Hows, results' = Append(results, how), UNCHANGED calls,
         NEW n \in Nat, n = Len(results), NEW c, c = calls[n + 1]
  PROVE  /\ Len(results') = n + 1
         /\ Failed' = IF how = "output" THEN Failed ELSE Failed \cup {n + 1}
         /\ \A r \in Resources :
              TrackedOf(r, n + 1)' = IF how \in {"output", "redacted"} /\ c = r
                                     THEN TrackedOf(r, n) \cup {n + 1} ELSE TrackedOf(r, n)
         /\ Due' = IF /\ how \in {"output", "redacted"} /\ c \in Resources
                       /\ Cardinality(TrackedOf(c, n + 1)') >= Threshold
                   THEN Due \cup {n + 1} ELSE Due
         /\ Due \in SUBSET (1 .. n) /\ Failed \in SUBSET (1 .. n)
         /\ \A r : TrackedOf(r, n) \in SUBSET (1 .. n)
<1>1. /\ Len(results') = n + 1
      /\ \A k \in 1 .. n : results'[k] = results[k] /\ calls'[k] = calls[k]
      /\ results'[n + 1] = how /\ calls'[n + 1] = c
  <2>1. results \in Seq(Hows)
    BY DEF TypeOK
  <2> QED
    BY <2>1, AppendProperties
<1>2. /\ \A k \in 1 .. n : Tracked(k)' <=> Tracked(k)
      /\ \A r : \A k \in 0 .. n : TrackedOf(r, k)' = TrackedOf(r, k)
  BY <1>1, SamePrefix
<1>3. 1 .. n + 1 = (1 .. n) \cup {n + 1} /\ n + 1 \notin 1 .. n /\ n \in 0 .. n
  OBVIOUS
<1>4. Tracked(n + 1)' <=> how \in {"output", "redacted"} /\ c \in Resources
  BY <1>1 DEF Tracked
<1>5. Failed' = IF how = "output" THEN Failed ELSE Failed \cup {n + 1}
  BY <1>1, <1>3 DEF Failed
<1>6. ASSUME NEW r \in Resources
      PROVE  TrackedOf(r, n + 1)' = IF how \in {"output", "redacted"} /\ c = r
                                    THEN TrackedOf(r, n) \cup {n + 1} ELSE TrackedOf(r, n)
  <2>1. TrackedOf(r, n + 1)' = {j \in 1 .. n + 1 : Tracked(j)' /\ calls'[j] = r}
    BY DEF TrackedOf
  <2>2. TrackedOf(r, n) = {j \in 1 .. n : Tracked(j) /\ calls[j] = r}
    BY DEF TrackedOf
  <2>3. \A j \in 1 .. n : Tracked(j)' /\ calls'[j] = r <=> Tracked(j) /\ calls[j] = r
    BY <1>1, <1>2
  <2>4. Tracked(n + 1)' /\ calls'[n + 1] = r <=> how \in {"output", "redacted"} /\ c = r
    BY <1>1, <1>4
  <2>5. TrackedOf(r, n + 1)' = TrackedOf(r, n) \cup
                               {j \in {n + 1} : Tracked(j)' /\ calls'[j] = r}
    BY <1>3, <2>1, <2>2, <2>3
  <2>6. {j \in {n + 1} : Tracked(j)' /\ calls'[j] = r} =
          IF how \in {"output", "redacted"} /\ c = r THEN {n + 1} ELSE {}
    BY <2>4
  <2> QED
    BY <2>5, <2>6
<1>7. Due' = IF /\ how \in {"output", "redacted"} /\ c \in Resources
                /\ Cardinality(TrackedOf(c, n + 1)') >= Threshold
             THEN Due \cup {n + 1} ELSE Due
  <2>1. Due' = {k \in 1 .. n + 1 :
                  Tracked(k)' /\ Cardinality(TrackedOf(calls[k], k)') >= Threshold}
    BY <1>1 DEF Due
  <2>2. Due = {k \in 1 .. n : Tracked(k) /\ Cardinality(TrackedOf(calls[k], k)) >= Threshold}
    BY DEF Due
  <2>3. ASSUME NEW k \in 1 .. n
        PROVE  /\ TrackedOf(calls[k], k)' = TrackedOf(calls[k], k)
               /\ Tracked(k)' <=> Tracked(k)
    <3>1. k \in 0 .. n /\ calls'[k] = calls[k]
      BY <1>1
    <3>2. \A r : TrackedOf(r, k)' = TrackedOf(r, k)
      BY <1>2, <3>1
    <3> QED
      BY <1>2, <3>1, <3>2 DEF TrackedOf
  <2>4. TrackedOf(calls[n + 1], n + 1)' = TrackedOf(c, n + 1)'
    BY <1>1 DEF TrackedOf
  <2> QED
    BY <1>3, <1>4, <2>1, <2>2, <2>3, <2>4
<1>8. Due \in SUBSET (1 .. n) /\ Failed \in SUBSET (1 .. n)
  BY DEF Due, Failed
<1>9. \A r : TrackedOf(r, n) \in SUBSET (1 .. n)
  BY DEF TrackedOf
<1> QED
  BY <1>1, <1>5, <1>6, <1>7, <1>8, <1>9

\* A fault is an error, and is not tracked.
LEMMA FaultKeepsTally ==
  ASSUME TypeOK, InOrder, Counted, GuidanceIsDue, ReportIsTrue, Executing,
         NEW how \in Hows, how \notin {"output", "redacted"}, Fault(how)
  PROVE  /\ Counted' /\ GuidanceIsDue'
         /\ errors' = Cardinality(Failed')
         /\ Len(results') = Len(results) + 1 /\ results' \in Seq(Hows)
<1>0. PICK n \in Nat : n = Len(results)
  BY DEF TypeOK
<1>a. PICK c : c = calls[n + 1]
  OBVIOUS
<1>1. n \in Nat /\ n = Len(results) /\ c = calls[n + 1] /\ how \in Hows
  BY <1>0, <1>a DEF Hows
<1>2. /\ results' = Append(results, how) /\ UNCHANGED calls
      /\ counts' = counts /\ warnings' = warnings /\ errors' = errors + 1
  BY DEF Fault
<1>3. /\ Len(results') = n + 1
      /\ Failed' = IF how = "output" THEN Failed ELSE Failed \cup {n + 1}
      /\ \A r \in Resources :
           TrackedOf(r, n + 1)' = IF how \in {"output", "redacted"} /\ c = r
                                  THEN TrackedOf(r, n) \cup {n + 1} ELSE TrackedOf(r, n)
      /\ Due' = IF /\ how \in {"output", "redacted"} /\ c \in Resources
                    /\ Cardinality(TrackedOf(c, n + 1)') >= Threshold
                THEN Due \cup {n + 1} ELSE Due
      /\ Due \in SUBSET (1 .. n) /\ Failed \in SUBSET (1 .. n)
      /\ \A r : TrackedOf(r, n) \in SUBSET (1 .. n)
  <2>1. /\ TypeOK /\ how \in Hows /\ results' = Append(results, how) /\ UNCHANGED calls
        /\ n \in Nat /\ n = Len(results) /\ c = calls[n + 1]
    BY <1>1, <1>2
  <2> QED
    BY ONLY <2>1, OneExecuted, ZenonT(30)
<1>4. how \notin {"output", "redacted"}
  OBVIOUS
<1>5. Failed' = Failed \cup {n + 1} /\ Due' = Due
  <2>1. how # "output" /\ how # "redacted"
    BY <1>4
  <2>2. ~(how \in {"output", "redacted"})
    BY <1>4
  <2> QED
    BY <1>3, <2>1, <2>2, Zenon
<1>6. \A r \in Resources : TrackedOf(r, n + 1)' = TrackedOf(r, n)
  BY <1>3, <1>4
<1>7. Counted'
  <2>1. ASSUME NEW r \in Resources PROVE counts'[r] = Cardinality(TrackedOf(r, Len(results))')
    <3>1. TrackedOf(r, Len(results))' = TrackedOf(r, n + 1)'
      BY <1>3 DEF TrackedOf
    <3> QED
      BY <1>1, <1>2, <1>6, <3>1 DEF Counted
  <2> QED
    BY <2>1 DEF Counted
<1>8. errors' = Cardinality(Failed')
  BY <1>1, <1>2, <1>3, <1>5, AddOne DEF ReportIsTrue
<1>9. results' \in Seq(Hows)
  BY <1>1, <1>2, AppendProperties DEF TypeOK
<1> QED
  BY <1>1, <1>2, <1>3, <1>5, <1>7, <1>8, <1>9 DEF GuidanceIsDue

\* An output is tracked, and the guidance given when it is due.
LEMMA ReturnsKeepsTally ==
  ASSUME TypeOK, InOrder, Counted, GuidanceIsDue, ReportIsTrue, Returns
  PROVE  /\ Counted' /\ GuidanceIsDue'
         /\ errors' = Cardinality(Failed')
         /\ Len(results') = Len(results) + 1 /\ results' \in Seq(Hows)
         /\ counts' \in [Resources -> Nat] /\ warnings' \in Nat /\ errors' \in Nat
<1>0. PICK n \in Nat : n = Len(results)
  BY DEF TypeOK
<1>a. PICK c : c = calls[n + 1]
  OBVIOUS
<1>1. PICK how \in {"output", "redacted"} :
        /\ results' = Append(results, how)
        /\ errors' = IF how = "redacted" THEN errors + 1 ELSE errors
  BY DEF Returns
<1>2. n \in Nat /\ n = Len(results) /\ c = calls[n + 1] /\ how \in Hows
  BY <1>0, <1>a DEF Hows
<1>3. /\ UNCHANGED calls
      /\ IF c \in Resources
         THEN /\ counts' = [counts EXCEPT ![c] = counts[c] + 1]
              /\ warnings' = IF counts[c] + 1 >= Threshold THEN warnings + 1 ELSE warnings
         ELSE counts' = counts /\ warnings' = warnings
  BY <1>2 DEF Returns, Current, Warned
<1>4. /\ Len(results') = n + 1
      /\ Failed' = IF how = "output" THEN Failed ELSE Failed \cup {n + 1}
      /\ \A r \in Resources :
           TrackedOf(r, n + 1)' = IF how \in {"output", "redacted"} /\ c = r
                                  THEN TrackedOf(r, n) \cup {n + 1} ELSE TrackedOf(r, n)
      /\ Due' = IF /\ how \in {"output", "redacted"} /\ c \in Resources
                    /\ Cardinality(TrackedOf(c, n + 1)') >= Threshold
                THEN Due \cup {n + 1} ELSE Due
      /\ Due \in SUBSET (1 .. n) /\ Failed \in SUBSET (1 .. n)
      /\ \A r : TrackedOf(r, n) \in SUBSET (1 .. n)
  <2>1. /\ TypeOK /\ how \in Hows /\ results' = Append(results, how) /\ UNCHANGED calls
        /\ n \in Nat /\ n = Len(results) /\ c = calls[n + 1]
    BY <1>1, <1>2, <1>3
  <2> QED
    BY ONLY <2>1, OneExecuted, ZenonT(30)
<1>5. /\ errors \in Nat /\ warnings \in Nat /\ counts \in [Resources -> Nat]
      /\ errors = Cardinality(Failed) /\ warnings = Cardinality(Due)
      /\ \A r \in Resources : counts[r] = Cardinality(TrackedOf(r, n))
  <2>1. errors \in Nat /\ warnings \in Nat /\ counts \in [Resources -> Nat]
    BY DEF TypeOK
  <2>2. errors = Cardinality(Failed) /\ warnings = Cardinality(Due)
    BY Zenon DEF ReportIsTrue, GuidanceIsDue
  <2>3. \A r \in Resources : counts[r] = Cardinality(TrackedOf(r, n))
    BY <1>2, Zenon DEF Counted
  <2> QED
    BY <2>1, <2>2, <2>3, Zenon
<1>6. errors' = Cardinality(Failed') /\ errors' \in Nat
  <2>1. Cardinality(Failed \cup {n + 1}) = Cardinality(Failed) + 1
    BY <1>2, <1>4, AddOne
  <2>2. CASE how = "output"
    BY <1>1, <1>4, <1>5, <2>2
  <2>3. CASE how = "redacted"
    <3>1. Failed' = Failed \cup {n + 1} /\ errors' = errors + 1
      BY <1>1, <1>4, <2>3
    <3> QED
      BY <1>5, <2>1, <3>1
  <2> QED
    BY <2>2, <2>3
<1>7. ASSUME NEW r \in Resources
      PROVE  counts'[r] = Cardinality(TrackedOf(r, n + 1)')
  <2>1. CASE r = c
    <3>1. TrackedOf(r, n + 1)' = TrackedOf(r, n) \cup {n + 1}
      BY <1>4, <2>1
    <3>2. Cardinality(TrackedOf(r, n) \cup {n + 1}) = Cardinality(TrackedOf(r, n)) + 1
      BY <1>2, <1>4, AddOne
    <3>3. counts'[r] = counts[r] + 1
      BY <1>3, <1>5, <2>1
    <3> QED
      BY <1>5, <3>1, <3>2, <3>3
  <2>2. CASE r # c
    <3>1. TrackedOf(r, n + 1)' = TrackedOf(r, n)
      BY <1>4, <2>2
    <3>2. counts'[r] = counts[r]
      BY <1>3, <1>5, <2>2
    <3> QED
      BY <1>5, <3>1, <3>2
  <2> QED
    BY <2>1, <2>2
<1>8. Counted'
  <2>1. ASSUME NEW r \in Resources PROVE counts'[r] = Cardinality(TrackedOf(r, Len(results))')
    <3>1. TrackedOf(r, Len(results))' = TrackedOf(r, n + 1)'
      BY <1>4 DEF TrackedOf
    <3> QED
      BY <1>7, <3>1
  <2> QED
    BY <2>1 DEF Counted
<1>9. warnings' = Cardinality(Due') /\ warnings' \in Nat
  <2>1. Cardinality(Due \cup {n + 1}) = Cardinality(Due) + 1
    BY <1>2, <1>4, AddOne
  <2>2. CASE c \in Resources
    <3>1. counts'[c] = counts[c] + 1 /\ counts'[c] = Cardinality(TrackedOf(c, n + 1)')
      BY <1>3, <1>5, <1>7, <2>2
    <3>2. Due' = IF counts[c] + 1 >= Threshold THEN Due \cup {n + 1} ELSE Due
      BY <1>4, <2>2, <3>1
    <3>3. warnings' = IF counts[c] + 1 >= Threshold THEN warnings + 1 ELSE warnings
      BY <1>3, <2>2
    <3> QED
      BY <1>5, <2>1, <3>2, <3>3
  <2>3. CASE c \notin Resources
    BY <1>3, <1>4, <1>5, <2>3
  <2> QED
    BY <2>2, <2>3
<1>10. counts' \in [Resources -> Nat]
  BY <1>3, <1>5
<1>11. results' \in Seq(Hows)
  BY <1>1, <1>2, AppendProperties DEF TypeOK
<1> QED
  BY <1>2, <1>4, <1>6, <1>8, <1>9, <1>10, <1>11 DEF GuidanceIsDue

(***************************************************************************)
(* The invariant as a whole.                                               *)
(***************************************************************************)

\* A loop that begins has made no call.
LEMMA InitIInv == Init => IInv
<1> SUFFICES ASSUME Init PROVE IInv
  OBVIOUS
<1>1. /\ pc = "turn" /\ turn = 0 /\ calls = <<>> /\ results = <<>>
      /\ counts = [r \in Resources |-> 0] /\ errors = 0 /\ warnings = 0 /\ reached = FALSE
  BY DEF Init
<1>2. PICK long \in BOOLEAN : messages = <<Text("user", long)>>
  BY DEF Init
<1>3. Text("user", long) \in Messages /\ IsText(Text("user", long))
  BY DEF Text, Messages, IsText
<1>4. messages \in Seq(Messages) /\ Len(messages) = 1 /\ messages[1] = Text("user", long)
  BY <1>2, <1>3, Single
<1>5. Len(results) = 0 /\ Len(calls) = 0
  BY <1>1
<1>6. TypeOK
  <2>1. calls \in Seq(Targets) /\ results \in Seq(Hows) /\ counts \in [Resources -> Nat]
    BY <1>1
  <2>2. turn \in 0 .. MaxTurns /\ pc = "turn" /\ errors \in Nat /\ warnings \in Nat
    BY <1>1, LoopAssumption
  <2> QED
    BY <1>1, <1>4, <2>1, <2>2 DEF TypeOK
<1>7. Paired
  <2>1. 1 \in 1 .. Len(messages) /\ (Len(messages) - 1) % 2 = 0
    BY <1>4
  <2>2. \A i \in 1 .. 1 : IsText(messages[i])
    <3>1. \A i \in 1 .. 1 : i = 1
      OBVIOUS
    <3> QED
      BY <1>3, <1>4, <3>1
  <2>3. \A i \in 1 + 1 .. Len(messages) : FALSE
    BY <1>4
  <2>4. PairsAfter(1)
    BY <1>1, <2>1, <2>2, <2>3 DEF PairsAfter
  <2> QED
    BY <2>1, <2>4 DEF Paired
<1>8. Due = {} /\ Failed = {} /\ \A r : TrackedOf(r, Len(results)) = {}
  <2>1. \A k \in 1 .. Len(results) : FALSE
    BY <1>5
  <2> QED
    BY <2>1 DEF Due, Failed, TrackedOf
<1>9. Cardinality({}) = 0
  BY FS_EmptySet
<1>10. InOrder /\ ReportIsTrue
  BY <1>1, <1>5, <1>8, <1>9 DEF InOrder, ReportIsTrue
<1>11. Counted /\ GuidanceIsDue
  BY <1>1, <1>8, <1>9 DEF Counted, GuidanceIsDue
<1> QED
  BY <1>6, <1>7, <1>10, <1>11 DEF IInv

\* The step of a turn that executes no call.
LEMMA QuietStep ==
  ASSUME TypeOK, InOrder, Counted, GuidanceIsDue, ReportIsTrue,
         UNCHANGED <<results, counts, errors, warnings>>,
         \/ UNCHANGED calls /\ (pc' # "tools" => Len(results) = Len(calls))
         \/ \E n \in Nat : \E asked \in [1 .. n -> Targets] : calls' = calls \o asked /\ pc' = "tools"
  PROVE  /\ Counted' /\ GuidanceIsDue' /\ ReportIsTrue' /\ InOrder'
         /\ calls' \in Seq(Targets)
<1>1. calls \in Seq(Targets) /\ Len(results) \in Nat /\ Len(calls) \in Nat
  BY DEF TypeOK
<1>2. /\ calls' \in Seq(Targets) /\ Len(calls') \in Nat
      /\ \A k \in 1 .. Len(results) : calls'[k] = calls[k]
      /\ InOrder'
  <2>1. CASE UNCHANGED calls /\ (pc' # "tools" => Len(results) = Len(calls))
    BY <1>1, <2>1 DEF InOrder
  <2>2. ASSUME NEW n \in Nat, NEW asked \in [1 .. n -> Targets], calls' = calls \o asked, pc' = "tools"
        PROVE  <1>2!1 /\ <1>2!2 /\ <1>2!3
    <3>1. asked \in Seq(Targets) /\ Len(asked) = n
      BY <2>2
    <3>2. /\ calls' \in Seq(Targets)
          /\ Len(calls') = Len(calls) + n
          /\ \A i \in 1 .. Len(calls) + n :
               calls'[i] = IF i <= Len(calls) THEN calls[i] ELSE asked[i - Len(calls)]
      BY <1>1, <2>2, <3>1, ConcatProperties
    <3>3. \A k \in 1 .. Len(results) : k \in 1 .. Len(calls) + n /\ k <= Len(calls)
      BY <1>1 DEF InOrder
    <3>4. \A k \in 1 .. Len(results) : calls'[k] = calls[k]
      BY <3>2, <3>3
    <3>5. InOrder'
      BY <1>1, <2>2, <3>2 DEF InOrder
    <3> QED
      BY <1>1, <3>2, <3>4, <3>5
  <2> QED
    BY <2>1, <2>2
<1>3. Counted' /\ GuidanceIsDue' /\ errors' = Cardinality(Failed')
  BY <1>2, NoneExecuted
<1>4. pc' = "done" => Len(results') = Len(calls')
  BY <1>2 DEF InOrder
<1> QED
  BY <1>2, <1>3, <1>4 DEF ReportIsTrue

\* Every step of the loop preserves the invariant.
LEMMA StepIInv == IInv /\ [Next]_vars => IInv'
<1> SUFFICES ASSUME IInv, [Next]_vars PROVE IInv'
  OBVIOUS
<1>0. TypeOK /\ Paired /\ InOrder /\ Counted /\ GuidanceIsDue /\ ReportIsTrue
  BY DEF IInv
<1>1. Paired' /\ messages' \in Seq(Messages)
  BY <1>0, StepPairs
<1>2. turn \in 0 .. MaxTurns /\ MaxTurns \in Nat
  BY <1>0, LoopAssumption DEF TypeOK
<1>3. CASE Begin \/ Compact \/ Finish \/ CallTools \/ Reply \/ Exhaust \/ ModelFails
  <2>1. UNCHANGED <<results, counts, errors, warnings>>
    BY <1>3 DEF Begin, Compact, NextTurn, Finish, CallTools, Reply, Exhaust, ModelFails, tally
  <2>2. \/ UNCHANGED calls /\ (pc' # "tools" => Len(results) = Len(calls))
        \/ \E n \in Nat : \E asked \in [1 .. n -> Targets] : calls' = calls \o asked /\ pc' = "tools"
    <3>1. CASE CallTools
      <4>1. PICK n \in 1 .. MaxCalls : \E asked \in [1 .. n -> Targets] : calls' = calls \o asked
        BY <3>1 DEF CallTools
      <4>2. n \in Nat /\ pc' = "tools"
        BY <3>1, LoopAssumption DEF CallTools
      <4> QED
        BY <4>1, <4>2
    <3>2. CASE Reply
      <4>1. UNCHANGED calls /\ Len(results) + 1 > Len(calls) /\ Len(results) <= Len(calls)
        BY <1>0, <3>2 DEF Reply, tally, Current, InOrder
      <4>2. Len(results) \in Nat /\ Len(calls) \in Nat
        BY <1>0 DEF TypeOK
      <4> QED
        BY <4>1, <4>2
    <3>3. CASE Begin \/ Compact \/ Finish \/ Exhaust \/ ModelFails
      <4>1. UNCHANGED calls /\ pc # "tools"
        BY <3>3 DEF Begin, Compact, NextTurn, Finish, Exhaust, ModelFails, tally
      <4> QED
        BY <1>0, <4>1 DEF InOrder
    <3> QED
      BY <1>3, <3>1, <3>2, <3>3
  <2>3. /\ Counted' /\ GuidanceIsDue' /\ ReportIsTrue' /\ InOrder'
        /\ calls' \in Seq(Targets)
    BY <1>0, <2>1, <2>2, QuietStep
  <2>4. turn' \in 0 .. MaxTurns
    BY <1>2, <1>3 DEF Begin, Compact, NextTurn, Finish, CallTools, Reply, Exhaust, ModelFails
  <2>5. pc' \in {"turn", "send", "tools", "done", "raised"} /\ reached' \in BOOLEAN
    <3>1. pc' \in {"turn", "send", "tools", "done", "raised"}
      BY <1>3 DEF Begin, Compact, NextTurn, Finish, CallTools, Reply, Exhaust, ModelFails
    <3>2. reached' = reached \/ reached' = TRUE
      BY <1>3 DEF Begin, Compact, NextTurn, Finish, CallTools, Reply, Exhaust, ModelFails
    <3> QED
      BY <1>0, <3>1, <3>2 DEF TypeOK
  <2>6. TypeOK'
    BY <1>0, <1>1, <2>1, <2>3, <2>4, <2>5 DEF TypeOK
  <2> QED
    BY <1>1, <2>3, <2>6 DEF IInv
<1>4. CASE NoHandler \/ Raises
  <2>1. PICK how \in Hows : how \notin {"output", "redacted"} /\ Executing /\ Fault(how)
    BY <1>4 DEF NoHandler, Raises, Hows
  <2>2. /\ Counted' /\ GuidanceIsDue'
        /\ errors' = Cardinality(Failed')
        /\ Len(results') = Len(results) + 1 /\ results' \in Seq(Hows)
    BY <1>0, <2>1, FaultKeepsTally
  <2>3. /\ pc = "tools" /\ Len(results) + 1 <= Len(calls)
        /\ errors' = errors + 1
        /\ UNCHANGED <<pc, turn, messages, calls, counts, warnings, reached>>
    BY <2>1 DEF Executing, Current, Fault
  <2>4. InOrder' /\ ReportIsTrue'
    BY <2>2, <2>3 DEF InOrder, ReportIsTrue
  <2>5. TypeOK'
    BY <1>0, <2>2, <2>3 DEF TypeOK
  <2> QED
    BY <1>1, <2>2, <2>4, <2>5 DEF IInv
<1>5. CASE Returns
  <2>1. /\ Counted' /\ GuidanceIsDue'
        /\ errors' = Cardinality(Failed')
        /\ Len(results') = Len(results) + 1 /\ results' \in Seq(Hows)
        /\ counts' \in [Resources -> Nat] /\ warnings' \in Nat /\ errors' \in Nat
    BY <1>0, <1>5, ReturnsKeepsTally
  <2>2. /\ pc = "tools" /\ Len(results) + 1 <= Len(calls)
        /\ UNCHANGED <<pc, turn, messages, calls, reached>>
    BY <1>5 DEF Returns, Executing, Current
  <2>3. InOrder' /\ ReportIsTrue'
    BY <2>1, <2>2 DEF InOrder, ReportIsTrue
  <2>4. TypeOK'
    BY <1>0, <2>1, <2>2 DEF TypeOK
  <2> QED
    BY <1>1, <2>1, <2>3, <2>4 DEF IInv
<1>6. CASE UNCHANGED vars
  <2>1. /\ pc' = pc /\ turn' = turn /\ messages' = messages /\ calls' = calls /\ results' = results
        /\ counts' = counts /\ errors' = errors /\ warnings' = warnings /\ reached' = reached
    BY <1>6 DEF vars
  <2>2. /\ Counted' /\ GuidanceIsDue' /\ ReportIsTrue' /\ InOrder'
    BY <1>0, <2>1, QuietStep DEF InOrder
  <2>3. TypeOK'
    BY <1>0, <2>1 DEF TypeOK
  <2> QED
    BY <1>1, <2>2, <2>3 DEF IInv
<1> QED
  BY <1>3, <1>4, <1>5, <1>6 DEF Next

\* The inductive invariant holds in every state of the loop.
THEOREM Invariance == Spec => []IInv
BY InitIInv, StepIInv, PTL DEF Spec

\* Every variable keeps its type.
THEOREM TypeCorrect == Spec => []TypeOK
<1>1. IInv => TypeOK
  BY DEF IInv
<1> QED
  BY <1>1, Invariance, PTL

\* However long the conversation and whenever it is compacted, the model is
\* never sent a result without its call or a call without its result.
THEOREM PairsAlwaysSurvive == Spec => []PairsSurvive
<1>1. IInv => PairsSurvive
  BY PairedSurvives DEF IInv
<1> QED
  BY <1>1, Invariance, PTL

\* The guidance against a doom loop is given for exactly the calls it is due
\* for, over all turns.
THEOREM GuidanceExact == Spec => []GuidanceIsDue
<1>1. IInv => GuidanceIsDue
  BY DEF IInv
<1> QED
  BY <1>1, Invariance, PTL

\* run_loop reports as many errors as calls failed, and returns only when
\* every call was executed.
THEOREM ReportAlwaysTrue == Spec => []ReportIsTrue
<1>1. IInv => ReportIsTrue
  BY DEF IInv
<1> QED
  BY <1>1, Invariance, PTL
=============================================================================
