---------------------------- MODULE Services_proofs ----------------------------
(***************************************************************************)
(* Proofs about the services around a generation, each by itself and for   *)
(* any values of its constants: a streamed run, a process in dev mode, a   *)
(* background job, a call of an SDK on threads, the dev UI's session, calls *)
(* of Gemini at the same time.                                              *)
(***************************************************************************)
EXTENDS ActionStream, DevProcess, BackgroundJobs, BedrockTransport, ReflectionV2, GeminiCalls,
        FiniteSetTheorems, SequenceTheorems, WellFoundedInduction, TLAPS

-----------------------------------------------------------------------------
(* A streamed run.  The chunks are numbered, so that what is still in the     *)
(* channel is an interval that ends with the last chunk emitted.  What went   *)
(* before it was seen, was eaten by an orphaned pop task, or is with the      *)
(* reader's own pop task, which is the youngest of those that wait.           *)

\* The last chunk that was taken out of the channel.
taken == emitted - Len(buffer)

\* The reader waits for a pop task that has no chunk yet.
Popping == reader = "waiting" /\ popped = 0

Orphans == Len(pops) - (IF Popping THEN 1 ELSE 0)

TypeOK ==
  /\ fnAt \in {"start", "running"} \cup Outcomes
  /\ response \in {"pending", "given up"} \cup Outcomes
  /\ reader \in {"idle", "waiting", "stopped"} \cup Outcomes
  /\ emitted \in Nat /\ givenUp \in Nat /\ popped \in Nat
  /\ buffer \in Seq(Nat) /\ seen \in Seq(Nat)
  /\ pops \in Seq({"mine", "orphan"})

\* The channel holds the last chunks emitted, in order.
ChannelInOrder ==
  /\ Len(buffer) <= emitted
  /\ \A k \in DOMAIN buffer : buffer[k] = taken + k

\* Only the last pop task is the reader's, and it is there when the reader needs it.
PopsInOrder ==
  /\ Popping => pops # <<>>
  /\ \A k \in DOMAIN pops : pops[k] = "mine" <=> Popping /\ k = Len(pops)
  /\ popped # 0 => reader = "waiting"

\* What left the channel, and who took it.
TakenOnce ==
  /\ \A k \in DOMAIN seen : seen[k] \in 1..taken
  /\ \A p, q \in DOMAIN seen : p < q => seen[p] < seen[q]
  /\ popped # 0 => popped <= taken /\ \A k \in DOMAIN seen : seen[k] < popped
  /\ \A c \in 1..taken : c \in ToSet(seen) \/ c \in eaten \/ c = popped

\* A pop task is orphaned, and a chunk eaten, only by a read that was given up.
GivenUpPays == IsFiniteSet(eaten) /\ Cardinality(eaten) + Orphans <= givenUp

\* How the iteration and .response ended is how the run ended.
EndsAgree ==
  /\ reader = "stopped" => fnAt = "returned" /\ buffer = <<>>
  /\ reader \in Outcomes => fnAt = reader
  /\ response \in Outcomes => fnAt = response

IInv == TypeOK /\ ChannelInOrder /\ PopsInOrder /\ TakenOnce /\ GivenUpPays /\ EndsAgree

-----------------------------------------------------------------------------
(* Sequences and finite sets *)

\* The elements of a sequence one longer.
LEMMA ToSetAppend ==
  ASSUME NEW s \in Seq(Nat), NEW e \in Nat
  PROVE  \A c : c \in ToSet(Append(s, e)) <=> c \in ToSet(s) \/ c = e
<1>1. Len(Append(s, e)) = Len(s) + 1 /\ DOMAIN s = 1..Len(s) /\ Len(s) \in Nat
  OBVIOUS
<1>2. DOMAIN Append(s, e) = 1..(Len(s) + 1)
  BY <1>1
<1>3. \A k \in 1..Len(s) : Append(s, e)[k] = s[k]
  OBVIOUS
<1>4. Append(s, e)[Len(s) + 1] = e
  OBVIOUS
<1>5. \A k \in 1..(Len(s) + 1) : k \in 1..Len(s) \/ k = Len(s) + 1
  BY <1>1
<1>6. 1..Len(s) \subseteq 1..(Len(s) + 1) /\ Len(s) + 1 \in 1..(Len(s) + 1)
  BY <1>1
<1> QED
  BY <1>1, <1>2, <1>3, <1>4, <1>5, <1>6 DEF ToSet

\* A sequence one longer.
LEMMA Longer ==
  ASSUME NEW S, NEW s \in Seq(S), NEW e \in S
  PROVE  /\ Append(s, e) \in Seq(S) /\ Len(Append(s, e)) = Len(s) + 1 /\ Append(s, e) # <<>>
         /\ Append(s, e)[Len(s) + 1] = e
         /\ \A k \in DOMAIN s : Append(s, e)[k] = s[k] /\ k # Len(s) + 1
         /\ \A k \in DOMAIN Append(s, e) : k \in DOMAIN s \/ k = Len(s) + 1
<1>1. Append(s, e) \in Seq(S) /\ Len(Append(s, e)) = Len(s) + 1 /\ Len(s) \in Nat /\ DOMAIN s = 1..Len(s)
  OBVIOUS
<1>2. DOMAIN Append(s, e) = 1..(Len(s) + 1)
  BY <1>1
<1> QED
  BY <1>1, <1>2

\* A sequence without its first element.
LEMMA Shorter ==
  ASSUME NEW S, NEW s \in Seq(S), s # <<>>
  PROVE  /\ Len(s) \in Nat /\ Len(s) > 0 /\ 1 \in DOMAIN s /\ Len(s) \in DOMAIN s
         /\ Tail(s) \in Seq(S) /\ Len(Tail(s)) = Len(s) - 1
         /\ \A k \in DOMAIN Tail(s) : k \in Nat /\ k + 1 \in DOMAIN s /\ Tail(s)[k] = s[k + 1]
         /\ Head(s) = s[1]
  OBVIOUS

\* A sequence without its last element.
LEMMA WithoutLast ==
  ASSUME NEW S, NEW s \in Seq(S), s # <<>>
  PROVE  /\ SubSeq(s, 1, Len(s) - 1) \in Seq(S) /\ Len(SubSeq(s, 1, Len(s) - 1)) = Len(s) - 1
         /\ \A k \in DOMAIN SubSeq(s, 1, Len(s) - 1) :
              k \in DOMAIN s /\ k # Len(s) /\ SubSeq(s, 1, Len(s) - 1)[k] = s[k]
<1> DEFINE n == Len(s) - 1
<1>1. Len(s) \in Nat /\ n \in Nat /\ n < Len(s) /\ \A i \in 1..n : i \in DOMAIN s /\ s[i] \in S
  OBVIOUS
<1> HIDE DEF n
<1>2. /\ SubSeq(s, 1, n) \in Seq(S) /\ Len(SubSeq(s, 1, n)) = IF 1 <= n THEN n - 1 + 1 ELSE 0
      /\ \A i \in 1..(n - 1 + 1) : SubSeq(s, 1, n)[i] = s[1 + i - 1]
  BY <1>1, SubSeqProperties
<1>3. Len(SubSeq(s, 1, n)) = n /\ DOMAIN SubSeq(s, 1, n) = 1..n
  BY <1>1, <1>2
<1>4. \A i \in 1..n : SubSeq(s, 1, n)[i] = s[i] /\ i # Len(s)
  BY <1>1, <1>2
<1> QED
  BY <1>1, <1>2, <1>3, <1>4 DEF n

\* One chunk eaten adds one at most.
LEMMA EatOne ==
  ASSUME IsFiniteSet(eaten), NEW c
  PROVE  /\ IsFiniteSet(eaten \cup {c})
         /\ Cardinality(eaten) \in Nat /\ Cardinality(eaten \cup {c}) \in Nat
         /\ Cardinality(eaten \cup {c}) <= Cardinality(eaten) + 1
<1>1. IsFiniteSet(eaten \cup {c}) /\ Cardinality(eaten) \in Nat /\ Cardinality(eaten \cup {c}) \in Nat
  BY FS_AddElement, FS_CardinalityType
<1>2. Cardinality(eaten \cup {c}) = Cardinality(eaten) \/ Cardinality(eaten \cup {c}) = Cardinality(eaten) + 1
  BY FS_AddElement
<1> QED
  BY <1>1, <1>2

\* The types that the steps below use.
LEMMA TypeFacts ==
  ASSUME IInv
  PROVE  /\ buffer \in Seq(Nat) /\ Len(buffer) \in Nat /\ Len(buffer) <= emitted /\ emitted \in Nat
         /\ seen \in Seq(Nat) /\ Len(seen) \in Nat
         /\ pops \in Seq({"mine", "orphan"}) /\ Len(pops) \in Nat
         /\ givenUp \in Nat /\ popped \in Nat
         /\ IsFiniteSet(eaten) /\ Cardinality(eaten) \in Nat /\ Orphans \in Int
<1>1. buffer \in Seq(Nat) /\ seen \in Seq(Nat) /\ pops \in Seq({"mine", "orphan"})
  BY DEF IInv, TypeOK
<1>2. Len(buffer) \in Nat /\ Len(seen) \in Nat /\ Len(pops) \in Nat
  BY <1>1
<1>3. IsFiniteSet(eaten) /\ Cardinality(eaten) \in Nat
  BY FS_CardinalityType DEF IInv, GivenUpPays
<1>4. Len(buffer) <= emitted /\ emitted \in Nat /\ givenUp \in Nat /\ popped \in Nat
  BY DEF IInv, TypeOK, ChannelInOrder
<1>5. Orphans = Len(pops) \/ Orphans = Len(pops) - 1
  BY <1>2 DEF Orphans
<1> QED
  BY <1>1, <1>2, <1>3, <1>4, <1>5

-----------------------------------------------------------------------------
(* The chunks that move *)

\* A chunk that leaves the channel is the one after the last that left it.
LEMMA HeadOfChannel ==
  ASSUME IInv, buffer # <<>>, buffer' = Tail(buffer), emitted' = emitted
  PROVE  /\ taken' = taken + 1 /\ Head(buffer) = taken + 1 /\ taken \in Nat
         /\ buffer' \in Seq(Nat) /\ ChannelInOrder'
<1>1. buffer \in Seq(Nat) /\ emitted \in Nat /\ Len(buffer) \in Nat /\ Len(buffer) > 0 /\ Len(buffer) <= emitted
  BY TypeFacts
<1>2. Tail(buffer) \in Seq(Nat) /\ Len(Tail(buffer)) = Len(buffer) - 1
  BY <1>1
<1>3. \A k \in DOMAIN Tail(buffer) : k \in Nat /\ k + 1 \in DOMAIN buffer /\ Tail(buffer)[k] = buffer[k + 1]
  BY <1>1
<1>4. taken' = taken + 1 /\ taken \in Nat
  BY <1>1, <1>2 DEF taken
<1>5. Head(buffer) = buffer[1] /\ 1 \in DOMAIN buffer
  BY <1>1
<1>6. Head(buffer) = taken + 1
  BY <1>5 DEF IInv, ChannelInOrder
<1>7. \A k \in DOMAIN Tail(buffer) : Tail(buffer)[k] = taken' + k
  BY <1>3, <1>4 DEF IInv, ChannelInOrder
<1> QED
  BY <1>1, <1>2, <1>4, <1>6, <1>7 DEF ChannelInOrder

\* The reader gets the next chunk of the channel.
LEMMA ReadHead ==
  ASSUME IInv, buffer # <<>>, buffer' = Tail(buffer), emitted' = emitted,
         popped = 0, popped' = 0, eaten' = eaten, seen' = Append(seen, Head(buffer))
  PROVE  seen' \in Seq(Nat) /\ TakenOnce'
<1>1. /\ taken' = taken + 1 /\ Head(buffer) = taken + 1 /\ taken \in Nat
      /\ seen \in Seq(Nat)
  BY HeadOfChannel DEF IInv, TypeOK
<1>2. seen' = Append(seen, taken + 1) /\ taken + 1 \in Nat
  BY <1>1
<1>3. Len(seen') = Len(seen) + 1 /\ Len(seen) \in Nat /\ DOMAIN seen = 1..Len(seen) /\ DOMAIN seen' = 1..Len(seen')
  BY <1>1, <1>2
<1>4. \A k \in DOMAIN seen' : (k \in DOMAIN seen /\ seen'[k] = seen[k]) \/ (k = Len(seen) + 1 /\ seen'[k] = taken + 1)
  BY <1>1, <1>2, <1>3
<1>5. \A k \in DOMAIN seen : seen[k] \in 1..taken
  BY DEF IInv, TakenOnce
<1>6. \A k \in DOMAIN seen' : seen'[k] \in 1..taken'
  BY <1>1, <1>4, <1>5
<1>7. \A p, q \in DOMAIN seen' : p < q => seen'[p] < seen'[q]
  <2> SUFFICES ASSUME NEW p \in DOMAIN seen', NEW q \in DOMAIN seen', p < q PROVE seen'[p] < seen'[q]
    OBVIOUS
  <2>1. p \in DOMAIN seen /\ seen'[p] = seen[p]
    BY <1>3, <1>4
  <2> QED
    BY <1>1, <1>4, <1>5, <2>1 DEF IInv, TakenOnce
<1>8. \A c \in 1..taken' : c \in ToSet(seen') \/ c \in eaten'
  <2>1. \A c : c \in ToSet(seen') <=> c \in ToSet(seen) \/ c = taken + 1
    BY <1>1, <1>2, ToSetAppend
  <2>2. \A c \in 1..taken : c \in ToSet(seen) \/ c \in eaten
    BY DEF IInv, TakenOnce
  <2> QED
    BY <1>1, <2>1, <2>2
<1>9. seen' \in Seq(Nat)
  BY <1>1, <1>2
<1> QED
  BY <1>6, <1>7, <1>8, <1>9 DEF TakenOnce

-----------------------------------------------------------------------------
(* The initial state and the steps *)

\* Nothing was emitted, taken or given up.
LEMMA InitIInv == StreamInit => IInv
<1> SUFFICES ASSUME StreamInit PROVE IInv
  OBVIOUS
<1>1. IsFiniteSet({}) /\ Cardinality({}) = 0
  BY FS_EmptySet
<1> QED
  BY <1>1 DEF StreamInit, IInv, TypeOK, ChannelInOrder, PopsInOrder, TakenOnce, GivenUpPays,
     EndsAgree, taken,
     Orphans, Popping, Outcomes

\* The run goes on, or ends, and .response may follow it.
RunMoves ==
  /\ fnAt' \in {"start", "running"} \cup Outcomes
  /\ fnAt \in Outcomes => fnAt' = fnAt
  /\ response' \in {"pending", "given up"} \cup Outcomes
  /\ response' \in Outcomes => fnAt' = response'

\* What touches neither the channel nor its readers: the sender, the run and its end.
LEMMA RunStepKeeps ==
  ASSUME IInv, UNCHANGED <<buffer, emitted, reader, pops, popped, seen, eaten>>, RunMoves,
         givenUp' \in Nat, givenUp' >= givenUp
  PROVE  IInv'
<1>1. TypeOK'
  BY TypeFacts DEF IInv, TypeOK, RunMoves
<1>2. ChannelInOrder' /\ PopsInOrder' /\ TakenOnce'
  BY DEF IInv, ChannelInOrder, PopsInOrder, TakenOnce, taken, Popping
<1>3. GivenUpPays'
  <2>1. Cardinality(eaten) \in Nat /\ Orphans \in Int /\ givenUp \in Nat /\ IsFiniteSet(eaten)
    BY TypeFacts
  <2>2. Orphans' = Orphans /\ Cardinality(eaten') = Cardinality(eaten) /\ IsFiniteSet(eaten')
    BY <2>1 DEF Orphans, Popping
  <2>3. Cardinality(eaten) + Orphans <= givenUp
    BY DEF IInv, GivenUpPays
  <2>4. Cardinality(eaten') + Orphans' <= givenUp'
    BY <2>1, <2>2, <2>3
  <2> QED
    BY <2>2, <2>4 DEF GivenUpPays
<1>4. EndsAgree'
  BY DEF IInv, EndsAgree, Outcomes, RunMoves
<1> QED
  BY <1>1, <1>2, <1>3, <1>4 DEF IInv

\* The run emits a chunk.
LEMMA ChunkStep == ASSUME IInv, Chunk PROVE IInv'
<1>1. /\ buffer \in Seq(Nat) /\ emitted \in Nat /\ Len(buffer) \in Nat
      /\ emitted' = emitted + 1 /\ buffer' = Append(buffer, emitted + 1)
      /\ UNCHANGED <<fnAt, reader, pops, popped, seen, eaten, response, givenUp>>
  BY TypeFacts DEF Chunk
<1>2. Len(buffer') = Len(buffer) + 1 /\ buffer' \in Seq(Nat)
  BY <1>1
<1>3. taken' = taken
  BY <1>1, <1>2 DEF taken
<1>4. \A k \in DOMAIN buffer' : \/ k \in DOMAIN buffer /\ buffer'[k] = buffer[k]
                                \/ k = Len(buffer) + 1 /\ buffer'[k] = emitted + 1
  BY <1>1
<1>5. ChannelInOrder'
  BY <1>1, <1>2, <1>3, <1>4 DEF IInv, ChannelInOrder, taken
<1>6. TypeOK'
  <2>1. emitted' \in Nat
    BY <1>1
  <2> QED
    BY <1>1, <1>2, <2>1 DEF IInv, TypeOK
<1>9. PopsInOrder' /\ GivenUpPays'
  BY <1>1 DEF IInv, PopsInOrder, GivenUpPays, Popping, Orphans
<1>8. TakenOnce'
  BY <1>1, <1>3 DEF IInv, TakenOnce
<1>7. EndsAgree'
  BY <1>1 DEF IInv, EndsAgree, Chunk, Outcomes
<1> QED
  BY <1>5, <1>6, <1>7, <1>8, <1>9 DEF IInv

\* The sender, the start and the end of the run, and the caller that leaves .response.
LEMMA FunctionStep ==
  ASSUME IInv, Start \/ TakeTurn \/ FnEnds \/ Mirror \/ Send \/ Close \/ LeaveResponse PROVE IInv'
<1>1. /\ UNCHANGED <<buffer, emitted, reader, pops, popped, seen, eaten>>
      /\ givenUp' = givenUp \/ givenUp' = givenUp + 1
  BY DEF Start, TakeTurn, FnEnds, Mirror, Send, Close, LeaveResponse
<1>2. givenUp' \in Nat /\ givenUp' >= givenUp
  BY <1>1, TypeFacts
<1>3. RunMoves
  <2>1. fnAt \in {"start", "running"} \cup Outcomes /\ response \in {"pending", "given up"} \cup Outcomes
    BY DEF IInv, TypeOK
  <2>2. response \in Outcomes => fnAt = response
    BY DEF IInv, EndsAgree
  <2>3. CASE Start \/ FnEnds
    BY <2>1, <2>2, <2>3 DEF Start, FnEnds, Settles, RunMoves, Outcomes
  <2>4. CASE TakeTurn \/ Send \/ Close
    BY <2>1, <2>2, <2>4 DEF TakeTurn, Send, Close, RunMoves
  <2>5. CASE Mirror
    BY <2>1, <2>2, <2>5 DEF Mirror, Over, RunMoves
  <2>6. CASE LeaveResponse
    BY <2>1, <2>2, <2>6 DEF LeaveResponse, Over, Settles, RunMoves, Outcomes
  <2> QED
    BY <2>3, <2>4, <2>5, <2>6
<1> QED
  BY <1>1, <1>2, <1>3, RunStepKeeps

\* __anext__: a chunk of the channel, or a pop task behind those that wait.
LEMMA ReadStep == ASSUME IInv, Read PROVE IInv'
<1>1. /\ reader = "idle" /\ popped = 0
      /\ UNCHANGED <<fnAt, emitted, eaten, response, givenUp>>
  BY DEF IInv, PopsInOrder, Read
<1>2. CASE buffer # <<>>
  <2>1. seen' = Append(seen, Head(buffer)) /\ buffer' = Tail(buffer) /\ UNCHANGED <<reader, pops, popped>>
    BY <1>2 DEF Read
  <2>2. buffer' \in Seq(Nat) /\ ChannelInOrder' /\ seen' \in Seq(Nat) /\ TakenOnce'
    BY <1>1, <1>2, <2>1, HeadOfChannel, ReadHead
  <2>3. TypeOK' /\ PopsInOrder' /\ GivenUpPays' /\ EndsAgree'
    BY <1>1, <2>1, <2>2 DEF IInv, TypeOK, PopsInOrder, GivenUpPays, EndsAgree, Popping, Orphans, Outcomes
  <2> QED
    BY <2>2, <2>3 DEF IInv
<1>3. CASE buffer = <<>>
  <2>1. /\ reader' = "waiting" /\ pops' = Append(pops, "mine") /\ popped' = 0
        /\ UNCHANGED <<seen, buffer>>
    BY <1>3 DEF Read
  <2>2. /\ pops' \in Seq({"mine", "orphan"}) /\ Len(pops') = Len(pops) + 1 /\ Len(pops) \in Nat
        /\ \A k \in DOMAIN pops : pops'[k] = pops[k] /\ k # Len(pops')
        /\ \A k \in DOMAIN pops' : k \in DOMAIN pops \/ k = Len(pops')
        /\ pops'[Len(pops')] = "mine" /\ pops' # <<>>
    <3>1. pops \in Seq({"mine", "orphan"}) /\ "mine" \in {"mine", "orphan"} /\ Len(pops) \in Nat
      BY TypeFacts
    <3> QED
      BY <2>1, <3>1, Longer
  <2>3. TypeOK' /\ ChannelInOrder' /\ TakenOnce' /\ EndsAgree'
    BY <1>1, <1>3, <2>1, <2>2 DEF IInv, TypeOK, ChannelInOrder, TakenOnce, EndsAgree, taken, Outcomes
  <2>4. PopsInOrder'
    BY <1>1, <2>1, <2>2 DEF IInv, PopsInOrder, Popping
  <2>5. Orphans' = Orphans
    BY <1>1, <2>1, <2>2 DEF Orphans, Popping
  <2>6. GivenUpPays'
    BY <1>1, <2>5 DEF IInv, GivenUpPays
  <2> QED
    BY <2>3, <2>4, <2>6 DEF IInv
<1> QED
  BY <1>2, <1>3

\* A pop task gets the next chunk: the reader's, or one that a read left behind.
LEMMA PopStep == ASSUME IInv, Pop PROVE IInv'
<1>1. /\ pops # <<>> /\ buffer # <<>> /\ pops' = Tail(pops) /\ buffer' = Tail(buffer)
      /\ UNCHANGED <<fnAt, emitted, reader, seen, response, givenUp>>
  BY DEF Pop
<1>2. /\ taken' = taken + 1 /\ Head(buffer) = taken + 1 /\ taken \in Nat
      /\ buffer' \in Seq(Nat) /\ ChannelInOrder'
  BY <1>1, HeadOfChannel
<1>3. /\ pops' \in Seq({"mine", "orphan"}) /\ Len(pops') = Len(pops) - 1 /\ Len(pops) \in Nat /\ Len(pops) > 0
      /\ \A k \in DOMAIN pops' : k \in Nat /\ k + 1 \in DOMAIN pops /\ pops'[k] = pops[k + 1]
      /\ Head(pops) = pops[1] /\ 1 \in DOMAIN pops /\ Len(pops) \in DOMAIN pops
  BY <1>1, TypeFacts, Shorter
<1>4. EndsAgree'
  <2>1. reader # "stopped"
    BY <1>1 DEF IInv, EndsAgree
  <2> QED
    BY <1>1, <2>1 DEF IInv, EndsAgree
<1>5. CASE Head(pops) = "mine"
  <2>1. popped' = taken + 1 /\ eaten' = eaten /\ Popping /\ Len(pops) = 1
    BY <1>1, <1>2, <1>3, <1>5 DEF Pop, IInv, PopsInOrder
  <2>2. pops' = <<>> /\ reader = "waiting" /\ popped = 0
    BY <1>3, <2>1 DEF Popping
  <2>3. popped' # 0 /\ popped' \in Nat
    BY <1>2, <2>1
  <2>4. TypeOK'
    BY <1>1, <1>2, <1>3, <2>1, <2>3 DEF IInv, TypeOK
  <2>5. PopsInOrder'
    BY <1>1, <2>2, <2>3 DEF PopsInOrder, Popping
  <2>6. TakenOnce'
    BY <1>1, <1>2, <2>1, <2>2 DEF IInv, TakenOnce
  <2>7. GivenUpPays'
    <3>1. Orphans = 0 /\ Orphans' = 0
      BY <1>1, <1>3, <2>1, <2>3 DEF Orphans, Popping
    <3> QED
      BY <1>1, <2>1, <3>1 DEF IInv, GivenUpPays
  <2> QED
    BY <1>2, <1>4, <2>4, <2>5, <2>6, <2>7 DEF IInv
<1>6. CASE Head(pops) # "mine"
  <2>1. eaten' = eaten \cup {taken + 1} /\ popped' = popped
    BY <1>2, <1>6 DEF Pop
  <2>2. Popping' <=> Popping
    BY <1>1, <2>1 DEF Popping
  <2>3. Popping => Len(pops) > 1
    BY <1>3, <1>6 DEF IInv, PopsInOrder
  <2>4. TypeOK'
    BY <1>1, <1>2, <1>3, <2>1 DEF IInv, TypeOK
  <2>5. PopsInOrder'
    <3>1. Popping => pops' # <<>>
      BY <1>3, <2>3
    <3>2. \A k \in DOMAIN pops' : k = Len(pops') <=> k + 1 = Len(pops)
      BY <1>3
    <3> QED
      BY <1>1, <1>3, <2>1, <2>2, <3>1, <3>2 DEF IInv, PopsInOrder
  <2>6. TakenOnce'
    <3>1. /\ \A k \in DOMAIN seen : seen[k] \in 1..taken
          /\ \A p, q \in DOMAIN seen : p < q => seen[p] < seen[q]
          /\ popped # 0 => popped <= taken /\ \A k \in DOMAIN seen : seen[k] < popped
          /\ \A c \in 1..taken : c \in ToSet(seen) \/ c \in eaten \/ c = popped
      BY DEF IInv, TakenOnce
    <3>2. seen' = seen /\ popped \in Nat /\ ToSet(seen)' = ToSet(seen)
      BY <1>1, TypeFacts
    <3>3. \A k \in 1..taken : k \in 1..taken'
      BY <1>2
    <3>4. \A c \in 1..taken' : c \in 1..taken \/ c = taken + 1
      BY <1>2
    <3>5. popped # 0 => popped <= taken'
      BY <1>2, <3>1, <3>2
    <3> QED
      BY <2>1, <3>1, <3>2, <3>3, <3>4, <3>5 DEF TakenOnce
  <2>7. GivenUpPays'
    <3>1. Orphans' = Orphans - 1
      BY <1>3, <2>2 DEF Orphans
    <3>2. /\ IsFiniteSet(eaten') /\ Cardinality(eaten') \in Nat /\ Cardinality(eaten) \in Nat
          /\ Cardinality(eaten') <= Cardinality(eaten) + 1
      BY <2>1, TypeFacts, EatOne
    <3>3. Cardinality(eaten) + Orphans <= givenUp /\ Orphans \in Int /\ givenUp \in Nat /\ givenUp' = givenUp
      BY <1>1, TypeFacts DEF IInv, GivenUpPays
    <3> QED
      BY <3>1, <3>2, <3>3 DEF GivenUpPays
  <2> QED
    BY <1>2, <1>4, <2>4, <2>5, <2>6, <2>7 DEF IInv
<1> QED
  BY <1>5, <1>6

\* The reader gets the chunk of its pop task.
LEMMA ReadPopped ==
  ASSUME IInv, popped # 0, popped' = 0, UNCHANGED <<buffer, emitted, eaten>>, seen' = Append(seen, popped)
  PROVE  seen' \in Seq(Nat) /\ TakenOnce'
<1>1. /\ seen \in Seq(Nat) /\ popped \in Nat /\ popped \in 1..taken /\ taken' = taken
      /\ \A k \in DOMAIN seen : seen[k] \in 1..taken /\ seen[k] < popped
  <2>1. popped <= taken /\ taken \in Int
    BY TypeFacts DEF IInv, TakenOnce, taken
  <2> QED
    BY <2>1, TypeFacts DEF IInv, TakenOnce, taken
<1>2. /\ seen' \in Seq(Nat) /\ Len(seen') = Len(seen) + 1 /\ seen'[Len(seen) + 1] = popped
      /\ \A k \in DOMAIN seen : seen'[k] = seen[k]
      /\ \A k \in DOMAIN seen' : k \in DOMAIN seen \/ k = Len(seen) + 1
      /\ DOMAIN seen = 1..Len(seen) /\ Len(seen) \in Nat
  BY <1>1, Longer
<1>3. \A k \in DOMAIN seen' : seen'[k] \in 1..taken'
  BY <1>1, <1>2
<1>4. \A p, q \in DOMAIN seen' : p < q => seen'[p] < seen'[q]
  <2> SUFFICES ASSUME NEW p \in DOMAIN seen', NEW q \in DOMAIN seen', p < q PROVE seen'[p] < seen'[q]
    OBVIOUS
  <2>1. p \in DOMAIN seen
    BY <1>2
  <2> QED
    BY <1>1, <1>2, <2>1 DEF IInv, TakenOnce
<1>5. \A c \in 1..taken' : c \in ToSet(seen') \/ c \in eaten'
  BY <1>1, ToSetAppend DEF IInv, TakenOnce
<1> QED
  BY <1>2, <1>3, <1>4, <1>5 DEF TakenOnce

\* asyncio.wait returned: with a chunk, or with the end of the run.
LEMMA ResumeStep == ASSUME IInv, Resume PROVE IInv'
<1>1. /\ reader = "waiting" /\ UNCHANGED <<fnAt, emitted, eaten, response, givenUp>>
      /\ popped # 0 \/ fnAt \in Outcomes
  BY DEF Resume, Over
<1>2. CASE popped # 0
  <2>1. /\ seen' = Append(seen, popped) /\ popped' = 0 /\ reader' = "idle"
        /\ UNCHANGED <<pops, buffer>>
    BY <1>2 DEF Resume
  <2>2. seen' \in Seq(Nat) /\ TakenOnce'
    BY <1>1, <1>2, <2>1, ReadPopped
  <2>3. TypeOK' /\ ChannelInOrder' /\ PopsInOrder' /\ EndsAgree'
    BY <1>1, <1>2, <2>1, <2>2
    DEF IInv, TypeOK, ChannelInOrder, PopsInOrder, EndsAgree, Popping, taken, Outcomes
  <2>4. GivenUpPays'
    BY <1>1, <1>2, <2>1 DEF IInv, GivenUpPays, Orphans, Popping
  <2> QED
    BY <2>2, <2>3, <2>4 DEF IInv
<1>3. CASE popped = 0
  <2>1. /\ pops' = SubSeq(pops, 1, Len(pops) - 1) /\ popped' = 0 /\ Popping /\ pops # <<>>
        /\ reader' # "waiting" /\ fnAt \in Outcomes
    BY <1>1, <1>3 DEF Resume, WithoutMine, Popping, IInv, PopsInOrder, Outcomes
  <2>2. /\ pops' \in Seq({"mine", "orphan"}) /\ Len(pops') = Len(pops) - 1
        /\ \A k \in DOMAIN pops' : k \in DOMAIN pops /\ k # Len(pops) /\ pops'[k] = pops[k]
    BY <2>1, TypeFacts, WithoutLast
  <2>3. PopsInOrder'
    BY <1>1, <2>1, <2>2 DEF IInv, PopsInOrder, Popping
  <2>4. GivenUpPays'
    <3>1. Orphans' = Orphans
      BY <2>1, <2>2, TypeFacts DEF Orphans, Popping
    <3> QED
      BY <1>1, <3>1 DEF IInv, GivenUpPays
  <2>5. CASE fnAt = "returned" /\ buffer # <<>>
    <3>1. seen' = Append(seen, Head(buffer)) /\ buffer' = Tail(buffer) /\ reader' = "idle"
      BY <1>3, <2>5 DEF Resume
    <3>2. buffer' \in Seq(Nat) /\ ChannelInOrder' /\ seen' \in Seq(Nat) /\ TakenOnce'
      BY <1>1, <1>3, <2>1, <2>5, <3>1, HeadOfChannel, ReadHead
    <3>3. TypeOK' /\ EndsAgree'
      BY <1>1, <2>1, <2>2, <3>1, <3>2 DEF IInv, TypeOK, EndsAgree, Outcomes
    <3> QED
      BY <2>3, <2>4, <3>2, <3>3 DEF IInv
  <2>6. CASE ~(fnAt = "returned" /\ buffer # <<>>)
    <3>1. /\ UNCHANGED <<seen, buffer>>
          /\ IF fnAt = "returned" THEN reader' = "stopped" /\ buffer = <<>> ELSE reader' = fnAt
      BY <1>3, <2>6 DEF Resume
    <3>2. ChannelInOrder' /\ TakenOnce'
      BY <1>1, <1>3, <2>1, <3>1 DEF IInv, ChannelInOrder, TakenOnce, taken
    <3>3. TypeOK' /\ EndsAgree'
      BY <1>1, <2>1, <2>2, <3>1 DEF IInv, TypeOK, EndsAgree, Outcomes
    <3> QED
      BY <2>3, <2>4, <3>2, <3>3 DEF IInv
  <2> QED
    BY <2>5, <2>6
<1> QED
  BY <1>2, <1>3

\* A read is given up: its pop task stays behind, or takes its chunk along.
LEMMA GiveUpStep == ASSUME IInv, GiveUp PROVE IInv'
<1>1. /\ reader = "waiting" /\ reader' = "idle" /\ popped' = 0 /\ givenUp' = givenUp + 1
      /\ pops' = [k \in DOMAIN pops |-> "orphan"]
      /\ UNCHANGED <<fnAt, buffer, emitted, seen, response>>
  BY DEF GiveUp
<1>2. pops' \in Seq({"mine", "orphan"}) /\ Len(pops') = Len(pops) /\ \A k \in DOMAIN pops' : pops'[k] = "orphan"
  <2>1. pops \in Seq({"mine", "orphan"}) /\ DOMAIN pops = 1..Len(pops) /\ Len(pops) \in Nat
    BY TypeFacts
  <2>2. pops' = [k \in 1..Len(pops) |-> "orphan"]
    BY <1>1, <2>1
  <2> QED
    BY <2>1, <2>2
<1>3. PopsInOrder'
  BY <1>1, <1>2 DEF PopsInOrder, Popping
<1>4. ChannelInOrder' /\ EndsAgree'
  BY <1>1 DEF IInv, ChannelInOrder, EndsAgree, taken, Outcomes
<1>5. Orphans' = Len(pops)
  BY <1>1, <1>2, TypeFacts DEF Orphans, Popping
<1>6. givenUp' \in Nat
  BY <1>1, TypeFacts
<1>7. TypeOK'
  BY <1>1, <1>2, <1>6 DEF IInv, TypeOK
<1>8. CASE popped = 0
  <2>1. eaten' = eaten /\ Orphans = Len(pops) - 1
    BY <1>1, <1>8 DEF GiveUp, Orphans, Popping
  <2>2. TakenOnce'
    BY <1>1, <1>8, <2>1 DEF IInv, TakenOnce, taken
  <2>3. GivenUpPays'
    <3>1. Cardinality(eaten) + Orphans <= givenUp
      BY DEF IInv, GivenUpPays
    <3> QED
      BY <1>1, <1>5, <2>1, <3>1, TypeFacts DEF GivenUpPays
  <2> QED
    BY <1>3, <1>4, <1>7, <2>2, <2>3 DEF IInv
<1>9. CASE popped # 0
  <2>1. eaten' = eaten \cup {popped} /\ Orphans = Len(pops)
    BY <1>1, <1>9, TypeFacts DEF GiveUp, Orphans, Popping
  <2>2. TakenOnce'
    BY <1>1, <2>1 DEF IInv, TakenOnce, taken
  <2>3. GivenUpPays'
    <3>1. Cardinality(eaten) + Orphans <= givenUp
      BY DEF IInv, GivenUpPays
    <3>2. /\ IsFiniteSet(eaten') /\ Cardinality(eaten') \in Nat
          /\ Cardinality(eaten') <= Cardinality(eaten) + 1
      BY <2>1, TypeFacts, EatOne
    <3> QED
      BY <1>1, <1>5, <2>1, <3>1, <3>2, TypeFacts DEF GivenUpPays
  <2> QED
    BY <1>3, <1>4, <1>7, <2>2, <2>3 DEF IInv
<1> QED
  BY <1>8, <1>9

-----------------------------------------------------------------------------
\* Every step preserves the invariant.
LEMMA NextIInv == IInv /\ [StreamNext]_streamVars => IInv'
<1> SUFFICES ASSUME IInv, [StreamNext]_streamVars PROVE IInv'
  OBVIOUS
<1>1. CASE UNCHANGED streamVars
  BY <1>1 DEF streamVars, IInv, TypeOK, ChannelInOrder, PopsInOrder, TakenOnce, GivenUpPays,
     EndsAgree, taken,
     Orphans, Popping
<1> QED
  BY <1>1, FunctionStep, ReadStep, PopStep, ResumeStep, GiveUpStep, ChunkStep DEF StreamNext, StreamSystem

\* The channel, its readers and the chunks taken from it stay in order.
THEOREM Invariance == StreamSpec => []IInv
  BY InitIInv, NextIInv, PTL DEF StreamSpec

\* StreamIsWhole for any number of chunks, inputs and reads given up: what the caller of
\* Action.stream iterates over is what the function emitted, in order, but for one chunk
\* at most for each read it gave up, and it ends as the run ended.
THEOREM StreamIsWholeHolds == StreamSpec => []StreamIsWhole
<1>1. IInv => StreamIsWhole
  <2> SUFFICES ASSUME IInv PROVE StreamIsWhole
    OBVIOUS
  <2> DEFINE high == IF seen = <<>> THEN 0 ELSE Last(seen)
  <2>1. Cardinality(eaten) <= givenUp
    <3>1. Orphans >= 0 /\ Orphans \in Int
      BY TypeFacts DEF Orphans, IInv, PopsInOrder
    <3> QED
      BY <3>1, TypeFacts DEF IInv, GivenUpPays
  <2>2. 1..high \subseteq ToSet(seen) \union eaten
    <3>1. CASE seen = <<>>
      BY <3>1
    <3>2. CASE seen # <<>>
      <4>1. Len(seen) \in DOMAIN seen /\ high = seen[Len(seen)] /\ high \in 1..taken
        <5>1. Len(seen) \in DOMAIN seen
          BY <3>2, TypeFacts
        <5> QED
          BY <3>2, <5>1 DEF Last, IInv, TakenOnce
      <4>2. popped # 0 => high < popped
        BY <4>1 DEF IInv, TakenOnce
      <4>3. taken \in Int /\ \A c \in 1..high : c \in 1..taken /\ c # popped
        BY <4>1, <4>2, TypeFacts DEF taken
      <4> QED
        BY <4>3 DEF IInv, TakenOnce
    <3> QED
      BY <3>1, <3>2
  <2>3. reader = "stopped" => fnAt = "returned" /\ 1..emitted \subseteq ToSet(seen) \union eaten
    <3> SUFFICES ASSUME reader = "stopped" PROVE fnAt = "returned" /\ 1..emitted \subseteq ToSet(seen) \union eaten
      OBVIOUS
    <3>1. fnAt = "returned" /\ buffer = <<>> /\ popped = 0
      BY DEF IInv, EndsAgree, PopsInOrder
    <3>2. taken = emitted
      BY <3>1, TypeFacts DEF taken
    <3> QED
      BY <3>1, <3>2 DEF IInv, TakenOnce
  <2>4. reader \in Outcomes => fnAt = reader
    BY DEF IInv, EndsAgree
  <2>5. response \in Outcomes => fnAt = response
    BY DEF IInv, EndsAgree
  <2>6. \A p, q \in DOMAIN seen : p < q => seen[p] < seen[q]
    BY DEF IInv, TakenOnce
  <2> QED
    BY <2>1, <2>2, <2>3, <2>4, <2>5, <2>6 DEF StreamIsWhole
<1> QED
  BY <1>1, Invariance, PTL

-----------------------------------------------------------------------------
(* A process in dev mode *)

\* Where each instance's thread and exit callback can be.
DevTypes ==
  /\ server \in [Genkits -> {"unmade", "starting", "ready", "written", "failed", "registering", "serving"}]
  /\ atexit \in [Genkits -> {"none", "set", "running", "done", "late"}]
  /\ file \in [Genkits -> BOOLEAN]
  /\ signals \in Seq({"SIGINT", "SIGTERM"})

\* Handlers run because of a signal; until one comes, an announced server has its file;
\* an exit callback belongs to a written file, and one that ran has removed it.
DevInv ==
  /\ DevTypes
  /\ frames # <<>> => signals # <<>>
  /\ \A g \in Genkits :
       /\ file[g] => g \in up
       /\ server[g] \in {"written", "registering", "serving"} /\ signals = <<>>
          /\ main \in {"loading", "coroutine", "waiting"} => file[g]
       /\ atexit[g] # "none" => server[g] \in {"registering", "serving"}
       /\ atexit[g] = "done" /\ file[g] => g \in aborted
       /\ main = "gone" => atexit[g] \notin {"set", "running"}

\* At the start nothing is announced and nothing was signalled.
LEMMA InitDevInv == process \in Processes /\ DevInit => DevInv
BY DEF DevInit, DevInv, DevTypes

\* The main thread's own steps: none takes a file from a process that nobody stops.
LEMMA MainStepsKeep ==
  ASSUME DevInv, \/ \E g \in Genkits : Make(g) \/ CallAtexit(g) \/ SyncCleanup(g)
                 \/ RunMain \/ Wait \/ EndByItself \/ StopWaiting \/ Exit \/ Finalize
  PROVE  DevInv'
<1>1. ASSUME NEW g \in Genkits, Make(g) PROVE DevInv'
  BY <1>1 DEF Make, Serve, DevInv, DevTypes
<1>2. ASSUME NEW g \in Genkits, CallAtexit(g) PROVE DevInv'
  BY <1>2 DEF CallAtexit, DevInv, DevTypes
<1>3. ASSUME NEW g \in Genkits, SyncCleanup(g) PROVE DevInv'
  BY <1>3 DEF SyncCleanup, DevInv, DevTypes
<1>4. CASE RunMain \/ Wait \/ EndByItself \/ StopWaiting \/ Exit
  BY <1>4 DEF RunMain, Wait, EndByItself, StopWaiting, Exit, MainGoes, DevInv, DevTypes
<1>5. CASE Finalize
  BY <1>5 DEF Finalize, DevInv, DevTypes
<1> QED
  BY <1>1, <1>2, <1>3, <1>4, <1>5

\* The server threads: a file is written for a server that came up, and registered later.
LEMMA ThreadStepsKeep ==
  ASSUME DevInv, NEW g \in Genkits,
         StartServer(g) \/ WriteFile(g) \/ RegisterAtexit(g) \/ RegisterCleanup(g)
  PROVE  DevInv'
<1>1. CASE StartServer(g)
  BY <1>1 DEF StartServer, Serve, DevInv, DevTypes
<1>2. CASE WriteFile(g)
  BY <1>2 DEF WriteFile, Announces, Serve, DevInv, DevTypes
<1>3. CASE RegisterAtexit(g)
  BY <1>3 DEF RegisterAtexit, Serve, DevInv, DevTypes, ProcessOver
<1>4. CASE RegisterCleanup(g)
  BY <1>4 DEF RegisterCleanup, Serve, DevInv, DevTypes
<1> QED
  BY <1>1, <1>2, <1>3, <1>4

\* What a raised exception cuts short is known as aborted.
LEMMA RaiseKeeps ==
  ASSUME DevInv, Raise, ~ProcessOver,
         server' = server, file' = file, up' = up, signals' \in Seq({"SIGINT", "SIGTERM"}), signals' # <<>>
  PROVE  DevInv'
<1>1. atexit' \in [Genkits -> {"none", "set", "running", "done", "late"}]
      /\ \A g \in Genkits : \/ atexit'[g] = atexit[g] /\ (g \in aborted => g \in aborted')
                            \/ atexit[g] = "running" /\ atexit'[g] = "done" /\ g \in aborted'
  BY DEF Raise, DevInv, DevTypes
<1>2. main' # "gone" /\ frames' = <<>>
  BY DEF Raise, ProcessOver
<1> QED
  BY <1>1, <1>2 DEF DevInv, DevTypes

\* A signal, and the steps of the handlers it starts.
LEMMA SignalStepsKeep ==
  ASSUME DevInv, \/ \E sig \in {"SIGINT", "SIGTERM"} : Signal(sig)
                 \/ LeaveList \/ RemoveFile \/ CallOriginal
  PROVE  DevInv'
<1>1. ASSUME NEW sig \in {"SIGINT", "SIGTERM"}, Signal(sig) PROVE DevInv'
  <2>1. signals' \in Seq({"SIGINT", "SIGTERM"}) /\ signals' # <<>>
    <3> DEFINE S == {"SIGINT", "SIGTERM"}
    <3>1. signals \in Seq(S) /\ sig \in S /\ signals' = Append(signals, sig)
      BY <1>1 DEF Signal, DevInv, DevTypes
    <3> HIDE DEF S
    <3>2. Append(signals, sig) \in Seq(S) /\ Append(signals, sig) # <<>>
      BY <3>1
    <3> QED
      BY <3>1, <3>2 DEF S
  <2>2. server' = server /\ file' = file /\ up' = up /\ ~ProcessOver
    BY <1>1 DEF Signal
  <2>3. CASE Raise
    BY <2>1, <2>2, <2>3, RaiseKeeps
  <2>4. CASE ~Raise
    <3>1. atexit' = atexit /\ aborted' = aborted /\ (main' = main \/ main' = "killed")
      BY <1>1, <2>4 DEF Signal
    <3> QED
      BY <2>1, <2>2, <3>1 DEF DevInv, DevTypes, ProcessOver
  <2> QED
    BY <2>3, <2>4
<1>2. CASE LeaveList
  <2>1. signals # <<>> /\ UNCHANGED <<main, server, up, file, atexit, aborted, signals>>
    BY <1>2 DEF LeaveList, Free, DevInv
  <2> QED
    BY <2>1 DEF DevInv, DevTypes
<1>3. CASE RemoveFile
  <2>1. file' \in [Genkits -> BOOLEAN] /\ \A g \in Genkits : file'[g] => file[g]
    BY <1>3 DEF RemoveFile, DevInv, DevTypes
  <2>2. signals # <<>>
    BY <1>3 DEF RemoveFile, Free, DevInv
  <2> QED
    BY <1>3, <2>1, <2>2 DEF RemoveFile, DevInv, DevTypes
<1>4. CASE CallOriginal
  <2>1. signals # <<>> /\ signals' = signals /\ server' = server /\ file' = file /\ up' = up /\ ~ProcessOver
    BY <1>4 DEF CallOriginal, Free, DevInv
  <2>2. CASE Raise
    BY <2>1, <2>2, RaiseKeeps DEF DevInv, DevTypes
  <2>3. CASE ~Raise
    BY <1>4, <2>1, <2>3 DEF CallOriginal, DevInv, DevTypes
  <2> QED
    BY <2>2, <2>3
<1> QED
  BY <1>1, <1>2, <1>3, <1>4

\* A runtime file announces a server that came up, stays while nobody stops the process,
\* and is gone when the process is: for any number of instances and signals, the
\* signals coming between any two steps.
THEOREM FilesTellWhoServesHolds == DevSpec => []FilesTellWhoServes
<1>1. DevInv /\ [DevNext]_devVars => DevInv'
  <2>1. ASSUME DevInv, UNCHANGED devVars PROVE DevInv'
    BY <2>1 DEF DevInv, DevTypes, devVars
  <2>2. ASSUME DevInv, DevNext PROVE DevInv'
    BY <2>2, MainStepsKeep, ThreadStepsKeep, SignalStepsKeep DEF DevNext, DevSystem
  <2> QED
    BY <2>1, <2>2
<1>2. DevInv => FilesTellWhoServes
  BY DEF DevInv, DevTypes, FilesTellWhoServes
<1> QED
  BY <1>1, <1>2, InitDevInv, PTL DEF DevSpec

-----------------------------------------------------------------------------
(* The plugins' catalogues.  What a plugin says of a name and what it makes of  *)
(* it are decided by the marks in the name; so the proof is about marks, and    *)
(* the invariant only says that listings are made of names of the provider.    *)

\* None is no action.
AbsentIsNoAction == \A kind, name, schema : Absent # Act(kind, name, schema)

\* An advertised action that resolves as it is advertised.
KeepsItsWord(s, a) ==
  /\ ResolvedBy(s, a.kind, a.name) = a
  /\ a.kind \in {"model", "background-model"} => Generates(s, a.name) = a
  /\ a.kind = "background-model" => ResolvedBy(s, "check-operation", a.name) # Absent
  /\ a.kind = "embedder" /\ s # "ollama" => Generates(s, a.name) = Absent

\* The marks of Google's names exclude each other as its families do.
LEMMA GoogleMarks ==
  ASSUME NEW name \in NamesOf("googleai")
  PROVE  /\ Has(name, "embedding") =>
              ~HasAny(name, {"virtual-try-on-", "veo-", "imagen-", "lyria-", "deep-research-",
                                               "antigravity-", "gemma-"})
         /\ Has(name, "veo-") =>
              ~HasAny(name, {"virtual-try-on-", "embedding", "imagen-", "lyria-", "deep-research-",
                                               "antigravity-", "gemma-", "gemini-"})
         /\ Has(name, "imagen-") =>
              ~HasAny(name, {"virtual-try-on-", "embedding", "veo-", "lyria-", "deep-research-",
                                               "antigravity-", "gemma-", "gemini-"})
         /\ HasAny(name, {"gemini-", "gemma-"}) =>
              ~HasAny(name, {"virtual-try-on-", "imagen-", "veo-", "lyria-", "deep-research-",
                                                    "antigravity-"})
<1>1. name \in {{"gemini-"}, {"gemini-", "-tts"}, {"gemini-", "-image"}, {"gemini-", "embedding"},
          {"embedding"}, {"gemma-"}, {"veo-"}, {"imagen-"}, {"virtual-try-on-"}, {"lyria-"},
          {"deep-research-"}, {"antigravity-"}, {"aqa"}, {"gemini-", "deprecated"}}
  BY DEF NamesOf
<1>2. CASE name \in {{"gemini-"}, {"gemini-", "-tts"}, {"gemini-", "-image"}, {"gemini-", "deprecated"}}
  BY <1>2 DEF Has, HasAny
<1>3. CASE name \in {{"gemini-", "embedding"}, {"embedding"}}
  BY <1>3 DEF Has, HasAny
<1>4. CASE name \in {{"gemma-"}, {"veo-"}, {"imagen-"}}
  BY <1>4 DEF Has, HasAny
<1>5. CASE name \in {{"virtual-try-on-"}, {"lyria-"}, {"deep-research-"}, {"antigravity-"}, {"aqa"}}
  BY <1>5 DEF Has, HasAny
<1> QED
  BY <1>1, <1>2, <1>3, <1>4, <1>5

\* A name has one of the marks.
LEMMA Marked == ASSUME NEW name, NEW marks PROVE HasAny(name, marks) <=> \E k \in marks : Has(name, k)
BY DEF HasAny, Has

\* What classify_family says of Google's names.
LEMMA GoogleFamilies ==
  ASSUME NEW name \in NamesOf("googleai")
  PROVE  /\ Has(name, "embedding") => Family(name) = "embedder"
         /\ Has(name, "veo-") => Family(name) = "veo"
         /\ Has(name, "imagen-") => Family(name) = "imagen"
         /\ HasAny(name, {"gemini-", "gemma-"}) /\ ~Has(name, "embedding") =>
              Family(name) \in {"tts", "image", "gemma", "gemini"}
BY GoogleMarks, Marked DEF Family, Unsupported

\* The parts of an advertised action.
LEMMA ActParts ==
  ASSUME NEW kind, NEW name, NEW schema
  PROVE  /\ Act(kind, name, schema).kind = kind /\ Act(kind, name, schema).name = name
         /\ Act(kind, name, schema).schema = schema
BY DEF Act

\* An action of each kind keeps its word if the plugin resolves its name so.
LEMMA ModelKept ==
  ASSUME AbsentIsNoAction, NEW s, NEW name, NEW schema, ResolvedBy(s, "model", name) = Act("model", name, schema)
  PROVE  KeepsItsWord(s, Act("model", name, schema))
BY ActParts DEF KeepsItsWord, Generates, AbsentIsNoAction

LEMMA BackgroundKept ==
  ASSUME AbsentIsNoAction, NEW s, NEW name, NEW schema, NEW check, ResolvedBy(s, "model", name) = Absent,
         ResolvedBy(s, "background-model", name) = Act("background-model", name, schema),
         ResolvedBy(s, "check-operation", name) = Act("check-operation", name, check)
  PROVE  KeepsItsWord(s, Act("background-model", name, schema))
BY ActParts DEF KeepsItsWord, Generates, AbsentIsNoAction

LEMMA EmbedderKept ==
  ASSUME NEW s, NEW name, ResolvedBy(s, "embedder", name) = Act("embedder", name, "embedder"),
         s # "ollama" =>
              ResolvedBy(s, "model", name) = Absent /\ ResolvedBy(s, "background-model", name) = Absent
  PROVE  KeepsItsWord(s, Act("embedder", name, "embedder"))
BY ActParts DEF KeepsItsWord, Generates

\* What Google's two plugins make of a name that is in a bucket.
LEMMA BucketsResolve ==
  ASSUME AbsentIsNoAction, NEW s \in {"googleai", "vertexai"}, NEW name \in NamesOf("googleai"),
         NEW b \in {"gemini", "imagen", "veo", "embedders"},
         b = "gemini" => HasAny(name, {"gemini-", "gemma-"}) /\ ~Has(name, "embedding"),
         b = "imagen" => Has(name, "imagen-"),
         b = "veo" => Has(name, "veo-"),
         b = "embedders" => Has(name, "embedding")
  PROVE  KeepsItsWord(s, BucketAction(b, name))
<1>1. CASE b = "gemini"
  <2>1. /\ ~HasAny(name, {"antigravity-", "lyria-"}) /\ ~Has(name, "deep-research-")
        /\ Family(name) \in {"tts", "image", "gemma", "gemini"}
    BY <1>1, GoogleMarks, GoogleFamilies, Marked
  <2>2. VertexModel(name) = Act("model", name, GeminiSchema(name))
    BY <2>1 DEF VertexModel, Unroutable
  <2>3. ResolvedBy(s, "model", name) = Act("model", name, GeminiSchema(name))
    BY <2>1, <2>2 DEF ResolvedBy, GoogleAIResolve, VertexResolve, GoogleAIModel
  <2> QED
    BY <1>1, <2>3, ModelKept DEF BucketAction
<1>2. CASE b = "imagen"
  <2>1. ~HasAny(name, {"antigravity-", "lyria-"}) /\ ~Has(name, "deep-research-") /\ Family(name) = "imagen"
    BY <1>2, GoogleMarks, GoogleFamilies, Marked
  <2>2. ResolvedBy(s, "model", name) = Act("model", name, "imagen")
    BY <2>1 DEF ResolvedBy, GoogleAIResolve, VertexResolve, GoogleAIModel, VertexModel, Unroutable
  <2> QED
    BY <1>2, <2>2, ModelKept DEF BucketAction
<1>3. CASE b = "veo"
  <2>1. /\ ~HasAny(name, {"antigravity-", "lyria-"}) /\ ~Has(name, "deep-research-") /\ Family(name) = "veo"
        /\ GoogleAIBackground(name) /\ Has(name, "veo-")
    BY <1>3, GoogleMarks, GoogleFamilies, Marked DEF GoogleAIBackground
  <2>2. ResolvedBy(s, "model", name) = Absent
    BY <2>1 DEF ResolvedBy, GoogleAIResolve, VertexResolve, GoogleAIModel, VertexModel, Unroutable
  <2>3. \A kind \in {"background-model", "check-operation"} : ResolvedBy(s, kind, name) = Act(kind, name, "veo")
    BY <2>1 DEF ResolvedBy, GoogleAIResolve, VertexResolve
  <2> QED
    BY <1>3, <2>2, <2>3, BackgroundKept DEF BucketAction
<1>4. CASE b = "embedders"
  <2>1. /\ ~HasAny(name, {"antigravity-", "lyria-"}) /\ ~Has(name, "deep-research-")
        /\ Family(name) = "embedder"
        /\ ~GoogleAIBackground(name) /\ ~Has(name, "veo-")
    BY <1>4, GoogleMarks, GoogleFamilies, Marked DEF GoogleAIBackground
  <2>2. ResolvedBy(s, "model", name) = Absent
    BY <2>1 DEF ResolvedBy, GoogleAIResolve, VertexResolve, GoogleAIModel, VertexModel, Unroutable
  <2>3. ResolvedBy(s, "background-model", name) = Absent
    BY <2>1 DEF ResolvedBy, GoogleAIResolve, VertexResolve
  <2>4. ResolvedBy(s, "embedder", name) = Act("embedder", name, "embedder")
    BY DEF ResolvedBy, GoogleAIResolve, VertexResolve
  <2> QED
    BY <1>4, <2>2, <2>3, <2>4, EmbedderKept DEF BucketAction
<1> QED
  BY <1>1, <1>2, <1>3, <1>4

\* The buckets hold what their names say.
LEMMA SortedByMarks ==
  ASSUME NEW s \in {"googleai", "vertexai"}, NEW name, NEW b \in Buckets(s, name)
  PROVE  /\ b \in {"gemini", "imagen", "veo", "embedders"}
         /\ b = "gemini" => HasAny(name, {"gemini-", "gemma-"}) /\ ~Has(name, "embedding")
         /\ b = "imagen" => Has(name, "imagen-")
         /\ b = "veo" => Has(name, "veo-")
         /\ b = "embedders" => Has(name, "embedding")
<1>1. ~Has(name, "deprecated")
  BY DEF Buckets
<1>2. CASE s = "vertexai"
  BY <1>1, <1>2 DEF Buckets
<1>3. CASE s = "googleai"
  <2>1. b \in {c \in {"embedders", "imagen", "veo", "gemini"} :
                 CASE c = "embedders" -> "embedContent" \in Offers(name)
                   [] c = "imagen" -> "predict" \in Offers(name) /\ Has(name, "imagen-")
                   [] c = "veo" -> "generateVideos" \in Offers(name) \/ Has(name, "veo-")
                   [] OTHER -> "generateContent" \in Offers(name) /\ HasAny(name, {"gemini-", "gemma-"})}
    BY <1>1, <1>3 DEF Buckets
  <2>2. b = "embedders" => "embedContent" \in Offers(name)
    BY <2>1
  <2>3. b = "imagen" => Has(name, "imagen-")
    BY <2>1
  <2>4. b = "veo" => "generateVideos" \in Offers(name) \/ Has(name, "veo-")
    BY <2>1
  <2>5. b = "gemini" => "generateContent" \in Offers(name) /\ HasAny(name, {"gemini-", "gemma-"})
    BY <2>1
  <2>6. /\ "embedContent" \in Offers(name) => Has(name, "embedding")
        /\ "generateVideos" \in Offers(name) => Has(name, "veo-")
        /\ "generateContent" \in Offers(name) => ~Has(name, "embedding")
    BY DEF Offers
  <2> QED
    BY <2>1, <2>2, <2>3, <2>4, <2>5, <2>6
<1> QED
  BY <1>2, <1>3

\* What Google's plugins found in the catalogue resolves.
LEMMA DiscoveredKept ==
  ASSUME AbsentIsNoAction, NEW s \in {"googleai", "vertexai"}, NEW names \in SUBSET NamesOf(s),
         NEW a \in Discovered(s, names)
  PROVE  KeepsItsWord(s, a)
<1>1. PICK n \in names : \E b \in Buckets(s, n) : a = BucketAction(b, n)
  BY DEF Discovered
<1>2. PICK b \in Buckets(s, n) : a = BucketAction(b, n)
  BY <1>1
<1>3. n \in NamesOf("googleai")
  BY DEF NamesOf
<1> QED
  BY <1>2, <1>3, SortedByMarks, BucketsResolve

\* Google AI: what was found, and three families known by heart.
LEMMA GoogleAIKept ==
  ASSUME AbsentIsNoAction, NEW names \in SUBSET NamesOf("googleai"), NEW a \in ListOf("googleai", names)
  PROVE  KeepsItsWord("googleai", a)
<1>1. CASE a \in Discovered("googleai", names)
  BY <1>1, DiscoveredKept
<1>2. CASE a = Act("background-model", {"deep-research-"}, "deep-research")
  <2> DEFINE name == {"deep-research-"}
  <2>1. Family(name) = "deep-research" /\ GoogleAIBackground(name) /\ Has(name, "deep-research-")
    BY DEF Family, Has, HasAny, Unsupported, GoogleAIBackground
  <2> HIDE DEF name
  <2>2. ResolvedBy("googleai", "model", name) = Absent
    BY <2>1 DEF ResolvedBy, GoogleAIResolve, GoogleAIModel
  <2>3. \A kind \in {"background-model", "check-operation"} :
          ResolvedBy("googleai", kind, name) = Act(kind, name, "deep-research")
    BY <2>1 DEF ResolvedBy, GoogleAIResolve
  <2> QED
    BY <1>2, <2>2, <2>3, BackgroundKept DEF name
<1>3. ASSUME NEW mark \in {"antigravity", "lyria"}, NEW name,
             name = (IF mark = "lyria" THEN {"lyria-"} ELSE {"antigravity-"}), a = Act("model", name, mark)
      PROVE  KeepsItsWord("googleai", a)
  <2>1. Family(name) = mark /\ HasAny(name, {"antigravity-", "lyria-"}) /\ ~Has(name, "deep-research-")
    BY <1>3 DEF Family, Has, HasAny, Unsupported
  <2>2. ResolvedBy("googleai", "model", name) = Act("model", name, mark)
    BY <2>1 DEF ResolvedBy, GoogleAIResolve, GoogleAIModel
  <2> QED
    BY <1>3, <2>2, ModelKept
<1> QED
  BY <1>1, <1>2, <1>3 DEF ListOf, GoogleAIList

\* Vertex: its embedders and its evaluator are known by heart.
LEMMA VertexKept ==
  ASSUME AbsentIsNoAction, NEW names \in SUBSET NamesOf("vertexai"), NEW a \in ListOf("vertexai", names)
  PROVE  KeepsItsWord("vertexai", a)
<1>1. CASE a \in Discovered("vertexai", names)
  BY <1>1, DiscoveredKept
<1>2. ASSUME NEW n \in {{"embedding"}, {"gemini-", "embedding"}}, a = Act("embedder", n, "embedder")
      PROVE  KeepsItsWord("vertexai", a)
  <2>1. n \in NamesOf("googleai") /\ Has(n, "embedding")
    BY DEF NamesOf, Has
  <2>2. KeepsItsWord("vertexai", BucketAction("embedders", n))
    BY <2>1, BucketsResolve
  <2> QED
    BY <1>2, <2>2 DEF BucketAction
<1>3. CASE a = Act("evaluator", {"metric"}, "evaluator")
  <2>1. ResolvedBy("vertexai", "evaluator", {"metric"}) = a
    BY <1>3 DEF ResolvedBy, VertexResolve, VertexEvaluator, Has
  <2> QED
    BY <1>3, <2>1, ActParts DEF KeepsItsWord
<1> QED
  BY <1>1, <1>2, <1>3 DEF ListOf, VertexList

\* OpenAI: listing and resolving share _classify_model.
LEMMA OpenAIKept ==
  ASSUME AbsentIsNoAction, NEW names, NEW a \in ListOf("openai", names)
  PROVE  KeepsItsWord("openai", a)
<1>1. PICK n \in names : a = Act(IF OpenAIType(n) = "embedder" THEN "embedder" ELSE "model", n, OpenAIType(n))
  BY DEF ListOf, OpenAIList
<1>2. CASE OpenAIType(n) = "embedder"
  <2>1. /\ ResolvedBy("openai", "embedder", n) = Act("embedder", n, "embedder")
        /\ ResolvedBy("openai", "model", n) = Absent /\ ResolvedBy("openai", "background-model", n) = Absent
    BY <1>2 DEF ResolvedBy, OpenAIResolve
  <2> QED
    BY <1>1, <1>2, <2>1, EmbedderKept
<1>3. CASE OpenAIType(n) # "embedder"
  <2>1. ResolvedBy("openai", "model", n) = Act("model", n, OpenAIType(n))
    BY <1>3 DEF ResolvedBy, OpenAIResolve
  <2> QED
    BY <1>1, <1>3, <2>1, ModelKept
<1> QED
  BY <1>2, <1>3

\* Ollama: both kinds resolve for every name.
LEMMA OllamaKept ==
  ASSUME AbsentIsNoAction, NEW names, NEW a \in ListOf("ollama", names)
  PROVE  KeepsItsWord("ollama", a)
<1>1. PICK n \in names : a = (LET kind == IF Has(n, "embed") THEN "embedder" ELSE "model" IN Act(kind, n, kind))
  BY DEF ListOf, OllamaList
<1>2. \A kind \in {"model", "embedder"} : ResolvedBy("ollama", kind, n) = Act(kind, n, kind)
  BY DEF ResolvedBy, OllamaResolve
<1> QED
  BY <1>1, <1>2, ModelKept, EmbedderKept

\* Anthropic: every model name resolves.
LEMMA ClaudeKept ==
  ASSUME AbsentIsNoAction, NEW names, NEW a \in ClaudeList(names)
  PROVE  KeepsItsWord("anthropic", a)
<1>1. PICK n \in names : a = Act("model", n, "claude")
  BY DEF ClaudeList
<1>2. ResolvedBy("anthropic", "model", n) = Act("model", n, "claude")
  BY DEF ResolvedBy, AnthropicResolve
<1> QED
  BY <1>1, <1>2, ModelKept

\* Bedrock: what cannot be served is not listed.
LEMMA BedrockKept ==
  ASSUME AbsentIsNoAction, NEW names \in SUBSET NamesOf("bedrock"), NEW a \in ListOf("bedrock", names)
  PROVE  KeepsItsWord("bedrock", a)
<1>1. a \in BedrockList(names)
  BY DEF ListOf
<1>2. ASSUME NEW n \in names, ~HasAny(n, {"embed", "rerank"}), a = Act("model", n, DeclaredType(n))
      PROVE  KeepsItsWord("bedrock", a)
  <2>1. ResolvedBy("bedrock", "model", n) = Act("model", n, DeclaredType(n))
    BY <1>2 DEF ResolvedBy, BedrockResolve
  <2> QED
    BY <1>2, <2>1, ModelKept
<1>3. ASSUME NEW n \in names, Has(n, "embed"), a = Act("embedder", n, "embedder")
      PROVE  KeepsItsWord("bedrock", a)
  <2>1. HasAny(n, {"embed", "rerank"})
    BY <1>3, Marked
  <2>2. /\ ResolvedBy("bedrock", "embedder", n) = Act("embedder", n, "embedder")
        /\ ResolvedBy("bedrock", "model", n) = Absent /\ ResolvedBy("bedrock", "background-model", n) = Absent
    BY <1>3, <2>1 DEF ResolvedBy, BedrockResolve
  <2> QED
    BY <1>3, <2>2, EmbedderKept
<1> QED
  BY <1>1, <1>2, <1>3 DEF BedrockList

\* The plugins.
ShopNames == {"googleai", "vertexai", "openai", "ollama", "anthropic", "bedrock"}

\* Whatever a plugin lists of its provider's names resolves.
LEMMA EveryShopKeepsItsWord ==
  ASSUME AbsentIsNoAction, NEW s \in ShopNames, NEW names \in SUBSET NamesOf(s), NEW a \in ListOf(s, names)
  PROVE  KeepsItsWord(s, a)
<1>1. CASE s = "anthropic"
  <2>1. a \in ClaudeList(names \cup KnownClaude)
    BY <1>1 DEF ListOf
  <2> QED
    BY <1>1, <2>1, ClaudeKept
<1> QED
  BY <1>1, GoogleAIKept, VertexKept, OpenAIKept, OllamaKept, BedrockKept DEF ShopNames

\* Only names of the plugin's provider are listed; what is offered, and what is kept to be
\* offered again, resolves.
CatalogInv ==
  /\ shop \in ShopNames /\ remote \subseteq NamesOf(shop)
  /\ \A a \in listed : KeepsItsWord(shop, a)
  /\ kept # Absent => \A a \in kept : KeepsItsWord(shop, a)

\* Whatever the dev UI is offered exists: for any set of plugins and any number of changes
\* of their catalogues, what is advertised resolves to the same action, what generate runs
\* under a model's name is that model, background models have their check, and no embedder
\* generates (list_actions and resolve of the plugins in google.py, openai, ollama,
\* anthropic and bedrock), also when the listing is an old one.
THEOREM AdvertisedResolvesHolds ==
  ASSUME AbsentIsNoAction
  PROVE  CatalogSpec => []AdvertisedResolves
<1>1. CatalogInit => CatalogInv
  <2> SUFFICES ASSUME CatalogInit PROVE CatalogInv
    OBVIOUS
  <2>1. shop \in ShopNames
    BY CatalogConstants DEF CatalogInit, ShopNames
  <2>2. PICK n \in NamesOf(shop) : remote = {n}
    BY DEF CatalogInit
  <2> QED
    BY <2>1, <2>2 DEF CatalogInit, CatalogInv
<1>2. CatalogInv /\ [CatalogNext]_catalogVars => CatalogInv'
  <2> SUFFICES ASSUME CatalogInv, [CatalogNext]_catalogVars PROVE CatalogInv'
    OBVIOUS
  <2>1. ASSUME shop' = shop, remote' \subseteq NamesOf(shop),
               listed' = listed \/ \A a \in listed' : KeepsItsWord(shop, a),
               kept' = kept \/ kept' = Absent \/ \A a \in kept' : KeepsItsWord(shop, a)
        PROVE  CatalogInv'
    <3>1. \A a : KeepsItsWord(shop, a) => KeepsItsWord(shop, a)'
      BY <2>1 DEF KeepsItsWord
    <3> QED
      BY <2>1, <3>1 DEF CatalogInv
  <2>2. CASE UNCHANGED catalogVars
    BY <2>1, <2>2 DEF catalogVars, CatalogInv
  <2>3. CASE AddModel
    <3>1. PICK n \in NamesOf(shop) \ remote : remote' = remote \cup {n}
      BY <2>3 DEF AddModel
    <3> QED
      BY <2>1, <2>3, <3>1 DEF AddModel, CatalogInv
  <2>4. CASE ListActions
    <3>1. \A a \in ListOf(shop, remote) : KeepsItsWord(shop, a)
      BY EveryShopKeepsItsWord DEF CatalogInv
    <3>2. \A a \in listed' : KeepsItsWord(shop, a)
      BY <2>4, <3>1 DEF ListActions, CatalogInv
    <3> QED
      BY <2>1, <2>4, <3>2 DEF ListActions, CatalogInv
  <2>5. CASE ListFails
    <3>1. \A a \in ClaudeList(KnownClaude) : KeepsItsWord(shop, a)
      BY <2>5, ClaudeKept DEF ListFails
    <3> QED
      BY <2>1, <2>5, <3>1 DEF ListFails, CatalogInv
  <2> QED
    BY <2>2, <2>3, <2>4, <2>5 DEF CatalogNext
<1>3. CatalogInv => AdvertisedResolves
  BY DEF CatalogInv, AdvertisedResolves, KeepsItsWord
<1> QED
  BY <1>1, <1>2, <1>3, PTL DEF CatalogSpec

-----------------------------------------------------------------------------
(* Background jobs *)

Answered(op) == op \in Operations /\ op.action = request.name

\* A handle of a billed job, found again by its key; done, it tells how the job ended.
Truthful(op) ==
  /\ Answered(op) /\ job # "none" /\ Generates(request.shop, request.name) # Absent
  /\ op.done => job \in Endings /\ (op.output # op.error)

\* What the caller holds and what it stored are handles of a job that was billed.
JobInv ==
  /\ request \in Jobs
  /\ job \in {"none", "running"} \union Endings
  /\ ~returned => job = "none" /\ handle = Absent /\ saved = Absent
  /\ handle # Absent => Truthful(handle)
  /\ saved # Absent => Truthful(saved)
  /\ returned /\ job # "none" /\ request.entry = "generate" /\ ~LostBetweenHooks
       => handle # Absent /\ saved # Absent

\* The jobs are of names that no chat model of their shop answers to.
JobsAreNoChats == \A r \in Jobs : ResolvedBy(r.shop, "model", r.name) = Absent

\* A background model that generates is one whose jobs can be checked (resolve of the
\* Google plugins answers for the model and for its check from the same name).
LEMMA BackgroundIsChecked ==
  ASSUME JobsAreNoChats, NEW r \in Jobs, Generates(r.shop, r.name) # Absent
  PROVE  /\ ResolvedBy(r.shop, "background-model", r.name) # Absent
         /\ ResolvedBy(r.shop, "check-operation", r.name) # Absent
<1>1. ResolvedBy(r.shop, "background-model", r.name) # Absent
  BY DEF Generates, JobsAreNoChats
<1>2. CASE r.shop = "googleai"
  BY <1>1, <1>2, JobConstants DEF ResolvedBy, GoogleAIResolve
<1>3. CASE r.shop = "vertexai"
  BY <1>1, <1>3, JobConstants DEF ResolvedBy, VertexResolve
<1>4. CASE r.shop \notin {"googleai", "vertexai"}
  BY <1>1, <1>4 DEF ResolvedBy, OpenAIResolve, OllamaResolve, AnthropicResolve, BedrockResolve
<1> QED
  BY <1>1, <1>2, <1>3, <1>4

\* Only Deep Research can be cancelled, and its provider knows of a cancelled job.
LEMMA CancelledIsAnEnding ==
  ASSUME ResolvedBy(request.shop, "cancel-operation", request.name) # Absent
  PROVE  "cancelled" \in Endings
<1>1. CASE request.shop = "googleai"
  BY <1>1 DEF ResolvedBy, GoogleAIResolve, Endings, Research
<1>2. CASE request.shop = "vertexai"
  BY <1>2 DEF ResolvedBy, VertexResolve
<1>3. CASE request.shop \notin {"googleai", "vertexai"}
  BY <1>3 DEF ResolvedBy, OpenAIResolve, OllamaResolve, AnthropicResolve, BedrockResolve
<1> QED
  BY <1>1, <1>2, <1>3

\* A poll reports whether the job ended, and of one that ended an output or an error.
LEMMA PollTellsTheJob ==
  ASSUME request \in Jobs, NEW status \in {"running"} \union Endings
  PROVE  /\ Answered(Polled(status)) /\ Polled(status) # Absent
         /\ Polled(status).done => status \in Endings /\ (Polled(status).output # Polled(status).error)
         /\ status = "running" => ~Polled(status).done
<1> DEFINE op == Polled(status)
<1>1. /\ op = [action |-> request.name, done |-> op.done, output |-> op.output, error |-> op.error]
      /\ op.done \in BOOLEAN /\ op.output \in BOOLEAN /\ op.error \in BOOLEAN
  <2> DEFINE said == IF Research THEN FromInteraction(status) ELSE FromVeo(status)
  <2>1. said \in [action : {Absent}, done : BOOLEAN, output : BOOLEAN, error : BOOLEAN]
    BY DEF FromInteraction, FromVeo, Op
  <2>2. op = [said EXCEPT !.action = request.name]
    BY DEF Polled, Stamped
  <2> HIDE DEF said, op
  <2> QED
    BY <2>1, <2>2
<1>3. op.done <=> status # "running"
  BY DEF Polled, Stamped, FromInteraction, FromVeo, Op
<1>4. ASSUME status \in Endings PROVE op.output <=> ~op.error
  <2>1. CASE Research
    <3>1. /\ op.output <=> status \in {"completed", "completed_empty", "incomplete", "cancelled"}
          /\ op.error <=> status \in {"incomplete_empty", "failed", "requires_action", "unheard_of"}
      BY <2>1 DEF Polled, Stamped, FromInteraction, Op
    <3> QED
      BY <1>4, <2>1, <3>1 DEF Endings
  <2>2. CASE ~Research
    <3>1. /\ op.output <=> status = "videos"
          /\ op.error <=> status \in {"error", "filtered", "no_media"}
      BY <2>2 DEF Polled, Stamped, FromVeo, Op
    <3> QED
      BY <1>4, <2>2, <3>1 DEF Endings
  <2> QED
    BY <2>1, <2>2
<1>2. op \in Operations /\ op.action = request.name
  BY <1>1 DEF Operations
<1> QED
  BY <1>1, <1>2, <1>3, <1>4, JobConstants DEF Answered

\* Whatever the hooks do, the handle that comes back is the ticket, perhaps with an
\* error; none comes back only when an inner hook drops it and an outer one raises.
LEMMA HooksKeepTicket ==
  ASSUME NEW ticket \in Operations, NEW answer, answer = GenerateAnswer(ticket)
  PROVE  /\ answer.ticket \in {Absent, ticket, [ticket EXCEPT !.error = TRUE]}
         /\ ~LostBetweenHooks => answer.ticket # Absent
<1> DEFINE boxed == [ticket EXCEPT !.error = TRUE]
           turn == TurnAnswer(ticket)
           inner == Hooked(request.inner, turn)
           outer == Hooked(request.outer, inner)
<1>1. ticket # Absent /\ boxed # Absent /\ boxed \in Operations /\ [boxed EXCEPT !.error = TRUE] = boxed
  BY JobConstants DEF Operations
<1>2. \A tk \in {ticket, boxed} : Boxed(tk) = Response(boxed, TRUE)
  BY <1>1 DEF Boxed
<1>3. \E b \in BOOLEAN : turn \in {Response(ticket, b), Response(boxed, b)}
  BY <1>1, <1>2 DEF TurnAnswer, Hooked, KeepTicket, Raised, Response
<1>4. turn # Raised /\ turn.ticket \in {ticket, boxed}
  BY <1>1, <1>3 DEF Raised, Response
<1> HIDE DEF turn, boxed
<1>5. inner \in {Raised, Response(Absent, FALSE), turn} /\ (inner.ticket = Absent => inner = Raised \/ request.inner = "drop")
  BY <1>1, <1>4 DEF Hooked, Raised, Response
<1> HIDE DEF inner
<1>6. /\ outer \in {Raised, Response(Absent, FALSE), inner}
      /\ outer = Raised => inner = Raised \/ request.outer = "raise"
  BY DEF Hooked, Raised, Response
<1> HIDE DEF outer
<1>7. answer = LET last == IF inner = Raised THEN turn ELSE inner
               IN IF outer = Raised THEN Boxed(last.ticket) ELSE KeepTicket(ticket, outer)
  BY DEF GenerateAnswer, turn, inner, outer
<1>8. CASE outer # Raised
  <2>1. answer = KeepTicket(ticket, outer) /\ outer.ticket \in {Absent, ticket, boxed}
    BY <1>4, <1>5, <1>6, <1>7, <1>8 DEF Response
  <2> QED
    BY <1>1, <1>2, <2>1 DEF KeepTicket, Response, boxed
<1>9. CASE outer = Raised /\ inner = Raised
  <2>1. answer = Response(boxed, TRUE)
    BY <1>2, <1>4, <1>7, <1>9
  <2> QED
    BY <1>1, <2>1 DEF Response, boxed
<1>10. CASE outer = Raised /\ inner # Raised
  <2>1. answer = Boxed(inner.ticket) /\ request.outer = "raise"
    BY <1>6, <1>7, <1>10
  <2>2. CASE inner.ticket = Absent
    BY <1>5, <1>10, <2>1, <2>2 DEF LostBetweenHooks, Boxed, Response
  <2>3. CASE inner.ticket # Absent
    <3>1. inner.ticket \in {ticket, boxed}
      BY <1>4, <1>5, <1>10, <2>3 DEF Response
    <3>2. answer = Response(boxed, TRUE)
      BY <1>2, <2>1, <3>1
    <3> QED
      BY <1>1, <3>2 DEF Response, boxed
  <2> QED
    BY <2>2, <2>3
<1> QED
  BY <1>8, <1>9, <1>10

\* Before the job is started the caller holds no handle.
LEMMA InitJobInv == JobsInit => JobInv
BY DEF JobsInit, JobInv

\* Starting a job: the caller gets its handle, unless the hooks lose it between them.
LEMMA StartKeeps == ASSUME JobInv, StartJob PROVE JobInv'
<1>1. /\ request' = request /\ returned' = TRUE /\ saved' = handle'
      /\ Generates(request.shop, request.name) # Absent /\ request \in Jobs
  BY DEF StartJob, JobInv
<1>2. CASE job' = "none" /\ handle' = Absent
  BY <1>1, <1>2 DEF JobInv
<1>3. CASE job' = "running" /\ handle' = Handed(GenerateAnswer(Polled("running")))
  <2> DEFINE ticket == Polled("running")
             answer == GenerateAnswer(ticket)
  <2>1. Answered(ticket) /\ ~ticket.done
    BY <1>1, PollTellsTheJob
  <2> HIDE DEF ticket
  <2>2. /\ answer.ticket \in {Absent, ticket, [ticket EXCEPT !.error = TRUE]}
        /\ ~LostBetweenHooks => answer.ticket # Absent
    BY <2>1, HooksKeepTicket DEF Answered
  <2> HIDE DEF answer
  <2>3. handle' = Handed(answer)
    BY <1>3 DEF answer, ticket
  <2>4. /\ handle' \in {Absent, ticket, [ticket EXCEPT !.error = TRUE]}
        /\ request.entry = "generate" /\ ~LostBetweenHooks => handle' # Absent
    BY <2>2, <2>3 DEF Handed
  <2>5. handle' # Absent => handle' \in Operations /\ handle'.action = request.name /\ ~handle'.done
    BY <2>1, <2>4 DEF Answered, Operations
  <2>6. handle' # Absent => Truthful(handle)'
    BY <1>1, <1>3, <2>5 DEF Truthful, Answered, Operations
  <2> QED
    BY <1>1, <1>3, <2>4, <2>6 DEF JobInv, LostBetweenHooks
<1> QED
  BY <1>2, <1>3 DEF StartJob

\* The steps after it: polls, a cancel, the end of the job, restarts.
LEMMA LaterStepsKeep ==
  ASSUME JobInv, JobEnds \/ Poll \/ PollFails \/ Cancel \/ Restart
  PROVE  JobInv'
<1>1. /\ request' = request /\ request \in Jobs /\ returned' = returned /\ saved' = saved
      /\ Endings' = Endings /\ (LostBetweenHooks' <=> LostBetweenHooks)
  BY DEF JobEnds, Poll, PollFails, Cancel, Restart, JobInv, Endings, Research, LostBetweenHooks
<1>0. ASSUME NEW op, Truthful(op), job' = job \/ (job = "running" /\ job' \in Endings)
      PROVE  Truthful(op)'
  BY <1>0, <1>1 DEF Truthful, Answered, Operations, Endings
<1>2. "running" \notin Endings /\ "none" \notin Endings
  BY DEF Endings
<1>3. CASE JobEnds
  BY <1>0, <1>1, <1>2, <1>3 DEF JobEnds, JobInv
<1>4. CASE Poll
  <2>1. job' = job /\ handle # Absent /\ handle' = Polled(job) /\ job \in {"running"} \union Endings /\ returned
    BY <1>4 DEF Poll, JobInv, Truthful
  <2>2. Answered(handle') /\ handle' # Absent /\ (handle'.done => job \in Endings /\ (handle'.output # handle'.error))
    BY <1>1, <2>1, PollTellsTheJob
  <2>3. Truthful(handle)'
    BY <1>1, <2>1, <2>2 DEF Truthful, Answered, Operations, JobInv
  <2> QED
    BY <1>0, <1>1, <2>1, <2>2, <2>3 DEF JobInv
<1>5. CASE PollFails
  BY <1>0, <1>1, <1>5 DEF PollFails, JobInv
<1>6. CASE Cancel
  <2>1. /\ handle # Absent /\ handle' = Polled(job') /\ returned
        /\ job \in {"running"} \union Endings
        /\ job' = job \/ (job = "running" /\ job' = "cancelled" /\ "cancelled" \in Endings)
    <3>1. handle.action = request.name
      BY <1>6 DEF Cancel, JobInv, Truthful, Answered
    <3> QED
      BY <1>6, <3>1, CancelledIsAnEnding DEF Cancel, JobInv, Truthful
  <2>2. job' \in {"running"} \union Endings
    BY <2>1
  <2>3. Answered(handle') /\ handle' # Absent /\ (handle'.done => job' \in Endings /\ (handle'.output # handle'.error))
    BY <1>1, <2>1, <2>2, PollTellsTheJob
  <2>4. Truthful(handle)' /\ (saved # Absent => Truthful(saved)')
    BY <1>0, <1>1, <2>1, <2>3 DEF Truthful, Answered, Operations, JobInv
  <2> QED
    BY <1>1, <1>2, <2>1, <2>2, <2>3, <2>4 DEF JobInv
<1>7. CASE Restart
  BY <1>0, <1>1, <1>7 DEF Restart, JobInv
<1> QED
  BY <1>3, <1>4, <1>5, <1>6, <1>7

\* A started job stays in reach and is told truthfully, whatever the plugin, the hooks and
\* the entry, and however often polls fail and the process restarts; its handle is lost
\* only between an inner generate hook that drops it and an outer one that raises.
THEOREM JobsAreAccountedHolds == ASSUME JobsAreNoChats PROVE JobsSpec => []JobsAreAccounted
<1>1. JobInv /\ [JobsNext]_jobVars => JobInv'
  <2>1. ASSUME JobInv, UNCHANGED jobVars PROVE JobInv'
    <3>1. \A op : Truthful(op) => Truthful(op)'
      BY <2>1 DEF jobVars, Truthful, Answered, Operations, Endings, Research
    <3> QED
      BY <2>1, <3>1 DEF JobInv, jobVars, Endings, Research, LostBetweenHooks
  <2> QED
    BY <2>1, StartKeeps, LaterStepsKeep DEF JobsNext
<1>2. JobInv => JobsAreAccounted
  <2> SUFFICES ASSUME JobInv PROVE JobsAreAccounted
    OBVIOUS
  <2>1. ASSUME NEW op \in {handle, saved} \ {Absent} PROVE Found(op)
    <3>1. op.action = request.name /\ request \in Jobs /\ Generates(request.shop, request.name) # Absent
      BY <2>1 DEF JobInv, Truthful, Answered
    <3>2. request.name # Absent
      BY <3>1, JobConstants
    <3> QED
      BY <3>1, <3>2, BackgroundIsChecked DEF Found
  <2> QED
    BY <2>1 DEF JobInv, Truthful, JobsAreAccounted, NoJobOrphaned, Started
<1> QED
  BY <1>1, <1>2, InitJobInv, PTL DEF JobsSpec

-----------------------------------------------------------------------------
(* A call of an SDK on threads *)

TransportTypes ==
  /\ caller \in {"start", "opening", "reading", "yielded", "ended"}
  /\ worker.at \in {"idle", "opening", "next"} /\ worker = [at |-> worker.at, brought |-> worker.brought]
  /\ stream = [is |-> stream.is, left |-> stream.left]
  /\ late \in [passed : BOOLEAN, close : BOOLEAN]

\* An open stream is always somebody's: of the opening call, that has it in hand; of the
\* caller that reads it; or of the task that closes what was opened for nobody.
TransportInv ==
  /\ TransportTypes
  /\ stream.is = "open" => caller # "start" /\ (caller = "ended" => late.close)
  /\ worker.at = "opening" => stream.is # "open" /\ caller \in {"opening", "ended"}
                              /\ (caller = "ended" => late.close)
  /\ caller = "opening" => worker.at # "next"
  /\ caller = "opening" /\ worker.at = "idle" /\ worker.brought # "response" => stream.is # "open"
  /\ late.close => caller = "ended" /\ worker.at # "next"
  /\ client.built = 1 => client.config = Config

\* Before the call nothing is open.
LEMMA InitTransportInv == TransportInit => TransportInv
BY DEF TransportInit, TransportInv, TransportTypes

\* Every step of the call, its worker, its deadline and its consumer.
LEMMA TransportStepsKeep == ASSUME TransportInv, TransportNext PROVE TransportInv'
<1>1. Config' = Config /\ setting' = setting
  <2>1. setting' = setting
    BY DEF TransportNext, TransportSystem, BeginCall, WorkerOpens, GotResponse, CloseAbandoned,
           AskNext, Yield, WorkerBrings, StreamEnds, WantsNext, DeadlinePasses, TimesOut,
           GiveUpOpening, GiveUpReading
  <2> QED
    BY <2>1 DEF Config, Effective, RetrySent, First
<1> USE DEF TransportInv, TransportTypes
<1>2. CASE BeginCall
  BY <1>1, <1>2 DEF BeginCall
<1>3. CASE WorkerOpens
  <2>1. client'.built = 1 => client'.config = Config'
    BY <1>1, <1>3 DEF WorkerOpens
  <2> QED
    BY <1>3, <2>1 DEF WorkerOpens
<1>4. CASE GotResponse
  BY <1>1, <1>4 DEF GotResponse
<1>5. CASE CloseAbandoned
  BY <1>1, <1>5 DEF CloseAbandoned
<1>6. CASE AskNext
  BY <1>1, <1>6 DEF AskNext
<1>7. CASE WorkerBrings
  BY <1>1, <1>7 DEF WorkerBrings
<1>8. CASE Yield \/ StreamEnds \/ WantsNext
  BY <1>1, <1>8 DEF Yield, StreamEnds, WantsNext, Closed
<1>9. CASE GiveUpOpening
  BY <1>1, <1>9 DEF GiveUpOpening
<1>10. CASE GiveUpReading
  BY <1>1, <1>10 DEF GiveUpReading, Closed
<1>11. CASE DeadlinePasses
  BY <1>1, <1>11 DEF DeadlinePasses
<1> QED
  BY <1>2, <1>3, <1>4, <1>5, <1>6, <1>7, <1>8, <1>9, <1>10, <1>11
     DEF TransportNext, TransportSystem, TimesOut

\* However a call ends (cancelled, overdue, closed by its consumer, failed), the stream a
\* worker opened for it is closed, and the client is configured by the nearest of those
\* who said something: for any settings, any length of stream and any interleaving of the
\* caller with its worker (converse_stream and _close_abandoned_stream in transport.py).
THEOREM CallsLeaveNothingHolds == TransportSpec => []CallsLeaveNothing
<1>1. TransportInv /\ [TransportNext]_transportVars => TransportInv'
  <2>1. ASSUME TransportInv, UNCHANGED transportVars PROVE TransportInv'
    BY <2>1 DEF TransportInv, TransportTypes, transportVars, Config, Effective, RetrySent, First
  <2> QED
    BY <2>1, TransportStepsKeep
<1>2. TransportInv => CallsLeaveNothing
  <2> SUFFICES ASSUME TransportInv PROVE CallsLeaveNothing
    OBVIOUS
  <2>1. NoStreamLeaks
    BY DEF TransportInv, TransportTypes, NoStreamLeaks
  <2>2. ASSUME client.built = 1, NEW k \in Keys \ {"region"}
        PROVE  client.config[k] = Effective(k)
    BY <2>2 DEF TransportInv, Config
  <2>3. CallersSettingWins
    BY <2>2 DEF CallersSettingWins, Effective, RetrySent, First, Keys, RetryKeys, Unset
  <2> QED
    BY <2>1, <2>3 DEF CallsLeaveNothing
<1> QED
  BY <1>1, <1>2, InitTransportInv, PTL DEF TransportSpec

-----------------------------------------------------------------------------
(* The reflection session with the dev UI.  A frame waits at the write lock,   *)
(* is handed to the websocket, and its sender is told.  The invariant relates  *)
(* three orders: that of the queue, that of the wire, and how far the run's    *)
(* own task has come.  Three kinds of step remain to be looked at: those that  *)
(* only take frames of one run away, those that queue one, and the write.      *)

\* What is sent of a run, what waits and what was carried of it, and where its task is.
FrameKinds == {"chunk", "state", "response", "error", "internal"}
QueuedFrames == [id : Runs, kind : FrameKinds, n : Nat, written : BOOLEAN]
CarriedFrames == [conn : Nat, kind : FrameKinds, n : Nat]
RunPlaces == {"none", "resolving", "tracing", "running", "unwinding", "draining", "flushing", "responding",
           "failing", "reporting", "internal", "closing", "ended"}
RunTasks == [pc : RunPlaces, conn : Nat, chunks : Nat, inputs : Nat]

ReflTypes ==
  /\ conn \in Nat /\ ws \in BOOLEAN /\ timeouts \in Nat
  /\ outbox \in Seq(QueuedFrames)
  /\ wire \in [Runs -> Seq(CarriedFrames)]
  /\ run \in [Runs -> RunTasks]
  /\ active \subseteq Runs /\ streams \subseteq Runs /\ claimed \subseteq Runs

\* Where a run is while one of its frames waits.
WaitsAt(f) ==
  CASE f.kind = "chunk" -> {"running", "unwinding", "draining", "failing"}
    [] f.kind = "state" -> {"tracing"}
    [] f.kind = "response" -> {"responding"}
    [] f.kind = "error" -> {"reporting"}
    [] OTHER -> {"closing"}

\* Two frames of one run, in this order.
Behind(f, g) == f.id = g.id => f.kind = "chunk" /\ g.kind = "chunk" /\ f.n < g.n

\* A frame waits where its run waits for it; only the holder of the lock has written;
\* of one run, none but chunks wait together, in the order they were emitted.
SendersInv ==
  /\ \A k \in 1..Len(outbox) : run[outbox[k].id].pc \in WaitsAt(outbox[k]) /\ (outbox[k].written => k = 1)
  /\ \A j, k \in 1..Len(outbox) : j < k => Behind(outbox[j], outbox[k])

\* A frame that waits, by what the wire has carried of its run.
FrameInv(f, carried, chunks) ==
  /\ f.kind = "chunk" => /\ f.n \in 1..chunks
                         /\ ~f.written => \A p \in 1..Len(carried) : carried[p].kind = "chunk" =>
                              carried[p].n < f.n
  /\ f.written => \E p \in 1..Len(carried) : carried[p].kind = f.kind /\ carried[p].n = f.n

\* The queue and the wire: a written frame was carried, another chunk is newer than any
\* the wire has of its run.
FramesInv == \A k \in 1..Len(outbox) : FrameInv(outbox[k], wire[outbox[k].id], run[outbox[k].id].chunks)

\* The wire has the chunks of a run in order, each at most once.
WireInv ==
  \A i \in Runs :
    /\ \A p \in 1..Len(wire[i]) : /\ wire[i][p].conn <= conn
                                  /\ wire[i][p].kind = "chunk" => wire[i][p].n \in 1..run[i].chunks
    /\ \A p, q \in 1..Len(wire[i]) :
         p < q /\ wire[i][p].kind = "chunk" /\ wire[i][q].kind = "chunk" => wire[i][p].n < wire[i][q].n

\* The places of a run from its answer on; the runs whose answer may be lost or doubled;
\* the answer was handed to the websocket, its sender not yet told.
Answering == {"responding", "failing", "reporting", "internal", "closing", "ended"}
Excused(i) == i \in claimed \/ timeouts > 0
AnswerInHand(i) == outbox # <<>> /\ outbox[1].id = i /\ outbox[1].written /\ Answer(outbox[1])
NoChunks(i) == \A k \in 1..Len(outbox) : outbox[k].id = i => outbox[k].kind # "chunk"

\* Behind an answer no chunk comes, and on its connection nothing but the second answer of
\* an excused run.  A run that is not excused and was answered is told so or at its end.
AnswerInv ==
  \A i \in Runs : \A p \in 1..Len(wire[i]) : Answer(wire[i][p]) =>
    /\ run[i].pc \in Answering /\ NoChunks(i)
    /\ \A q \in 1..Len(wire[i]) : p < q /\ wire[i][p].conn = wire[i][q].conn => Answer(wire[i][q]) /\ Excused(i)
    /\ ws /\ wire[i][p].conn = conn => Excused(i) \/ run[i].pc = "ended" \/ AnswerInHand(i)

\* A run whose connection lives, uncancelled, with no write lost.
Undisturbed(i) == ws /\ conn = run[i].conn /\ ~Excused(i)
ChunkCarried(i, n) == \E p \in 1..Len(wire[i]) : wire[i][p].kind = "chunk" /\ wire[i][p].n = n
ChunkWaits(i, n) == \E k \in 1..Len(outbox) : outbox[k].id = i /\ outbox[k].kind = "chunk" /\ outbox[k].n = n

\* One run: where it is known, and that, undisturbed, its chunks wait or were carried, and
\* it does not end unanswered.
OneRun(i) ==
  /\ run[i].conn <= conn
  /\ run[i].pc = "none" => run[i].chunks = 0
  /\ i \in active \cup streams => Live(i)
  /\ i \in Agents /\ run[i].pc \in {"tracing", "running"} /\ ws /\ conn = run[i].conn => i \in streams
  /\ ~ws /\ run[i].pc = "resolving" => i \in doomed
  /\ run[i].pc # "none" /\ Undisturbed(i) =>
       /\ run[i].pc \notin {"internal", "closing"}
       /\ run[i].pc = "ended" => \E p \in 1..Len(wire[i]) : Answer(wire[i][p])
       /\ \A n \in 1..run[i].chunks : ChunkCarried(i, n) \/ ChunkWaits(i, n)

\* While there is a connection only a cancel dooms a task; without one no stream is known.
RunInv ==
  /\ ws => doomed \subseteq claimed
  /\ ~ws => streams = {}
  /\ \A i \in Runs : OneRun(i)

ReflInv == ReflTypes /\ SendersInv /\ FramesInv /\ WireInv /\ AnswerInv /\ RunInv

\* t is s without some of its elements.
ThinnedTo(s, t) ==
  /\ \A k \in 1..Len(t) : \E a \in 1..Len(s) : t[k] = s[a] /\ (a = 1 => k = 1)
  /\ \A j, k \in 1..Len(t) : j < k => \E a, b \in 1..Len(s) : a < b /\ t[j] = s[a] /\ t[k] = s[b]

\* The senders at some places keep their order, and whoever was at the head and stays is
\* still at the head.
LEMMA SendersLeft ==
  ASSUME outbox \in Seq(QueuedFrames), NEW places \in SUBSET (1..Len(outbox))
  PROVE  LET t == Senders(places)
         IN  /\ t \in Seq(QueuedFrames) /\ ThinnedTo(outbox, t)
             /\ \A k \in places : \E j \in 1..Len(t) : t[j] = outbox[k]
             /\ \A j \in 1..Len(t) : \E k \in places : t[j] = outbox[k]
             /\ 1 \in places => t # <<>> /\ t[1] = outbox[1]
<1> DEFINE N == Cardinality(places)
           below(k) == {m \in places : m <= k}
           Nth(k) == Cardinality(below(k))
           f == [j \in 1..N |-> CHOOSE k \in places : Nth(k) = j]
           t == [j \in 1..N |-> outbox[CHOOSE k \in places : Nth(k) = j]]
<1>1. Len(outbox) \in Nat /\ \A k \in places : k \in Nat /\ k > 0 /\ outbox[k] \in QueuedFrames
  OBVIOUS
<1>2. IsFiniteSet(places) /\ N \in Nat
  <2>1. IsFiniteSet(1..Len(outbox))
    BY <1>1, FS_Interval
  <2>2. IsFiniteSet(places)
    BY <2>1, FS_Subset
  <2> QED
    BY <2>2, FS_CardinalityType
<1>3. ASSUME NEW k \in places
      PROVE  IsFiniteSet(below(k)) /\ Nth(k) \in 1..N /\ k \in below(k)
  <2>1. below(k) \subseteq places /\ k \in below(k)
    BY <1>1
  <2>2. IsFiniteSet(below(k)) /\ Nth(k) \in Nat /\ Nth(k) <= N
    BY <1>2, <2>1, FS_Subset, FS_CardinalityType
  <2>3. Nth(k) # 0
    BY <2>1, <2>2, FS_EmptySet
  <2> QED
    BY <1>2, <2>1, <2>2, <2>3
<1>4. ASSUME NEW j \in places, NEW k \in places, j < k PROVE Nth(j) < Nth(k)
  <2>0. j \in Nat /\ k \in Nat /\ \A m \in places : m \in Nat
    BY <1>1
  <2>1. below(j) \subseteq below(k) /\ k \notin below(j) /\ k \in below(k)
    <3>1. below(j) \subseteq below(k)
      <4>1. \A m \in places : m <= j => m <= k
        BY <1>4, <2>0
      <4> QED
        BY <4>1
    <3>2. ~(k <= j) /\ k <= k
      BY <1>4, <2>0
    <3> QED
      BY <3>1, <3>2
  <2>2. IsFiniteSet(below(k)) /\ IsFiniteSet(below(j)) /\ Nth(j) \in Nat /\ Nth(k) \in Nat
    BY <1>3, FS_CardinalityType
  <2>3. /\ Cardinality(below(j)) <= Cardinality(below(k))
        /\ (Cardinality(below(j)) = Cardinality(below(k)) => below(j) = below(k))
    BY <2>1, <2>2, FS_Subset
  <2> QED
    BY <2>1, <2>2, <2>3
<1>a. \A k \in places : Nth(k) \in Nat /\ Nth(k) \in 1..N
  BY <1>2, <1>3, FS_CardinalityType
<1> HIDE DEF N, Nth
<1>5. ASSUME NEW n \in 1..N PROVE \E k \in places : Nth(k) = n
  <2> DEFINE g == [k \in places |-> Nth(k)]
  <2>1. g \in [places -> 1..N]
    BY <1>3
  <2>2. \A j, k \in places : g[j] = g[k] => j = k
    <3> SUFFICES ASSUME NEW j \in places, NEW k \in places, j # k PROVE Nth(j) # Nth(k)
      OBVIOUS
    <3>1. j < k \/ k < j
      BY <1>1
    <3>2. Nth(j) \in Nat /\ Nth(k) \in Nat
      BY <1>a
    <3> QED
      BY <1>4, <3>1, <3>2
  <2>3. g \in Injection(places, 1..N)
    BY <2>1, <2>2 DEF Injection, IsInjective
  <2>4. IsFiniteSet(1..N) /\ Cardinality(1..N) = N
    BY <1>2, FS_Interval
  <2>5. g \in Surjection(places, 1..N)
    BY <2>3, <2>4, FS_Injection DEF N
  <2> QED
    BY <2>5 DEF Surjection
<1>6. \A j \in 1..N : f[j] \in places /\ Nth(f[j]) = j
  BY <1>5
<1>7. t = [j \in 1..N |-> outbox[f[j]]] /\ t = Senders(places)
  BY DEF Senders, N, Nth
<1> HIDE DEF f, t
<1>8. t \in Seq(QueuedFrames) /\ Len(t) = N /\ \A j \in 1..N : t[j] = outbox[f[j]]
  <2>1. \A j \in 1..N : outbox[f[j]] \in QueuedFrames
    BY <1>1, <1>6
  <2> QED
    BY <1>2, <1>7, <2>1
<1>9. \A j, k \in 1..N : j < k => f[j] < f[k]
  <2> SUFFICES ASSUME NEW j \in 1..N, NEW k \in 1..N, j < k, ~(f[j] < f[k]) PROVE FALSE
    OBVIOUS
  <2>1. f[j] \in Nat /\ f[k] \in Nat /\ f[j] \in places /\ f[k] \in places /\ Nth(f[j]) = j /\ Nth(f[k]) = k
    BY <1>1, <1>6
  <2>2. CASE f[j] = f[k]
    BY <1>2, <2>1, <2>2
  <2>3. CASE f[k] < f[j]
    <3>1. Nth(f[k]) < Nth(f[j])
      BY <1>4, <2>1, <2>3
    <3> QED
      BY <1>2, <2>1, <3>1
  <2> QED
    BY <2>1, <2>2, <2>3
<1>10. ASSUME NEW k \in places PROVE f[Nth(k)] = k /\ Nth(k) \in 1..N
  <2>1. Nth(k) \in 1..N /\ f[Nth(k)] \in places /\ Nth(f[Nth(k)]) = Nth(k)
    BY <1>a, <1>6
  <2> DEFINE m == f[Nth(k)]
  <2>2. m \in places /\ Nth(m) = Nth(k) /\ Nth(k) \in Nat
    BY <1>a, <2>1
  <2> HIDE DEF m
  <2>3. m \in Nat /\ k \in Nat
    BY <1>1, <2>2
  <2>4. ~(m < k) /\ ~(k < m)
    BY <1>4, <2>2
  <2> QED
    BY <2>1, <2>3, <2>4 DEF m
<1>11. ASSUME NEW k \in 1..N, f[k] = 1 PROVE k = 1
  <2>1. CASE 1 < k
    <3>1. 1 \in 1..N
      BY <1>2, <2>1
    <3>2. f[1] < f[k] /\ f[1] \in places
      BY <1>6, <1>9, <2>1, <3>1
    <3>3. f[1] \in Nat /\ f[1] > 0 /\ f[1] < 1
      BY <1>1, <1>11, <3>2
    <3> QED
      BY <3>3
  <2> QED
    BY <1>2, <2>1
<1>b. \A k \in places : k \in 1..Len(outbox)
  OBVIOUS
<1>12. ThinnedTo(outbox, t)
  <2>1. ASSUME NEW k \in 1..Len(t) PROVE \E a \in 1..Len(outbox) : t[k] = outbox[a] /\ (a = 1 => k = 1)
    BY <1>b, <1>6, <1>8, <1>11
  <2>2. ASSUME NEW j \in 1..Len(t), NEW k \in 1..Len(t), j < k
        PROVE  \E a, b \in 1..Len(outbox) : a < b /\ t[j] = outbox[a] /\ t[k] = outbox[b]
    BY <1>b, <1>6, <1>8, <1>9, <2>2
  <2> QED
    BY <2>1, <2>2 DEF ThinnedTo
<1>13. ASSUME NEW k \in places PROVE \E j \in 1..Len(t) : t[j] = outbox[k]
  BY <1>8, <1>10
<1>14. ASSUME NEW j \in 1..Len(t) PROVE \E k \in places : t[j] = outbox[k]
  BY <1>6, <1>8
<1>15. ASSUME 1 \in places PROVE t # <<>> /\ t[1] = outbox[1]
  <2>1. Nth(1) \in 1..N /\ f[Nth(1)] = 1
    BY <1>10, <1>15
  <2>2. Nth(1) = 1
    BY <1>11, <2>1
  <2> QED
    BY <1>8, <2>1, <2>2
<1>c. Senders(places) = t
  BY <1>7
<1>d. /\ t \in Seq(QueuedFrames) /\ ThinnedTo(outbox, t) /\ (1 \in places => t # <<>> /\ t[1] = outbox[1])
      /\ \A k \in places : \E j \in 1..Len(t) : t[j] = outbox[k]
      /\ \A j \in 1..Len(t) : \E k \in places : t[j] = outbox[k]
  BY <1>8, <1>12, <1>13, <1>14, <1>15
<1> QED
  BY <1>c, <1>d, Zenon

\* A queue is one that nobody left.
LEMMA SameThinned == ASSUME NEW s \in Seq(QueuedFrames) PROVE ThinnedTo(s, s)
BY DEF ThinnedTo

\* The head leaves a queue; the others move up.
LEMMA TailThinned ==
  ASSUME NEW s \in Seq(QueuedFrames), s # <<>>
  PROVE  /\ Tail(s) \in Seq(QueuedFrames) /\ ThinnedTo(s, Tail(s)) /\ Len(Tail(s)) = Len(s) - 1
         /\ Len(s) \in Nat /\ Len(s) > 0
         /\ \A k \in 1..Len(Tail(s)) : Tail(s)[k] = s[k + 1] /\ k + 1 \in 2..Len(s)
         /\ \A k \in 2..Len(s) : k - 1 \in 1..Len(Tail(s)) /\ Tail(s)[k - 1] = s[k]
<1> DEFINE t == Tail(s)
<1>1. /\ t \in Seq(QueuedFrames) /\ Len(t) = Len(s) - 1 /\ Len(s) \in Nat /\ Len(s) > 0
      /\ \A k \in 1..Len(t) : t[k] = s[k + 1]
  OBVIOUS
<1> HIDE DEF t
<1>2. \A k \in 1..Len(t) : k + 1 \in 2..Len(s) /\ k + 1 \in 1..Len(s)
  BY <1>1
<1>3. ASSUME NEW k \in 2..Len(s) PROVE k - 1 \in 1..Len(t) /\ t[k - 1] = s[k]
  <2>1. k - 1 \in 1..Len(t) /\ (k - 1) + 1 = k
    BY <1>1
  <2> QED
    BY <1>1, <2>1
<1>4. ASSUME NEW k \in 1..Len(t) PROVE \E a \in 1..Len(s) : t[k] = s[a] /\ (a = 1 => k = 1)
  <2>1. k + 1 \in 1..Len(s) /\ t[k] = s[k + 1] /\ k + 1 # 1
    BY <1>1, <1>2
  <2> QED
    BY <2>1
<1>5. ASSUME NEW j \in 1..Len(t), NEW k \in 1..Len(t), j < k
      PROVE  \E a, b \in 1..Len(s) : a < b /\ t[j] = s[a] /\ t[k] = s[b]
  <2>1. j + 1 \in 1..Len(s) /\ k + 1 \in 1..Len(s) /\ j + 1 < k + 1 /\ t[j] = s[j + 1] /\ t[k] = s[k + 1]
    BY <1>1, <1>2, <1>5
  <2> QED
    BY <2>1
<1> QED
  BY <1>1, <1>2, <1>3, <1>4, <1>5 DEF ThinnedTo, t

\* The kinds of frames, and the places where their runs wait.
LEMMA WhereFramesWait ==
  ASSUME NEW f \in QueuedFrames
  PROVE  /\ f.id \in Runs /\ f.kind \in FrameKinds /\ f.n \in Nat /\ f.written \in BOOLEAN
         /\ f.kind = "chunk" => WaitsAt(f) = {"running", "unwinding", "draining", "failing"}
         /\ f.kind = "state" => WaitsAt(f) = {"tracing"}
         /\ f.kind = "response" => WaitsAt(f) = {"responding"}
         /\ f.kind = "error" => WaitsAt(f) = {"reporting"}
         /\ f.kind = "internal" => WaitsAt(f) = {"closing"}
         /\ Answer(f) <=> f.kind \in {"response", "error", "internal"}
BY DEF QueuedFrames, FrameKinds, WaitsAt, Answer, AnswerKinds

\* What the types say of one sender, one frame carried, one run.
LEMMA ReflFacts ==
  ASSUME ReflTypes
  PROVE  /\ Len(outbox) \in Nat /\ \A k \in 1..Len(outbox) : outbox[k] \in QueuedFrames /\ outbox[k].id \in Runs
         /\ \A i \in Runs : /\ wire[i] \in Seq(CarriedFrames) /\ Len(wire[i]) \in Nat
                            /\ \A p \in 1..Len(wire[i]) : wire[i][p] \in CarriedFrames
                            /\ run[i] \in RunTasks /\ run[i].conn \in Nat /\ run[i].chunks \in Nat
<1>1. Len(outbox) \in Nat /\ \A k \in 1..Len(outbox) : outbox[k] \in QueuedFrames
  BY DEF ReflTypes
<1>2. ASSUME NEW i \in Runs
      PROVE  /\ wire[i] \in Seq(CarriedFrames) /\ Len(wire[i]) \in Nat
             /\ \A p \in 1..Len(wire[i]) : wire[i][p] \in CarriedFrames
  BY DEF ReflTypes
<1>3. ASSUME NEW i \in Runs PROVE run[i] \in RunTasks /\ run[i].conn \in Nat /\ run[i].chunks \in Nat
  BY DEF ReflTypes, RunTasks
<1>4. \A k \in 1..Len(outbox) : outbox[k].id \in Runs
  BY <1>1 DEF QueuedFrames
<1> QED
  BY <1>1, <1>2, <1>3, <1>4

\* A step of run i that only takes frames away.
TakesFrames(i) ==
  /\ UNCHANGED <<conn, ws, wire, claimed>> /\ timeouts' \in Nat /\ timeouts <= timeouts'
  /\ doomed' \subseteq doomed
  /\ doomed \subseteq doomed' \cup {i}
  /\ run' \in [Runs -> RunTasks] /\ \A j \in Runs \ {i} : run'[j] = run[j]
  /\ run'[i].conn = run[i].conn /\ run'[i].chunks = run[i].chunks
  /\ run[i].pc \notin {"none", "ended"} /\ run'[i].pc \notin {"none", "resolving"}
  /\ run[i].pc \in Answering => run'[i].pc \in Answering
  /\ outbox' \in Seq(QueuedFrames) /\ ThinnedTo(outbox, outbox')
  /\ \A k \in 1..Len(outbox') : outbox'[k].id = i => run'[i].pc \in WaitsAt(outbox'[k])
  /\ \A j \in Runs : ws /\ AnswerInHand(j) =>
       AnswerInHand(j)' \/ (j = i /\ (run'[i].pc = "ended" \/ i \in claimed \/ timeouts' > 0))
  /\ \A j \in Runs, n \in Nat : Undisturbed(j)' /\ ChunkWaits(j, n) => ChunkCarried(j, n) \/ ChunkWaits(j, n)'
  /\ active' \subseteq active /\ streams' \subseteq streams /\ streams \subseteq streams' \cup {i}
  /\ i \in active' \cup streams' => run'[i].pc # "ended"
  /\ run'[i].pc \in {"tracing", "running"} =>
       i \in streams' \/ (i \notin streams /\ run[i].pc \in {"tracing", "running"})
  /\ Undisturbed(i)' => /\ run'[i].pc \notin {"internal", "closing"}
                        /\ run'[i].pc = "ended" => \E p \in 1..Len(wire[i]) : Answer(wire[i][p])

\* A frame that is in order stays so while more chunks are emitted.
LEMMA FrameStays ==
  ASSUME NEW f, NEW carried, NEW c \in Nat, NEW d \in Nat, c <= d, FrameInv(f, carried, c)
  PROVE  FrameInv(f, carried, d)
<1>1. \A n \in 1..c : n \in 1..d
  OBVIOUS
<1> QED
  BY <1>1 DEF FrameInv

\* The frames after a step, one by one.
LEMMA FrameByFrame ==
  ASSUME \A k \in 1..Len(outbox') : FrameInv(outbox'[k], wire'[outbox'[k].id], run'[outbox'[k].id].chunks)
  PROVE  FramesInv'
BY DEF FramesInv, FrameInv

\* A step of one run that only takes frames away keeps the invariant.
LEMMA TakingKeeps == ASSUME ReflInv, NEW i \in Runs, TakesFrames(i) PROVE ReflInv'
<1> USE DEF TakesFrames
<1>1. ReflTypes'
  BY DEF ReflInv, ReflTypes
<1>2. /\ \A k \in 1..Len(outbox') : \E a \in 1..Len(outbox) : outbox'[k] = outbox[a] /\ (a = 1 => k = 1)
      /\ \A j, k \in 1..Len(outbox') : j < k =>
           \E a, b \in 1..Len(outbox) : a < b /\ outbox'[j] = outbox[a] /\ outbox'[k] = outbox[b]
  BY DEF ThinnedTo
<1>3. /\ \A k \in 1..Len(outbox) : run[outbox[k].id].pc \in WaitsAt(outbox[k]) /\ (outbox[k].written => k = 1)
      /\ \A j, k \in 1..Len(outbox) : j < k => Behind(outbox[j], outbox[k])
  BY DEF ReflInv, SendersInv
<1>4. \A j \in Runs : run'[j].chunks = run[j].chunks /\ run'[j].conn = run[j].conn
  OBVIOUS
<1>5. /\ \A k \in 1..Len(outbox) : outbox[k] \in QueuedFrames /\ outbox[k].id \in Runs
      /\ \A k \in 1..Len(outbox') : outbox'[k] \in QueuedFrames /\ outbox'[k].id \in Runs
  BY <1>2, ReflFacts DEF ReflInv
<1>6. SendersInv'
  <2>1. ASSUME NEW k \in 1..Len(outbox')
        PROVE  run'[outbox'[k].id].pc \in WaitsAt(outbox'[k]) /\ (outbox'[k].written => k = 1)
    <3>1. PICK a \in 1..Len(outbox) : outbox'[k] = outbox[a] /\ (a = 1 => k = 1)
      BY <1>2
    <3>2. CASE outbox'[k].id = i
      BY <1>3, <3>1, <3>2
    <3>3. CASE outbox'[k].id # i
      BY <1>3, <1>5, <3>1, <3>3
    <3> QED
      BY <3>2, <3>3
  <2>2. \A j, k \in 1..Len(outbox') : j < k => Behind(outbox'[j], outbox'[k])
    BY <1>2, <1>3
  <2> QED
    BY <2>1, <2>2 DEF SendersInv, WaitsAt, Behind
<1>7. FramesInv'
  <2>1. ASSUME NEW k \in 1..Len(outbox')
        PROVE  FrameInv(outbox'[k], wire'[outbox'[k].id], run'[outbox'[k].id].chunks)
    <3>1. PICK a \in 1..Len(outbox) : outbox'[k] = outbox[a]
      BY <1>2
    <3>2. FrameInv(outbox[a], wire[outbox[a].id], run[outbox[a].id].chunks)
      BY DEF ReflInv, FramesInv
    <3> QED
      BY <1>4, <1>5, <3>1, <3>2
  <2> QED
    BY <2>1 DEF FramesInv, FrameInv
<1>a. WireInv'
  BY <1>4 DEF ReflInv, WireInv
<1>8. AnswerInv'
  <2> SUFFICES ASSUME NEW j \in Runs, NEW p \in 1..Len(wire[j]), Answer(wire[j][p])
               PROVE  /\ run'[j].pc \in Answering /\ NoChunks(j)'
                      /\ \A q \in 1..Len(wire[j]) : p < q /\ wire[j][p].conn = wire[j][q].conn =>
                           Answer(wire[j][q]) /\ Excused(j)'
                      /\ ws /\ wire[j][p].conn = conn => Excused(j)' \/ run'[j].pc = "ended" \/ AnswerInHand(j)'
    BY DEF AnswerInv, Answer
  <2>1. /\ run[j].pc \in Answering /\ NoChunks(j)
        /\ \A q \in 1..Len(wire[j]) : p < q /\ wire[j][p].conn = wire[j][q].conn =>
             Answer(wire[j][q]) /\ Excused(j)
        /\ ws /\ wire[j][p].conn = conn => Excused(j) \/ run[j].pc = "ended" \/ AnswerInHand(j)
    BY DEF ReflInv, AnswerInv
  <2>2. Excused(j) => Excused(j)'
    BY DEF ReflInv, ReflTypes, Excused
  <2>3. run'[j].pc \in Answering
    BY <2>1
  <2>4. NoChunks(j)'
    BY <1>2, <2>1 DEF NoChunks
  <2>5. ws /\ AnswerInHand(j) => AnswerInHand(j)' \/ run'[j].pc = "ended" \/ Excused(j)'
    BY DEF Excused
  <2>6. run[j].pc = "ended" => run'[j].pc = "ended"
    OBVIOUS
  <2> QED
    BY <2>1, <2>2, <2>3, <2>4, <2>5, <2>6
<1>9. RunInv'
  <2>1. (ws => doomed \subseteq claimed) /\ (~ws => streams = {}) /\ \A j \in Runs : OneRun(j)
    BY DEF ReflInv, RunInv
  <2>2. (ws' => doomed' \subseteq claimed') /\ (~ws' => streams' = {})
    BY <2>1
  <2>3. ASSUME NEW j \in Runs PROVE OneRun(j)'
    <3>1. OneRun(j) /\ run'[j].conn = run[j].conn /\ run'[j].chunks = run[j].chunks
      BY <1>4, <2>1
    <3>2. run'[j].conn <= conn' /\ (run'[j].pc = "none" => run'[j].chunks = 0)
      BY <3>1 DEF OneRun
    <3>3. j \in active' \cup streams' => Live(j)'
      <4>1. CASE j = i
        BY <4>1 DEF Live
      <4>2. CASE j # i
        BY <3>1, <4>2 DEF Live, OneRun
      <4> QED
        BY <4>1, <4>2
    <3>4. j \in Agents /\ run'[j].pc \in {"tracing", "running"} /\ ws' /\ conn' = run'[j].conn => j \in streams'
      BY <3>1 DEF OneRun
    <3>5. ~ws' /\ run'[j].pc = "resolving" => j \in doomed'
      BY <3>1 DEF OneRun
    <3>6. ASSUME run'[j].pc # "none", Undisturbed(j)'
          PROVE  /\ run'[j].pc \notin {"internal", "closing"}
                 /\ run'[j].pc = "ended" => \E p \in 1..Len(wire'[j]) : Answer(wire'[j][p])
                 /\ \A n \in 1..run'[j].chunks : (ChunkCarried(j, n) \/ ChunkWaits(j, n))'
      <4>1. Undisturbed(j) /\ run[j].pc # "none"
        <5>1. /\ timeouts \in Nat /\ timeouts' \in Nat /\ timeouts <= timeouts' /\ ~(timeouts' > 0)
              /\ j \notin claimed
          BY <3>6 DEF Undisturbed, Excused, ReflInv, ReflTypes
        <5>2. ~(timeouts > 0)
          BY <5>1
        <5>3. ws /\ conn = run[j].conn
          BY <3>1, <3>6 DEF Undisturbed
        <5>4. run[j].pc # "none"
          BY <3>6
        <5> QED
          BY <5>1, <5>2, <5>3, <5>4 DEF Undisturbed, Excused
      <4>2. /\ run[j].pc \notin {"internal", "closing"}
            /\ run[j].pc = "ended" => \E p \in 1..Len(wire[j]) : Answer(wire[j][p])
            /\ \A n \in 1..run[j].chunks : ChunkCarried(j, n) \/ ChunkWaits(j, n)
        BY <3>1, <4>1 DEF OneRun
      <4>3. /\ run'[j].pc \notin {"internal", "closing"}
            /\ run'[j].pc = "ended" => \E p \in 1..Len(wire'[j]) : Answer(wire'[j][p])
        <5>1. CASE j = i
          BY <3>6, <5>1
        <5>2. CASE j # i
          BY <4>2, <5>2
        <5> QED
          BY <5>1, <5>2
      <4>4. ASSUME NEW n \in 1..run'[j].chunks PROVE ChunkCarried(j, n)' \/ ChunkWaits(j, n)'
        <5>1. n \in Nat /\ (ChunkCarried(j, n) \/ ChunkWaits(j, n))
          BY <3>1, <4>2
        <5>2. ChunkCarried(j, n)' <=> ChunkCarried(j, n)
          BY DEF ChunkCarried
        <5> QED
          BY <3>6, <5>1, <5>2
      <4> QED
        BY <4>3, <4>4
    <3> QED
      BY <3>2, <3>3, <3>4, <3>5, <3>6 DEF OneRun, Answer
  <2> QED
    BY <2>2, <2>3 DEF RunInv
<1> QED
  BY <1>1, <1>6, <1>7, <1>a, <1>8, <1>9 DEF ReflInv

\* A step of run i that queues the frame f.
QueuesFrame(i, f) ==
  /\ ws /\ UNCHANGED <<conn, ws, wire, claimed, timeouts, doomed>>
  /\ f \in QueuedFrames /\ f.id = i /\ ~f.written /\ outbox' = Append(outbox, f)
  /\ run' \in [Runs -> RunTasks] /\ \A j \in Runs \ {i} : run'[j] = run[j]
  /\ run'[i].conn = run[i].conn
  /\ IF f.kind = "chunk" THEN f.n = run[i].chunks + 1 /\ run'[i].chunks = f.n
                          ELSE run'[i].chunks = run[i].chunks
  /\ run[i].pc \notin {"none", "ended"} /\ run'[i].pc \in WaitsAt(f)
  /\ run[i].pc \in Answering => run'[i].pc \in Answering /\ f.kind # "chunk"
  /\ run'[i].pc = "closing" => run[i].pc = "internal"
  /\ \A k \in 1..Len(outbox) : outbox[k].id = i =>
       outbox[k].kind = "chunk" /\ f.kind = "chunk" /\ run'[i].pc \in WaitsAt(outbox[k])
  /\ active' \subseteq active \cup {i} /\ streams' \subseteq streams \cup {i} /\ streams \subseteq streams'
  /\ run'[i].pc \in {"tracing", "running"} => run[i].pc = "running" \/ (i \in Agents => i \in streams')

\* A step of one run that queues a frame keeps the invariant.
LEMMA QueueingKeeps == ASSUME ReflInv, NEW i \in Runs, NEW f, QueuesFrame(i, f) PROVE ReflInv'
<1>0. /\ ws /\ UNCHANGED <<conn, ws, wire, claimed, timeouts, doomed>>
      /\ f \in QueuedFrames /\ f.id = i /\ ~f.written /\ outbox' = Append(outbox, f)
      /\ run' \in [Runs -> RunTasks] /\ (\A j \in Runs \ {i} : run'[j] = run[j])
      /\ run'[i].conn = run[i].conn
      /\ IF f.kind = "chunk" THEN f.n = run[i].chunks + 1 /\ run'[i].chunks = f.n
                              ELSE run'[i].chunks = run[i].chunks
      /\ run[i].pc \notin {"none", "ended"} /\ run'[i].pc \in WaitsAt(f)
      /\ run[i].pc \in Answering => run'[i].pc \in Answering /\ f.kind # "chunk"
      /\ run'[i].pc = "closing" => run[i].pc = "internal"
      /\ \A k \in 1..Len(outbox) : outbox[k].id = i =>
           outbox[k].kind = "chunk" /\ f.kind = "chunk" /\ run'[i].pc \in WaitsAt(outbox[k])
      /\ active' \subseteq active \cup {i} /\ streams' \subseteq streams \cup {i} /\ streams \subseteq streams'
      /\ run'[i].pc \in {"tracing", "running"} => run[i].pc = "running" \/ (i \in Agents => i \in streams')
  BY DEF QueuesFrame
<1> DEFINE N == Len(outbox)
<1>1. outbox' \in Seq(QueuedFrames) /\ Len(outbox') = N + 1 /\ N \in Nat /\ outbox'[N + 1] = f
      /\ \A k \in 1..N : outbox'[k] = outbox[k]
  BY <1>0 DEF ReflInv, ReflTypes
<1>2. ReflTypes'
  BY <1>0, <1>1 DEF ReflInv, ReflTypes
<1>3. /\ \A k \in 1..N : outbox[k] \in QueuedFrames /\ outbox[k].id \in Runs
      /\ \A j \in Runs : run[j].conn \in Nat /\ run[j].chunks \in Nat /\ Len(wire[j]) \in Nat
  BY ReflFacts DEF ReflInv
<1>4. /\ f.kind \in FrameKinds /\ run'[i].pc \notin {"none", "ended", "resolving", "internal"}
      /\ (f.kind = "chunk" => f.n > 0 /\ f.n > run[i].chunks /\ f.n \in Nat)
  <2>1. f.kind \in FrameKinds
    BY <1>0, WhereFramesWait
  <2>2. run'[i].pc \notin {"none", "ended", "resolving", "internal"}
    BY <1>0, <2>1, WhereFramesWait DEF FrameKinds
  <2>3. f.kind = "chunk" => f.n > 0 /\ f.n > run[i].chunks /\ f.n \in Nat
    BY <1>0, <1>3
  <2> QED
    BY <2>1, <2>2, <2>3
<1>5. \A j \in Runs : run'[j].conn = run[j].conn /\ run'[j].chunks \in Nat /\ run[j].chunks <= run'[j].chunks
  <2>1. ASSUME NEW j \in Runs
        PROVE  run'[j].conn = run[j].conn /\ run'[j].chunks \in Nat /\ run[j].chunks <= run'[j].chunks
    <3>1. CASE j = i
      BY <1>0, <1>3, <1>4, <3>1
    <3>2. CASE j # i
      BY <1>0, <1>3, <3>2
    <3> QED
      BY <3>1, <3>2
  <2> QED
    BY <2>1
<1>6. /\ \A k \in 1..N : run[outbox[k].id].pc \in WaitsAt(outbox[k]) /\ (outbox[k].written => k = 1)
      /\ \A j, k \in 1..N : j < k => Behind(outbox[j], outbox[k])
      /\ \A k \in 1..N : FrameInv(outbox[k], wire[outbox[k].id], run[outbox[k].id].chunks)
  BY DEF ReflInv, SendersInv, FramesInv
<1> HIDE DEF N
<1>7. SendersInv'
  <2>1. ASSUME NEW k \in 1..(N + 1)
        PROVE  run'[outbox'[k].id].pc \in WaitsAt(outbox'[k]) /\ (outbox'[k].written => k = 1)
    <3>1. CASE k = N + 1
      BY <1>0, <1>1, <3>1
    <3>2. CASE k # N + 1
      <4>1. k \in 1..N /\ outbox'[k] = outbox[k]
        BY <1>1, <3>2
      <4>2. CASE outbox[k].id = i
        BY <1>0, <1>6, <4>1, <4>2 DEF N
      <4>3. CASE outbox[k].id # i
        BY <1>0, <1>3, <1>6, <4>1, <4>3
      <4> QED
        BY <4>2, <4>3
    <3> QED
      BY <3>1, <3>2
  <2>2. ASSUME NEW j \in 1..(N + 1), NEW k \in 1..(N + 1), j < k PROVE Behind(outbox'[j], outbox'[k])
    <3>1. j \in 1..N /\ outbox'[j] = outbox[j]
      BY <1>1, <2>2
    <3>2. CASE k = N + 1
      <4> SUFFICES ASSUME outbox[j].id = f.id PROVE Behind(outbox[j], f)
        BY <1>1, <3>1, <3>2 DEF Behind
      <4>1. outbox[j].id = i /\ outbox[j].kind = "chunk" /\ f.kind = "chunk"
        BY <1>0, <3>1 DEF N
      <4>2. outbox[j].n \in 1..run[i].chunks
        BY <1>6, <3>1, <4>1 DEF FrameInv
      <4>3. outbox[j].n < f.n
        BY <1>3, <1>4, <4>1, <4>2
      <4> QED
        BY <4>1, <4>3 DEF Behind
    <3>3. CASE k # N + 1
      <4>1. k \in 1..N /\ outbox'[k] = outbox[k]
        BY <1>1, <3>3
      <4> QED
        BY <1>6, <2>2, <3>1, <4>1
    <3> QED
      BY <3>2, <3>3
  <2> QED
    BY <1>1, <2>1, <2>2 DEF SendersInv, WaitsAt, Behind
<1>8. \A j \in Runs : \A n \in 1..run[j].chunks : n \in 1..run'[j].chunks
  BY <1>3, <1>5
<1>9. FramesInv'
  <2>1. ASSUME NEW k \in 1..(N + 1) PROVE FrameInv(outbox'[k], wire[outbox'[k].id], run'[outbox'[k].id].chunks)
    <3>1. CASE k = N + 1
      <4>1. outbox'[k] = f /\ outbox'[k].id = i
        BY <1>0, <1>1, <3>1
      <4>2. f.kind = "chunk" => f.n \in 1..run'[i].chunks
        BY <1>0, <1>4
      <4>3. f.kind = "chunk" => \A p \in 1..Len(wire[i]) : wire[i][p].kind = "chunk" => wire[i][p].n < f.n
        <5>1. \A p \in 1..Len(wire[i]) : wire[i][p].kind = "chunk" => wire[i][p].n \in 1..run[i].chunks
          BY DEF ReflInv, WireInv
        <5> QED
          BY <1>3, <1>4, <5>1
      <4> QED
        BY <1>0, <4>1, <4>2, <4>3 DEF FrameInv
    <3>2. CASE k # N + 1
      <4>1. k \in 1..N /\ outbox'[k] = outbox[k] /\ outbox[k].id \in Runs
        BY <1>1, <1>3, <3>2
      <4>2. FrameInv(outbox[k], wire[outbox[k].id], run[outbox[k].id].chunks)
        BY <1>6, <4>1
      <4> QED
        BY <1>3, <1>5, <4>1, <4>2, FrameStays
    <3> QED
      BY <3>1, <3>2
  <2>2. wire' = wire /\ Len(outbox') = N + 1
    BY <1>0, <1>1
  <2> QED
    BY <2>1, <2>2, FrameByFrame
<1>10. WireInv'
  BY <1>0, <1>8 DEF ReflInv, WireInv
<1>11. AnswerInv'
  <2> SUFFICES ASSUME NEW j \in Runs, NEW p \in 1..Len(wire[j]), Answer(wire[j][p])
               PROVE  /\ run'[j].pc \in Answering /\ NoChunks(j)'
                      /\ \A q \in 1..Len(wire[j]) : p < q /\ wire[j][p].conn = wire[j][q].conn =>
                           Answer(wire[j][q]) /\ Excused(j)'
                      /\ ws /\ wire[j][p].conn = conn => Excused(j)' \/ run'[j].pc = "ended" \/ AnswerInHand(j)'
    BY <1>0 DEF AnswerInv, Answer
  <2>1. /\ run[j].pc \in Answering /\ NoChunks(j)
        /\ \A q \in 1..Len(wire[j]) : p < q /\ wire[j][p].conn = wire[j][q].conn =>
             Answer(wire[j][q]) /\ Excused(j)
        /\ ws /\ wire[j][p].conn = conn => Excused(j) \/ run[j].pc = "ended" \/ AnswerInHand(j)
    BY DEF ReflInv, AnswerInv
  <2>2. Excused(j) = Excused(j)'
    BY <1>0 DEF Excused
  <2>3. run'[j].pc \in Answering
    BY <1>0, <2>1
  <2>4. NoChunks(j)'
    <3>1. ASSUME NEW k \in 1..(N + 1), outbox'[k].id = j PROVE outbox'[k].kind # "chunk"
      <4>1. CASE k = N + 1
        BY <1>0, <1>1, <2>1, <3>1, <4>1
      <4>2. CASE k # N + 1
        <5>1. k \in 1..N /\ outbox'[k] = outbox[k]
          BY <1>1, <4>2
        <5> QED
          BY <2>1, <3>1, <5>1 DEF NoChunks, N
      <4> QED
        BY <4>1, <4>2
    <3> QED
      BY <1>1, <3>1 DEF NoChunks
  <2>5. AnswerInHand(j) => AnswerInHand(j)'
    <3> SUFFICES ASSUME AnswerInHand(j) PROVE AnswerInHand(j)'
      OBVIOUS
    <3>1. N > 0 /\ outbox # <<>> /\ outbox' # <<>>
      BY <1>1 DEF AnswerInHand, N, ReflInv, ReflTypes
    <3>2. outbox'[1] = outbox[1]
      BY <1>1, <3>1
    <3> QED
      BY <3>1, <3>2 DEF AnswerInHand, Answer
  <2>6. run[j].pc = "ended" => run'[j].pc = "ended"
    BY <1>0
  <2> QED
    BY <2>1, <2>2, <2>3, <2>4, <2>5, <2>6
<1>12. RunInv'
  <2>1. (ws => doomed \subseteq claimed) /\ (~ws => streams = {}) /\ \A j \in Runs : OneRun(j)
    BY DEF ReflInv, RunInv
  <2>2. (ws' => doomed' \subseteq claimed') /\ (~ws' => streams' = {})
    BY <1>0, <2>1
  <2>3. ASSUME NEW j \in Runs PROVE OneRun(j)'
    <3>1. OneRun(j) /\ run'[j].conn = run[j].conn /\ (j # i => run'[j] = run[j])
      BY <1>0, <1>5, <2>1
    <3>2. run'[j].conn <= conn' /\ (run'[j].pc = "none" => run'[j].chunks = 0)
      BY <1>0, <1>4, <3>1 DEF OneRun
    <3>3. j \in active' \cup streams' => Live(j)'
      <4>1. CASE j = i
        BY <1>4, <4>1 DEF Live
      <4>2. CASE j # i
        BY <1>0, <3>1, <4>2 DEF Live, OneRun
      <4> QED
        BY <4>1, <4>2
    <3>4. j \in Agents /\ run'[j].pc \in {"tracing", "running"} /\ ws' /\ conn' = run'[j].conn => j \in streams'
      <4>1. j \in Agents /\ run[j].pc \in {"tracing", "running"} /\ ws /\ conn = run[j].conn => j \in streams
        BY <3>1 DEF OneRun
      <4> QED
        BY <1>0, <3>1, <4>1
    <3>5. ~ws' /\ run'[j].pc = "resolving" => j \in doomed'
      BY <1>0
    <3>6. ASSUME run'[j].pc # "none", Undisturbed(j)'
          PROVE  /\ run'[j].pc \notin {"internal", "closing"}
                 /\ run'[j].pc = "ended" => \E p \in 1..Len(wire'[j]) : Answer(wire'[j][p])
                 /\ \A n \in 1..run'[j].chunks : (ChunkCarried(j, n) \/ ChunkWaits(j, n))'
      <4>1. Undisturbed(j) /\ run[j].pc # "none"
        BY <1>0, <3>1, <3>6 DEF Undisturbed, Excused
      <4>2. /\ run[j].pc \notin {"internal", "closing"}
            /\ run[j].pc = "ended" => \E p \in 1..Len(wire[j]) : Answer(wire[j][p])
            /\ \A n \in 1..run[j].chunks : ChunkCarried(j, n) \/ ChunkWaits(j, n)
        BY <3>1, <4>1 DEF OneRun
      <4>3. /\ run'[j].pc \notin {"internal", "closing"}
            /\ run'[j].pc = "ended" => \E p \in 1..Len(wire'[j]) : Answer(wire'[j][p])
        <5>1. CASE j = i
          BY <1>0, <1>4, <4>2, <5>1
        <5>2. CASE j # i
          BY <1>0, <4>2, <5>2
        <5> QED
          BY <5>1, <5>2
      <4>4. ASSUME NEW n \in 1..run'[j].chunks PROVE (ChunkCarried(j, n) \/ ChunkWaits(j, n))'
        <5>1. CASE n \in 1..run[j].chunks
          <6>1. ChunkCarried(j, n) => ChunkCarried(j, n)'
            BY <1>0 DEF ChunkCarried
          <6>2. ChunkWaits(j, n) => ChunkWaits(j, n)'
            <7>1. ASSUME NEW k \in 1..N PROVE k \in 1..(N + 1) /\ outbox'[k] = outbox[k]
              BY <1>1
            <7> QED
              BY <1>1, <7>1 DEF ChunkWaits, N
          <6> QED
            BY <4>2, <5>1, <6>1, <6>2
        <5>2. CASE n \notin 1..run[j].chunks
          <6>1. j = i /\ f.kind = "chunk" /\ n = f.n
            BY <1>0, <1>3, <1>4, <3>1, <5>2
          <6>2. N + 1 \in 1..(N + 1)
            BY <1>1
          <6> QED
            BY <1>0, <1>1, <6>1, <6>2 DEF ChunkWaits
        <5> QED
          BY <5>1, <5>2
      <4> QED
        BY <4>3, <4>4
    <3> QED
      BY <3>2, <3>3, <3>4, <3>5, <3>6 DEF OneRun, Answer
  <2> QED
    BY <2>2, <2>3 DEF RunInv
<1> QED
  BY <1>2, <1>7, <1>9, <1>10, <1>11, <1>12 DEF ReflInv

\* A task moves on; nothing else of its run changes.
LEMMA GotoFacts ==
  ASSUME ReflTypes, NEW i \in Runs, NEW pc \in RunPlaces, Goto(i, pc)
  PROVE  /\ run' \in [Runs -> RunTasks] /\ \A j \in Runs \ {i} : run'[j] = run[j]
         /\ run'[i].pc = pc /\ run'[i].conn = run[i].conn /\ run'[i].chunks = run[i].chunks
<1>1. run \in [Runs -> RunTasks] /\ run[i] \in RunTasks
  BY DEF ReflTypes
<1>2. run' = [run EXCEPT ![i].pc = pc]
  BY DEF Goto
<1>3. [run[i] EXCEPT !.pc = pc] \in RunTasks
  BY <1>1 DEF RunTasks
<1>4. run' = [run EXCEPT ![i] = [run[i] EXCEPT !.pc = pc]]
  BY <1>2
<1>5. run'[i] = [run[i] EXCEPT !.pc = pc]
  BY <1>1, <1>4
<1>6. run' \in [Runs -> RunTasks]
  BY <1>1, <1>3, <1>4
<1>7. \A j \in Runs \ {i} : run'[j] = run[j]
  BY <1>1, <1>4
<1> QED
  BY <1>1, <1>5, <1>6, <1>7 DEF RunTasks

\* Where a run goes when its send returned or raised.
LEMMA ToldMoves ==
  ASSUME ReflTypes, NEW f \in QueuedFrames, NEW ok \in BOOLEAN, Told(f, ok)
  PROVE  LET i == f.id
         IN  /\ run' \in [Runs -> RunTasks] /\ \A j \in Runs \ {i} : run'[j] = run[j]
             /\ run'[i].conn = run[i].conn /\ run'[i].chunks = run[i].chunks
             /\ active' \subseteq active /\ streams' \subseteq streams /\ streams \subseteq streams' \cup {i}
             /\ f.kind = "chunk" => run' = run /\ active' = active /\ streams' = streams
             /\ f.kind = "state" => run'[i].pc = (IF ok THEN "running" ELSE "failing") /\ streams' = streams
             /\ f.kind = "response" => run'[i].pc = (IF ok THEN "ended" ELSE "failing")
             /\ f.kind = "error" => run'[i].pc = (IF ok THEN "ended" ELSE "internal")
             /\ f.kind = "internal" => run'[i].pc = "ended"
             /\ run'[i].pc = "ended" /\ f.kind # "chunk" => i \notin active' \cup streams'
<1> DEFINE i == f.id
<1>1. i \in Runs /\ f.kind \in FrameKinds
  BY WhereFramesWait
<1>2. CASE f.kind = "chunk"
  <2>1. UNCHANGED <<run, active, streams>>
    BY <1>2 DEF Told
  <2> QED
    BY <1>2, <2>1 DEF ReflTypes
<1>3. CASE f.kind = "state"
  <2>1. Goto(i, IF ok THEN "running" ELSE "failing") /\ UNCHANGED <<active, streams>>
    BY <1>3 DEF Told
  <2>2. (IF ok THEN "running" ELSE "failing") \in RunPlaces
    BY DEF RunPlaces
  <2> QED
    BY <1>1, <1>3, <2>1, <2>2, GotoFacts
<1>4. CASE f.kind \in {"response", "error", "internal"} /\ (ok \/ f.kind = "internal")
  <2>1. Ended(i)
    BY <1>4 DEF Told
  <2>2. "ended" \in RunPlaces
    BY DEF RunPlaces
  <2> QED
    BY <1>1, <1>4, <2>1, <2>2, GotoFacts DEF Ended
<1>5. CASE f.kind = "response" /\ ~ok
  <2>1. Goto(i, "failing") /\ UNCHANGED <<active, streams>>
    BY <1>5 DEF Told
  <2>2. "failing" \in RunPlaces
    BY DEF RunPlaces
  <2> QED
    BY <1>1, <1>5, <2>1, <2>2, GotoFacts
<1>6. CASE f.kind = "error" /\ ~ok
  <2>1. Goto(i, "internal") /\ active' = active \ {i} /\ streams' = streams \ {i}
    BY <1>6 DEF Told
  <2>2. "internal" \in RunPlaces
    BY DEF RunPlaces
  <2> QED
    BY <1>1, <1>6, <2>1, <2>2, GotoFacts
<1> QED
  BY <1>1, <1>2, <1>3, <1>4, <1>5, <1>6 DEF FrameKinds

\* The frame of the lock's holder is done with.
LEMMA HeadTaken ==
  ASSUME ReflInv, outbox # <<>>, outbox' = Tail(outbox), NEW ok \in BOOLEAN, Told(outbox[1], ok),
         UNCHANGED <<conn, ws, wire, doomed, claimed>>, timeouts' \in Nat, timeouts <= timeouts',
         IF ok THEN outbox[1].written /\ timeouts' = timeouts
               ELSE ~outbox[1].written /\ (ws => timeouts' > 0)
  PROVE  ReflInv'
<1> DEFINE f == outbox[1]
           i == f.id
<1>1. /\ 1 \in 1..Len(outbox) /\ f \in QueuedFrames /\ i \in Runs /\ f.kind \in FrameKinds
      /\ Len(outbox) \in Nat
      /\ outbox \in Seq(QueuedFrames) /\ ReflTypes
  BY ReflFacts, WhereFramesWait DEF ReflInv, ReflTypes
<1>2. run[i].pc \in WaitsAt(f)
  BY <1>1 DEF ReflInv, SendersInv
<1>3. /\ Tail(outbox) \in Seq(QueuedFrames) /\ ThinnedTo(outbox, Tail(outbox))
      /\ \A k \in 1..Len(outbox') : outbox'[k] = outbox[k + 1] /\ k + 1 \in 2..Len(outbox)
      /\ \A k \in 2..Len(outbox) : k - 1 \in 1..Len(outbox') /\ outbox'[k - 1] = outbox[k]
  BY <1>1, TailThinned
<1>4. /\ run' \in [Runs -> RunTasks] /\ \A j \in Runs \ {i} : run'[j] = run[j]
      /\ run'[i].conn = run[i].conn /\ run'[i].chunks = run[i].chunks
      /\ active' \subseteq active /\ streams' \subseteq streams /\ streams \subseteq streams' \cup {i}
      /\ f.kind = "chunk" => run' = run /\ active' = active /\ streams' = streams
      /\ f.kind = "state" => run'[i].pc = (IF ok THEN "running" ELSE "failing") /\ streams' = streams
      /\ f.kind = "response" => run'[i].pc = (IF ok THEN "ended" ELSE "failing")
      /\ f.kind = "error" => run'[i].pc = (IF ok THEN "ended" ELSE "internal")
      /\ f.kind = "internal" => run'[i].pc = "ended"
      /\ run'[i].pc = "ended" /\ f.kind # "chunk" => i \notin active' \cup streams'
  BY <1>1, ToldMoves
<1>5. /\ f.kind = "chunk" => run[i].pc \in {"running", "unwinding", "draining", "failing"}
      /\ f.kind = "state" => run[i].pc = "tracing"
      /\ f.kind = "response" => run[i].pc = "responding"
      /\ f.kind = "error" => run[i].pc = "reporting"
      /\ f.kind = "internal" => run[i].pc = "closing"
      /\ Answer(f) <=> f.kind \in {"response", "error", "internal"}
  BY <1>1, <1>2, WhereFramesWait
<1>6. ASSUME NEW k \in 1..Len(outbox'), outbox'[k].id = i
      PROVE  f.kind = "chunk" /\ run'[i].pc \in WaitsAt(outbox'[k])
  <2>1. outbox'[k] = outbox[k + 1] /\ k + 1 \in 1..Len(outbox) /\ 1 < k + 1
    BY <1>1, <1>3
  <2>2. Behind(f, outbox[k + 1]) /\ run[i].pc \in WaitsAt(outbox[k + 1])
    BY <1>1, <1>6, <2>1 DEF ReflInv, SendersInv
  <2>3. f.kind = "chunk"
    BY <1>6, <2>1, <2>2 DEF Behind
  <2> QED
    BY <1>4, <2>1, <2>2, <2>3
<1>7. ok => \E p \in 1..Len(wire[i]) : wire[i][p].kind = f.kind /\ wire[i][p].n = f.n
  BY <1>1 DEF ReflInv, FramesInv, FrameInv
<1>8. ASSUME NEW j \in Runs, NEW n \in Nat, Undisturbed(j)', ChunkWaits(j, n)
      PROVE  ChunkCarried(j, n) \/ ChunkWaits(j, n)'
  <2>1. PICK k \in 1..Len(outbox) : outbox[k].id = j /\ outbox[k].kind = "chunk" /\ outbox[k].n = n
    BY <1>8 DEF ChunkWaits
  <2>2. CASE k = 1
    <3>1. ok
      BY <1>8 DEF Undisturbed, Excused
    <3> QED
      BY <1>7, <2>1, <2>2, <3>1 DEF ChunkCarried
  <2>3. CASE k # 1
    <3>1. k - 1 \in 1..Len(outbox') /\ outbox'[k - 1] = outbox[k]
      BY <1>1, <1>3, <2>3
    <3> QED
      BY <2>1, <3>1 DEF ChunkWaits
  <2> QED
    BY <2>2, <2>3
<1>9. \A j \in Runs : AnswerInHand(j) => j = i /\ run'[i].pc = "ended"
  <2> SUFFICES ASSUME NEW j \in Runs, AnswerInHand(j) PROVE j = i /\ run'[i].pc = "ended"
    OBVIOUS
  <2>1. j = i /\ ok /\ f.kind \in {"response", "error", "internal"}
    BY <1>5 DEF AnswerInHand
  <2> QED
    BY <1>4, <2>1
<1>10. ASSUME Undisturbed(i)'
       PROVE  /\ run'[i].pc \notin {"internal", "closing"}
              /\ run'[i].pc = "ended" => \E p \in 1..Len(wire[i]) : Answer(wire[i][p])
  <2>1. ok
    BY <1>10 DEF Undisturbed, Excused
  <2>2. run'[i].pc \notin {"internal", "closing"}
    BY <1>1, <1>4, <1>5, <2>1 DEF FrameKinds
  <2>3. run'[i].pc = "ended" => Answer(f)
    BY <1>1, <1>4, <1>5, <2>1 DEF FrameKinds
  <2> QED
    BY <1>7, <2>1, <2>2, <2>3 DEF Answer
<1>11. /\ run[i].pc \notin {"none", "ended"} /\ run'[i].pc \notin {"none", "resolving"}
       /\ run[i].pc \in Answering => run'[i].pc \in Answering
       /\ i \in active' \cup streams' => run'[i].pc # "ended"
       /\ run'[i].pc \in {"tracing", "running"} =>
            i \in streams' \/ (i \notin streams /\ run[i].pc \in {"tracing", "running"})
  BY <1>1, <1>4, <1>5 DEF FrameKinds, Answering
<1>12. TakesFrames(i)
  BY <1>3, <1>4, <1>6, <1>8, <1>9, <1>10, <1>11 DEF TakesFrames
<1> QED
  BY <1>1, <1>12, TakingKeeps

\* The lock is released, its holder told that the frame went out.
LEMMA SentKeeps == ASSUME ReflInv, Sent PROVE ReflInv'
<1>1. timeouts \in Nat /\ timeouts <= timeouts
  BY DEF ReflInv, ReflTypes
<1> QED
  BY <1>1, HeadTaken DEF Sent

\* The lock is released, its holder told that the frame did not.
LEMMA WriteFailsKeeps == ASSUME ReflInv, WriteFails PROVE ReflInv'
<1>1. timeouts \in Nat
  BY DEF ReflInv, ReflTypes
<1>2. timeouts' \in Nat /\ timeouts <= timeouts' /\ (ws => timeouts' > 0)
  BY <1>1 DEF WriteFails
<1> QED
  BY <1>2, HeadTaken DEF WriteFails

\* A step of run i that moves its task only.
LEMMA MovingKeeps ==
  ASSUME ReflInv, NEW i \in Runs, NEW pc \in RunPlaces, Goto(i, pc), outbox' = outbox,
         UNCHANGED <<conn, ws, wire, claimed, timeouts, active, streams, doomed>>,
         pc \in {"draining", "failing"} \/ (pc = "flushing" /\ NoChunks(i)),
         run[i].pc \in {"running", "unwinding", "draining"}
  PROVE  ReflInv'
<1>1. ReflTypes /\ outbox \in Seq(QueuedFrames) /\ timeouts \in Nat /\ timeouts <= timeouts
  BY DEF ReflInv, ReflTypes
<1>2. /\ run' \in [Runs -> RunTasks] /\ \A j \in Runs \ {i} : run'[j] = run[j]
      /\ run'[i].pc = pc /\ run'[i].conn = run[i].conn /\ run'[i].chunks = run[i].chunks
  BY <1>1, GotoFacts
<1>3. ThinnedTo(outbox, outbox')
  BY <1>1, SameThinned
<1>4. ASSUME NEW k \in 1..Len(outbox'), outbox'[k].id = i PROVE pc \in WaitsAt(outbox'[k])
  <2>1. outbox[k] \in QueuedFrames /\ run[i].pc \in WaitsAt(outbox[k])
    BY <1>1, <1>4, ReflFacts DEF ReflInv, SendersInv
  <2>2. outbox[k].kind = "chunk"
    BY <2>1, WhereFramesWait DEF FrameKinds
  <2>3. pc \in {"draining", "failing"}
    BY <1>4, <2>2 DEF NoChunks
  <2> QED
    BY <2>1, <2>2, <2>3, WhereFramesWait
<1>5. /\ \A j \in Runs : AnswerInHand(j) => AnswerInHand(j)'
      /\ \A j \in Runs, n \in Nat : ChunkWaits(j, n) => ChunkWaits(j, n)'
  BY DEF AnswerInHand, ChunkWaits, Answer
<1>6. TakesFrames(i)
  BY <1>1, <1>2, <1>3, <1>4, <1>5 DEF TakesFrames, Answering
<1> QED
  BY <1>6, TakingKeeps

\* The steps of a run that send nothing.
LEMMA ActionReturnsKeeps == ASSUME ReflInv, NEW i \in Runs, ActionReturns(i) PROVE ReflInv'
BY MovingKeeps DEF ActionReturns, RunPlaces

LEMMA ActionRaisesKeeps == ASSUME ReflInv, NEW i \in Runs, ActionRaises(i) PROVE ReflInv'
BY MovingKeeps DEF ActionRaises, RunPlaces

LEMMA DrainedKeeps == ASSUME ReflInv, NEW i \in Runs, Drained(i) PROVE ReflInv'
<1>1. NoChunks(i)
  BY DEF Drained, ChunksOut, NoChunks, ReflInv, ReflTypes
<1> QED
  BY <1>1, MovingKeeps DEF Drained, RunPlaces

\* A run whose send is refused at once, for there is no connection.
LEMMA RefusedKeeps ==
  ASSUME ReflInv, NEW i \in Runs, NEW f \in QueuedFrames, f.id = i, Told(f, FALSE), ~ws,
         UNCHANGED <<outbox, conn, ws, wire, claimed, timeouts, doomed>>,
         f.kind \in {"response", "error", "internal"}, run[i].pc \in {"flushing", "failing", "internal"},
         \A k \in 1..Len(outbox) : outbox[k].id # i,
         run[i].pc = "flushing" => f.kind = "response"
  PROVE  ReflInv'
<1>1. ReflTypes /\ outbox \in Seq(QueuedFrames) /\ timeouts \in Nat /\ timeouts <= timeouts
  BY DEF ReflInv, ReflTypes
<1>2. /\ run' \in [Runs -> RunTasks] /\ \A j \in Runs \ {i} : run'[j] = run[j]
      /\ run'[i].conn = run[i].conn /\ run'[i].chunks = run[i].chunks
      /\ active' \subseteq active /\ streams' \subseteq streams /\ streams \subseteq streams' \cup {i}
      /\ run'[i].pc \in {"failing", "internal", "ended"}
      /\ run'[i].pc = "ended" => i \notin active' \cup streams'
  BY <1>1, ToldMoves
<1>3. ThinnedTo(outbox, outbox')
  BY <1>1, SameThinned
<1>4. \A j \in Runs, n \in Nat : ~Undisturbed(j)'
  BY DEF Undisturbed
<1>5. TakesFrames(i)
  BY <1>1, <1>2, <1>3, <1>4 DEF TakesFrames, Answering
<1> QED
  BY <1>5, TakingKeeps

\* A run at these places has no frame that waits.
LEMMA NothingWaits ==
  ASSUME ReflInv, NEW i \in Runs,
         run[i].pc \in {"resolving", "flushing", "internal"} \/ (run[i].pc = "failing" /\ ChunksOut(i))
  PROVE  \A k \in 1..Len(outbox) : outbox[k].id # i
<1> SUFFICES ASSUME NEW k \in 1..Len(outbox), outbox[k].id = i PROVE FALSE
  OBVIOUS
<1>1. outbox[k] \in QueuedFrames /\ run[i].pc \in WaitsAt(outbox[k]) /\ k \in DOMAIN outbox
  BY ReflFacts DEF ReflInv, SendersInv, ReflTypes
<1> QED
  BY <1>1, WhereFramesWait DEF FrameKinds, ChunksOut

\* A run's own send.
LEMMA SendsKeeps ==
  ASSUME ReflInv, NEW i \in Runs, NEW kind, NEW pc, Sends(i, kind, pc),
         UNCHANGED <<conn, ws, wire, claimed, timeouts, doomed>>,
         \/ run[i].pc = "flushing" /\ kind = "response" /\ pc = "responding"
         \/ run[i].pc \in {"failing", "resolving"} /\ kind = "error" /\ pc = "reporting"
         \/ run[i].pc = "internal" /\ kind = "internal" /\ pc = "closing",
         run[i].pc = "resolving" => ws,
         \A k \in 1..Len(outbox) : outbox[k].id # i
  PROVE  ReflInv'
<1> DEFINE f == Frame(i, kind, 0)
<1>1. f \in QueuedFrames /\ f.id = i /\ f.kind = kind /\ f.n = 0 /\ ~f.written
  BY DEF Frame, QueuedFrames, FrameKinds
<1>2. pc \in RunPlaces /\ ReflTypes /\ f.kind \in {"response", "error", "internal"}
  BY <1>1 DEF ReflInv, RunPlaces
<1>3. CASE ws
  <2>1. outbox' = Append(outbox, f) /\ Goto(i, pc) /\ UNCHANGED <<active, streams>>
    BY <1>3 DEF Sends
  <2>2. /\ run' \in [Runs -> RunTasks] /\ \A j \in Runs \ {i} : run'[j] = run[j]
        /\ run'[i].pc = pc /\ run'[i].conn = run[i].conn /\ run'[i].chunks = run[i].chunks
    BY <1>2, <2>1, GotoFacts
  <2>3. pc \in WaitsAt(f)
    BY <1>1, WhereFramesWait
  <2> HIDE DEF f
  <2>4. QueuesFrame(i, f)
    BY <1>1, <1>2, <1>3, <2>1, <2>2, <2>3 DEF QueuesFrame, Answering
  <2> QED
    BY <2>4, QueueingKeeps
<1>4. CASE ~ws
  <2>1. Told(f, FALSE) /\ UNCHANGED outbox
    BY <1>4 DEF Sends
  <2> HIDE DEF f
  <2> QED
    BY <1>1, <1>2, <1>4, <2>1, RefusedKeeps
<1> QED
  BY <1>3, <1>4

\* The answers a run sends: a success, an error, an internal error.
LEMMA FlushedKeeps == ASSUME ReflInv, NEW i \in Runs, Flushed(i) PROVE ReflInv'
BY SendsKeeps, NothingWaits DEF Flushed

LEMMA ReportKeeps == ASSUME ReflInv, NEW i \in Runs, Report(i) PROVE ReflInv'
BY SendsKeeps, NothingWaits DEF Report

LEMMA InternalKeeps == ASSUME ReflInv, NEW i \in Runs, Internal(i) PROVE ReflInv'
BY SendsKeeps, NothingWaits DEF Internal

\* A run whose action was found sends its state; it is not doomed, so there is a connection.
LEMMA ResolvedKeeps == ASSUME ReflInv, NEW i \in Runs, Resolved(i) PROVE ReflInv'
<1>1. run[i].pc = "resolving" /\ i \notin doomed /\ UNCHANGED <<conn, ws, wire, inq, doomed, claimed, timeouts>>
  BY DEF Resolved
<1>2. ws /\ ReflTypes
  BY <1>1 DEF ReflInv, RunInv, OneRun
<1>3. \A k \in 1..Len(outbox) : outbox[k].id # i
  BY <1>1, NothingWaits
<1>4. CASE Sends(i, "error", "reporting")
  BY <1>1, <1>2, <1>3, <1>4, SendsKeeps
<1>5. CASE ~Sends(i, "error", "reporting")
  <2> DEFINE f == Frame(i, "state", 0)
  <2>1. /\ outbox' = Append(outbox, f) /\ Goto(i, "tracing") /\ active' = active \cup {i}
        /\ streams' = IF i \in Agents THEN streams \cup {i} ELSE streams
    BY <1>2, <1>5 DEF Resolved
  <2>2. f \in QueuedFrames /\ f.id = i /\ f.kind = "state" /\ ~f.written
    BY DEF Frame, QueuedFrames, FrameKinds
  <2>3. "tracing" \in RunPlaces /\ "tracing" \in WaitsAt(f)
    BY <2>2, WhereFramesWait DEF RunPlaces
  <2>4. /\ run' \in [Runs -> RunTasks] /\ \A j \in Runs \ {i} : run'[j] = run[j]
        /\ run'[i].pc = "tracing" /\ run'[i].conn = run[i].conn /\ run'[i].chunks = run[i].chunks
    BY <1>2, <2>1, <2>3, GotoFacts
  <2> HIDE DEF f
  <2>5. QueuesFrame(i, f)
    BY <1>1, <1>2, <1>3, <2>1, <2>2, <2>3, <2>4 DEF QueuesFrame, Answering
  <2> QED
    BY <2>5, QueueingKeeps
<1> QED
  BY <1>4, <1>5

\* A chunk is queued, or lost with the connection that is gone.
LEMMA EmitKeeps == ASSUME ReflInv, NEW i \in Runs, Emit(i) PROVE ReflInv'
<1> DEFINE c == run[i].chunks + 1
           f == Frame(i, "chunk", c)
<1>1. /\ ReflTypes /\ run \in [Runs -> RunTasks] /\ run[i] \in RunTasks /\ c \in Nat
      /\ outbox \in Seq(QueuedFrames)
      /\ timeouts \in Nat
  BY ReflFacts DEF ReflInv, ReflTypes
<1>2. /\ run[i].pc \in {"running", "unwinding"} /\ run' = [run EXCEPT ![i] = [run[i] EXCEPT !.chunks = c]]
      /\ outbox' = Enqueued(f) /\ UNCHANGED <<conn, ws, wire, active, streams, inq, doomed, claimed, timeouts>>
  BY DEF Emit
<1>3. f \in QueuedFrames /\ f.id = i /\ f.kind = "chunk" /\ f.n = c /\ ~f.written
  BY <1>1 DEF Frame, QueuedFrames, FrameKinds
<1>4. run'[i] = [run[i] EXCEPT !.chunks = c] /\ \A j \in Runs \ {i} : run'[j] = run[j]
  BY <1>1, <1>2
<1>5. [run[i] EXCEPT !.chunks = c] \in RunTasks
  BY <1>1 DEF RunTasks
<1>6. run' \in [Runs -> RunTasks]
  BY <1>1, <1>2, <1>5
<1>7. run'[i].conn = run[i].conn /\ run'[i].pc = run[i].pc /\ run'[i].chunks = c
  BY <1>1, <1>4 DEF RunTasks
<1>8. \A k \in 1..Len(outbox) : outbox[k].id = i => outbox[k].kind = "chunk"
  <2> SUFFICES ASSUME NEW k \in 1..Len(outbox), outbox[k].id = i PROVE outbox[k].kind = "chunk"
    OBVIOUS
  <2>1. outbox[k] \in QueuedFrames /\ run[i].pc \in WaitsAt(outbox[k])
    BY <1>1, ReflFacts DEF ReflInv, SendersInv
  <2> QED
    BY <1>2, <2>1, WhereFramesWait DEF FrameKinds
<1> HIDE DEF f
<1>9. CASE ws
  <2>1. outbox' = Append(outbox, f)
    BY <1>2, <1>9 DEF Enqueued
  <2>2. \A k \in 1..Len(outbox) : outbox[k].id = i => run[i].pc \in WaitsAt(outbox[k])
    BY DEF ReflInv, SendersInv
  <2>3. run[i].pc \in WaitsAt(f)
    BY <1>2, <1>3, WhereFramesWait
  <2>4. QueuesFrame(i, f)
    BY <1>1, <1>2, <1>3, <1>4, <1>6, <1>7, <1>8, <1>9, <2>1, <2>2, <2>3 DEF QueuesFrame, Answering
  <2> QED
    BY <2>4, QueueingKeeps
<1>10. CASE ~ws
  <2>1. outbox' = outbox
    BY <1>2, <1>10 DEF Enqueued
  <2>2. \A j \in Runs : /\ run'[j].conn = run[j].conn /\ run'[j].pc = run[j].pc
                        /\ run[j].chunks \in Nat /\ run'[j].chunks \in Nat /\ run[j].chunks <= run'[j].chunks
    <3>1. \A j \in Runs : run[j].chunks \in Nat
      BY <1>1, ReflFacts
    <3>2. run'[i].chunks \in Nat /\ run[i].chunks <= run'[i].chunks
      BY <1>7, <3>1
    <3> SUFFICES ASSUME NEW j \in Runs
                 PROVE  /\ run'[j].conn = run[j].conn /\ run'[j].pc = run[j].pc
                        /\ run[j].chunks \in Nat /\ run'[j].chunks \in Nat /\ run[j].chunks <= run'[j].chunks
      OBVIOUS
    <3>3. CASE j = i
      BY <1>7, <3>1, <3>2, <3>3
    <3>4. CASE j # i
      BY <1>4, <3>1, <3>4
    <3> QED
      BY <3>3, <3>4
  <2>3. \A j \in Runs : \A n \in 1..run[j].chunks : n \in 1..run'[j].chunks
    BY <2>2
  <2>4. ReflTypes'
    BY <1>1, <1>2, <1>6, <2>1 DEF ReflTypes
  <2>5. \A k \in 1..Len(outbox) : outbox[k].id \in Runs
    BY <1>1, ReflFacts
  <2>6. SendersInv'
    BY <1>1, <2>1, <2>2, <2>5 DEF ReflInv, SendersInv, Behind, WaitsAt
  <2>7. FramesInv'
    <3>1. ASSUME NEW k \in 1..Len(outbox) PROVE FrameInv(outbox[k], wire[outbox[k].id], run'[outbox[k].id].chunks)
      <4>1. FrameInv(outbox[k], wire[outbox[k].id], run[outbox[k].id].chunks)
        BY DEF ReflInv, FramesInv
      <4> QED
        BY <2>2, <2>5, <4>1, FrameStays
    <3>2. wire' = wire
      BY <1>2
    <3> QED
      BY <2>1, <3>1, <3>2, FrameByFrame
  <2>8. WireInv'
    BY <1>2, <2>3 DEF ReflInv, WireInv
  <2>9. AnswerInv'
    BY <1>2, <1>10, <2>1, <2>2 DEF ReflInv, AnswerInv, Answer, NoChunks, Excused
  <2>10. ASSUME NEW j \in Runs PROVE OneRun(j)'
    <3>1. OneRun(j) /\ run'[j].conn = run[j].conn /\ run'[j].pc = run[j].pc
      BY <2>2 DEF ReflInv, RunInv
    <3>2. run'[j].pc = "none" => run'[j].chunks = 0
      BY <1>2, <1>4, <3>1 DEF OneRun
    <3> QED
      BY <1>2, <1>10, <3>1, <3>2 DEF OneRun, Live, Undisturbed
  <2>11. RunInv'
    BY <1>2, <1>10, <2>10 DEF ReflInv, RunInv
  <2> QED
    BY <2>4, <2>6, <2>7, <2>8, <2>9, <2>11 DEF ReflInv
<1> QED
  BY <1>9, <1>10

\* A cancellation arrives: the sends its task waits for are given up.
LEMMA CancelLandsKeeps == ASSUME ReflInv, NEW i \in Runs, CancelLands(i) PROVE ReflInv'
<1> DEFINE drops == IF run[i].pc \in {"draining", "failing"} THEN {"chunk"}
                    ELSE {"state", "response", "error", "internal"}
           places == {k \in DOMAIN outbox : outbox[k].id = i => outbox[k].kind \notin drops}
           ends == run[i].pc \in {"resolving", "failing", "reporting", "internal", "closing"}
           pc == IF ends THEN "ended"
                 ELSE IF run[i].pc \in {"running", "unwinding"} THEN "unwinding" ELSE "failing"
<1>1. /\ ReflTypes /\ outbox \in Seq(QueuedFrames) /\ timeouts \in Nat /\ timeouts <= timeouts
      /\ run[i] \in RunTasks
      /\ active \subseteq Runs /\ streams \subseteq Runs
  BY ReflFacts DEF ReflInv, ReflTypes
<1>2. /\ i \in doomed /\ Live(i) /\ (run[i].pc = "failing" => ~ChunksOut(i))
      /\ doomed' = doomed \ {i} /\ outbox' = Senders(places)
      /\ UNCHANGED <<conn, ws, wire, inq, claimed, timeouts>>
  BY DEF CancelLands
<1>3. /\ Goto(i, pc)
      /\ IF ends THEN active' = active \ {i} /\ streams' = streams \ {i} ELSE UNCHANGED <<active, streams>>
  BY DEF CancelLands, Ended
<1>4. pc \in RunPlaces /\ pc \in {"ended", "unwinding", "failing"}
  BY DEF RunPlaces
<1>5. places \in SUBSET (1..Len(outbox))
  BY <1>1
<1> DEFINE t == Senders(places)
<1>6. /\ t \in Seq(QueuedFrames) /\ ThinnedTo(outbox, t)
      /\ \A k \in places : \E j \in 1..Len(t) : t[j] = outbox[k]
      /\ \A j \in 1..Len(t) : \E k \in places : t[j] = outbox[k]
      /\ 1 \in places => t # <<>> /\ t[1] = outbox[1]
  BY <1>1, <1>5, SendersLeft, Zenon
<1>7. /\ run' \in [Runs -> RunTasks] /\ \A j \in Runs \ {i} : run'[j] = run[j]
      /\ run'[i].pc = pc /\ run'[i].conn = run[i].conn /\ run'[i].chunks = run[i].chunks
  BY <1>1, <1>3, <1>4, GotoFacts
<1>8. ASSUME NEW k \in places, outbox[k].id = i PROVE pc \in WaitsAt(outbox[k])
  <2>1. /\ k \in 1..Len(outbox) /\ outbox[k] \in QueuedFrames /\ run[i].pc \in WaitsAt(outbox[k])
        /\ outbox[k].kind \notin drops
    BY <1>1, <1>8, ReflFacts DEF ReflInv, SendersInv
  <2>2. outbox[k].kind = "chunk" /\ run[i].pc \in {"running", "unwinding"}
    BY <2>1, WhereFramesWait DEF FrameKinds
  <2> QED
    BY <2>1, <2>2, WhereFramesWait
<1>9. ws => i \in claimed
  BY <1>2 DEF ReflInv, RunInv
<1>10. ~Undisturbed(i)'
  BY <1>2, <1>9 DEF Undisturbed, Excused
<1> HIDE DEF t
<1>11. ASSUME NEW j \in Runs, ws, AnswerInHand(j) PROVE AnswerInHand(j)' \/ (j = i /\ i \in claimed)
  <2>1. CASE j = i
    BY <1>9, <1>11, <2>1
  <2>2. CASE j # i
    <3>1. 1 \in places
      BY <1>1, <1>11, <2>2 DEF AnswerInHand
    <3>2. outbox' # <<>> /\ outbox'[1] = outbox[1]
      BY <1>2, <1>6, <3>1 DEF t
    <3> QED
      BY <1>11, <3>2 DEF AnswerInHand, Answer
  <2> QED
    BY <2>1, <2>2
<1>12. ASSUME NEW j \in Runs, NEW n \in Nat, Undisturbed(j)', ChunkWaits(j, n) PROVE ChunkWaits(j, n)'
  <2>1. PICK k \in 1..Len(outbox) : outbox[k].id = j /\ outbox[k].kind = "chunk" /\ outbox[k].n = n
    BY <1>12 DEF ChunkWaits
  <2>2. j # i
    BY <1>10, <1>12
  <2>3. k \in places
    BY <1>1, <2>1, <2>2
  <2>4. PICK m \in 1..Len(t) : t[m] = outbox[k]
    BY <1>6, <2>3
  <2> QED
    BY <1>2, <2>1, <2>4 DEF ChunkWaits, t
<1>13. /\ outbox' = t /\ \A k \in 1..Len(t) : t[k].id = i => pc \in WaitsAt(t[k])
  BY <1>2, <1>6, <1>8 DEF t
<1>14. /\ active' \subseteq active /\ streams' \subseteq streams /\ streams \subseteq streams' \cup {i}
       /\ i \in active' \cup streams' => pc # "ended"
  BY <1>3
<1>15. /\ run[i].pc \notin {"none", "ended"} /\ (run[i].pc \in Answering => pc \in Answering)
       /\ doomed' \subseteq doomed /\ doomed \subseteq doomed' \cup {i}
  BY <1>2 DEF Live, Answering
<1> HIDE DEF pc, places, ends
<1>16. TakesFrames(i)
  BY <1>1, <1>2, <1>4, <1>6, <1>7, <1>9, <1>10, <1>11, <1>12, <1>13, <1>14, <1>15 DEF TakesFrames
<1> QED
  BY <1>16, TakingKeeps

\* A frame goes to the wire: it is a chunk newer than all of its run, or its answer, and the
\* only one unless the run is excused.
LEMMA WriteKeeps == ASSUME ReflInv, Write PROVE ReflInv'
<1> DEFINE h == outbox[1]
           i == h.id
           m == [conn |-> conn, kind |-> h.kind, n |-> h.n]
           N == Len(wire[i])
<1>1. /\ ReflTypes /\ outbox \in Seq(QueuedFrames) /\ Len(outbox) \in Nat /\ 1 \in 1..Len(outbox)
      /\ h \in QueuedFrames /\ i \in Runs /\ h.kind \in FrameKinds /\ h.n \in Nat /\ ~h.written /\ ws
      /\ wire \in [Runs -> Seq(CarriedFrames)] /\ N \in Nat /\ wire[i] \in Seq(CarriedFrames) /\ conn \in Nat
      /\ outbox # <<>>
  BY ReflFacts, WhereFramesWait DEF ReflInv, ReflTypes, Write
<1>2. /\ outbox' = [outbox EXCEPT ![1] = [h EXCEPT !.written = TRUE]]
      /\ wire' = [wire EXCEPT ![i] = Append(wire[i], m)]
      /\ UNCHANGED <<conn, ws, run, active, streams, inq, doomed, claimed, timeouts>>
  BY DEF Write
<1>3. /\ [h EXCEPT !.written = TRUE] \in QueuedFrames /\ m \in CarriedFrames /\ m.kind = h.kind /\ m.n = h.n
      /\ m.conn = conn
  BY <1>1 DEF QueuedFrames, CarriedFrames
<1>4. outbox' \in Seq(QueuedFrames) /\ Len(outbox') = Len(outbox) /\ outbox' # <<>>
  BY <1>1, <1>2, <1>3
<1>5. \A k \in 1..Len(outbox) : outbox'[k] = IF k = 1 THEN [h EXCEPT !.written = TRUE] ELSE outbox[k]
  BY <1>1, <1>2
<1>6. /\ [h EXCEPT !.written = TRUE].id = h.id /\ [h EXCEPT !.written = TRUE].kind = h.kind
      /\ [h EXCEPT !.written = TRUE].n = h.n
      /\ [h EXCEPT !.written = TRUE].written
  BY <1>1 DEF QueuedFrames
<1>7. \A k \in 1..Len(outbox) : /\ outbox'[k].id = outbox[k].id /\ outbox'[k].kind = outbox[k].kind
                                /\ outbox'[k].n = outbox[k].n /\ outbox[k] \in QueuedFrames
                                /\ outbox[k].id \in Runs
                                /\ (k # 1 => outbox'[k].written = outbox[k].written) /\ outbox'[1].written
  BY <1>1, <1>5, <1>6, ReflFacts
<1>8. /\ wire' \in [Runs -> Seq(CarriedFrames)] /\ \A j \in Runs \ {i} : wire'[j] = wire[j]
      /\ wire'[i] = Append(wire[i], m)
  BY <1>1, <1>2, <1>3
<1>9. Len(wire'[i]) = N + 1 /\ wire'[i][N + 1] = m /\ \A p \in 1..N : wire'[i][p] = wire[i][p]
  BY <1>1, <1>3, <1>8
<1>10. /\ run[i].pc \in WaitsAt(h) /\ FrameInv(h, wire[i], run[i].chunks)
       /\ \A k \in 2..Len(outbox) : Behind(h, outbox[k])
  <2>1. run[i].pc \in WaitsAt(h) /\ FrameInv(h, wire[i], run[i].chunks)
    BY <1>1 DEF ReflInv, SendersInv, FramesInv
  <2>2. ASSUME NEW k \in 2..Len(outbox) PROVE Behind(h, outbox[k])
    <3>1. k \in 1..Len(outbox) /\ 1 < k
      BY <1>1
    <3> QED
      BY <1>1, <3>1 DEF ReflInv, SendersInv
  <2> QED
    BY <2>1, <2>2
<1>11. ReflTypes'
  BY <1>1, <1>2, <1>4, <1>8 DEF ReflTypes
<1> HIDE DEF h, m, N, i
<1> USE <1>1
<1>12. SendersInv'
  <2>1. ASSUME NEW k \in 1..Len(outbox)
        PROVE  run[outbox'[k].id].pc \in WaitsAt(outbox'[k]) /\ (outbox'[k].written => k = 1)
    <3>1. run[outbox[k].id].pc \in WaitsAt(outbox[k]) /\ (outbox[k].written => k = 1)
      BY DEF ReflInv, SendersInv
    <3>2. WaitsAt(outbox'[k]) = WaitsAt(outbox[k])
      BY <1>7 DEF WaitsAt
    <3> QED
      BY <1>7, <3>1, <3>2
  <2>2. ASSUME NEW j \in 1..Len(outbox), NEW k \in 1..Len(outbox), j < k PROVE Behind(outbox'[j], outbox'[k])
    <3>1. Behind(outbox[j], outbox[k])
      BY <2>2 DEF ReflInv, SendersInv
    <3> QED
      BY <1>7, <3>1 DEF Behind
  <2> QED
    BY <1>2, <1>4, <2>1, <2>2 DEF SendersInv, WaitsAt, Behind
<1>13. FramesInv'
  <2>1. ASSUME NEW k \in 1..Len(outbox)
        PROVE  FrameInv(outbox'[k], wire'[outbox'[k].id], run[outbox'[k].id].chunks)
    <3>1. FrameInv(outbox[k], wire[outbox[k].id], run[outbox[k].id].chunks)
      BY DEF ReflInv, FramesInv
    <3>2. CASE k = 1
      <4>1. outbox'[k].id = i /\ outbox'[k].kind = h.kind /\ outbox'[k].n = h.n /\ outbox'[k].written
        BY <1>7, <3>2 DEF h, i
      <4>2. h.kind = "chunk" => h.n \in 1..run[i].chunks
        BY <1>10 DEF FrameInv
      <4>3. N + 1 \in 1..Len(wire'[i]) /\ wire'[i][N + 1].kind = h.kind /\ wire'[i][N + 1].n = h.n
        BY <1>3, <1>9
      <4> QED
        BY <4>1, <4>2, <4>3 DEF FrameInv
    <3>3. CASE k # 1 /\ outbox[k].id = i
      <4>1. h.kind = "chunk" /\ outbox[k].kind = "chunk" /\ h.n < outbox[k].n
        BY <1>10, <3>3 DEF Behind, i
      <4>2. ~outbox[k].written
        BY <3>3 DEF ReflInv, SendersInv
      <4>3. /\ outbox[k].n \in 1..run[i].chunks
            /\ \A p \in 1..N : wire[i][p].kind = "chunk" => wire[i][p].n < outbox[k].n
        BY <3>1, <3>3, <4>1, <4>2 DEF FrameInv, N
      <4>4. \A p \in 1..(N + 1) : wire'[i][p].kind = "chunk" => wire'[i][p].n < outbox[k].n
        <5>1. \A p \in 1..N : wire'[i][p].kind = "chunk" => wire'[i][p].n < outbox[k].n
          BY <1>9, <4>3
        <5>2. wire'[i][N + 1].n < outbox[k].n
          BY <1>3, <1>9, <4>1
        <5>3. \A p \in 1..(N + 1) : p \in 1..N \/ p = N + 1
          OBVIOUS
        <5> QED
          BY <5>1, <5>2, <5>3
      <4>5. outbox'[k] = outbox[k] /\ Len(wire'[i]) = N + 1
        BY <1>5, <1>9, <3>3
      <4> QED
        BY <3>3, <4>2, <4>3, <4>4, <4>5 DEF FrameInv
    <3>4. CASE k # 1 /\ outbox[k].id # i
      <4>1. wire'[outbox[k].id] = wire[outbox[k].id]
        BY <1>7, <1>8, <3>4
      <4>2. outbox'[k] = outbox[k]
        BY <1>5, <3>4
      <4> QED
        BY <3>1, <4>1, <4>2
    <3> QED
      BY <3>2, <3>3, <3>4
  <2>2. run' = run
    BY <1>2
  <2> QED
    BY <1>4, <2>1, <2>2, FrameByFrame
<1>14. WireInv'
  <2> SUFFICES ASSUME NEW j \in Runs
               PROVE  /\ \A p \in 1..Len(wire'[j]) : /\ wire'[j][p].conn <= conn
                                                     /\ wire'[j][p].kind = "chunk" =>
                                                          wire'[j][p].n \in 1..run[j].chunks
                      /\ \A p, q \in 1..Len(wire'[j]) :
                           p < q /\ wire'[j][p].kind = "chunk" /\ wire'[j][q].kind = "chunk" =>
                             wire'[j][p].n < wire'[j][q].n
    BY <1>2 DEF WireInv
  <2>1. /\ \A p \in 1..Len(wire[j]) : /\ wire[j][p].conn <= conn
                                      /\ wire[j][p].kind = "chunk" => wire[j][p].n \in 1..run[j].chunks
        /\ \A p, q \in 1..Len(wire[j]) :
             p < q /\ wire[j][p].kind = "chunk" /\ wire[j][q].kind = "chunk" => wire[j][p].n < wire[j][q].n
    BY DEF ReflInv, WireInv
  <2>2. CASE j # i
    BY <1>8, <2>1, <2>2
  <2>3. CASE j = i
    <3>1. m.kind = "chunk" => /\ m.n \in 1..run[i].chunks
                              /\ \A p \in 1..N : wire[i][p].kind = "chunk" => wire[i][p].n < m.n
      BY <1>3, <1>10 DEF FrameInv, N
    <3>2. ASSUME NEW p \in 1..(N + 1)
          PROVE  wire'[i][p].conn <= conn /\ (wire'[i][p].kind = "chunk" => wire'[i][p].n \in 1..run[i].chunks)
      <4>1. CASE p \in 1..N
        BY <1>9, <2>1, <2>3, <4>1 DEF N
      <4>2. CASE p = N + 1
        BY <1>3, <1>9, <3>1, <4>2
      <4> QED
        BY <4>1, <4>2
    <3>3. ASSUME NEW p \in 1..(N + 1), NEW q \in 1..(N + 1), p < q,
                 wire'[i][p].kind = "chunk", wire'[i][q].kind = "chunk"
          PROVE  wire'[i][p].n < wire'[i][q].n
      <4>1. p \in 1..N /\ wire'[i][p] = wire[i][p]
        BY <1>9, <3>3
      <4>2. CASE q \in 1..N
        BY <1>9, <2>1, <2>3, <3>3, <4>1, <4>2 DEF N
      <4>3. CASE q = N + 1
        BY <1>9, <3>1, <3>3, <4>1, <4>3
      <4> QED
        BY <4>2, <4>3
    <3> QED
      BY <1>9, <2>3, <3>2, <3>3
  <2> QED
    BY <2>2, <2>3
<1>15. ASSUME NEW j \in Runs, NEW p \in 1..Len(wire[j]) PROVE wire'[j][p] = wire[j][p] /\ p \in 1..Len(wire'[j])
  <2>1. CASE j = i
    BY <1>9, <1>15, <2>1 DEF N
  <2>2. CASE j # i
    BY <1>8, <1>15, <2>2
  <2> QED
    BY <2>1, <2>2
<1>16. AnswerInv'
  <2> SUFFICES ASSUME NEW j \in Runs, NEW p \in 1..Len(wire'[j]), Answer(wire'[j][p])
               PROVE  /\ run[j].pc \in Answering /\ NoChunks(j)'
                      /\ \A q \in 1..Len(wire'[j]) : p < q /\ wire'[j][p].conn = wire'[j][q].conn =>
                           Answer(wire'[j][q]) /\ Excused(j)
                      /\ ws /\ wire'[j][p].conn = conn => Excused(j) \/ run[j].pc = "ended" \/ AnswerInHand(j)'
    BY <1>2 DEF AnswerInv, Answer, Excused
  <2>1. NoChunks(j)' <=> NoChunks(j)
    BY <1>4, <1>7 DEF NoChunks
  <2>2. ASSUME p \in 1..Len(wire[j])
        PROVE  /\ run[j].pc \in Answering /\ NoChunks(j) /\ wire'[j][p] = wire[j][p]
               /\ \A q \in 1..Len(wire[j]) : p < q /\ wire[j][p].conn = wire[j][q].conn =>
                    Answer(wire[j][q]) /\ Excused(j)
               /\ wire[j][p].conn = conn => Excused(j) \/ run[j].pc = "ended"
    <3>1. wire'[j][p] = wire[j][p] /\ Answer(wire[j][p])
      BY <1>15, <2>2
    <3>2. ~AnswerInHand(j)
      BY DEF AnswerInHand, h
    <3> QED
      BY <2>2, <3>1, <3>2 DEF ReflInv, AnswerInv
  <2>3. CASE j # i
    <3>1. wire'[j] = wire[j]
      BY <1>8, <2>3
    <3> QED
      BY <2>1, <2>2, <3>1
  <2>4. CASE j = i /\ p \in 1..N
    <3>1. /\ run[i].pc \in Answering /\ NoChunks(i) /\ wire'[i][p] = wire[i][p]
          /\ \A q \in 1..N : p < q /\ wire[i][p].conn = wire[i][q].conn => Answer(wire[i][q]) /\ Excused(i)
          /\ wire[i][p].conn = conn => Excused(i) \/ run[i].pc = "ended"
      BY <2>2, <2>4 DEF N
    <3>2. h.kind # "chunk" /\ run[i].pc # "ended" /\ h.kind # "state"
      <4>1. h.kind # "chunk"
        BY <3>1 DEF NoChunks, h, i
      <4>2. run[i].pc # "ended" /\ h.kind # "state"
        BY <1>10, <3>1, WhereFramesWait DEF FrameKinds, Answering
      <4> QED
        BY <4>1, <4>2
    <3>3. Answer(m)
      BY <1>3, <3>2, WhereFramesWait DEF FrameKinds, Answer, AnswerKinds
    <3>4. ASSUME NEW q \in 1..(N + 1), p < q, wire'[i][p].conn = wire'[i][q].conn
          PROVE  Answer(wire'[i][q]) /\ Excused(i)
      <4>1. CASE q \in 1..N
        BY <1>9, <3>1, <3>4, <4>1
      <4>2. CASE q = N + 1
        BY <1>3, <1>9, <3>1, <3>2, <3>3, <3>4, <4>2
      <4> QED
        BY <4>1, <4>2
    <3> QED
      BY <1>9, <2>1, <2>4, <3>1, <3>4
  <2>5. CASE j = i /\ p \notin 1..N
    <3>1. p = N + 1 /\ wire'[i][p] = m
      BY <1>9, <2>5
    <3>2. Answer(h)
      BY <1>3, <2>5, <3>1 DEF Answer
    <3>3. run[i].pc \in Answering
      BY <1>10, <3>2, WhereFramesWait DEF Answering
    <3>4. NoChunks(i)
      <4> SUFFICES ASSUME NEW k \in 1..Len(outbox), outbox[k].id = i PROVE outbox[k].kind # "chunk"
        BY DEF NoChunks
      <4>1. h.kind # "chunk"
        BY <3>2, WhereFramesWait
      <4>2. CASE k = 1
        BY <4>1, <4>2 DEF h
      <4>3. CASE k # 1
        <5>1. Behind(h, outbox[k]) /\ h.id = outbox[k].id
          BY <1>10, <4>3 DEF i
        <5> QED
          BY <4>1, <5>1 DEF Behind
      <4> QED
        BY <4>2, <4>3
    <3>5. AnswerInHand(j)'
      <4>1. outbox'[1].id = j /\ outbox'[1].written /\ outbox'[1].kind = h.kind
        BY <1>7, <2>5 DEF h, i
      <4> QED
        BY <1>4, <3>2, <4>1 DEF AnswerInHand, Answer
    <3>6. \A q \in 1..Len(wire'[i]) : ~(p < q)
      BY <1>9, <3>1
    <3> QED
      BY <2>1, <2>5, <3>3, <3>4, <3>5, <3>6
  <2> QED
    BY <2>3, <2>4, <2>5
<1>17. RunInv'
  <2>1. ASSUME NEW j \in Runs PROVE OneRun(j)'
    <3>1. OneRun(j)
      BY DEF ReflInv, RunInv
    <3>2. Undisturbed(j)' = Undisturbed(j) /\ Live(j)' = Live(j)
      BY <1>2 DEF Undisturbed, Excused, Live
    <3>3. (\E p \in 1..Len(wire[j]) : Answer(wire[j][p])) => \E p \in 1..Len(wire'[j]) : Answer(wire'[j][p])
      BY <1>15
    <3>4. ASSUME NEW n \in Nat, ChunkCarried(j, n) \/ ChunkWaits(j, n)
          PROVE  (ChunkCarried(j, n) \/ ChunkWaits(j, n))'
      <4>1. ChunkCarried(j, n) => ChunkCarried(j, n)'
        BY <1>15 DEF ChunkCarried
      <4>2. ChunkWaits(j, n) => ChunkWaits(j, n)'
        BY <1>4, <1>7 DEF ChunkWaits
      <4> QED
        BY <3>4, <4>1, <4>2
    <3>5. \A n \in 1..run[j].chunks : n \in Nat
      OBVIOUS
    <3> QED
      BY <1>2, <3>1, <3>2, <3>3, <3>4, <3>5 DEF OneRun, Answer
  <2> QED
    BY <1>2, <2>1 DEF ReflInv, RunInv
<1> QED
  BY <1>11, <1>12, <1>13, <1>14, <1>16, <1>17 DEF ReflInv

\* A step after which every run is where it was.
LEMMA InputsKeep ==
  ASSUME ReflInv, UNCHANGED <<conn, ws, outbox, wire, active, streams, doomed, claimed, timeouts>>,
         run' \in [Runs -> RunTasks],
         \A j \in Runs : run'[j].pc = run[j].pc /\ run'[j].conn = run[j].conn /\ run'[j].chunks = run[j].chunks
  PROVE  ReflInv'
<1>1. ReflTypes'
  BY DEF ReflInv, ReflTypes
<1>2. \A k \in 1..Len(outbox) : outbox[k].id \in Runs
  BY ReflFacts DEF ReflInv
<1>3. SendersInv'
  BY <1>2 DEF ReflInv, SendersInv, Behind, WaitsAt
<1>4. FramesInv'
  BY <1>2 DEF ReflInv, FramesInv, FrameInv
<1>5. WireInv'
  BY DEF ReflInv, WireInv
<1>6. AnswerInv'
  BY DEF ReflInv, AnswerInv, Answer, NoChunks, Excused, AnswerInHand
<1>7. RunInv'
  <2>1. ASSUME NEW j \in Runs PROVE OneRun(j)'
    <3>1. OneRun(j)
      BY DEF ReflInv, RunInv
    <3>2. Undisturbed(j)' = Undisturbed(j) /\ Live(j)' = Live(j)
      BY DEF Undisturbed, Excused, Live
    <3>3. \A n \in 1..run[j].chunks :
            (ChunkCarried(j, n)' <=> ChunkCarried(j, n)) /\ (ChunkWaits(j, n)' <=> ChunkWaits(j, n))
      BY DEF ChunkCarried, ChunkWaits
    <3> QED
      BY <3>1, <3>2, <3>3 DEF OneRun, Answer
  <2> QED
    BY <2>1 DEF ReflInv, RunInv
<1> QED
  BY <1>1, <1>3, <1>4, <1>5, <1>6, <1>7 DEF ReflInv

\* The manager sends a turn to an agent run.
LEMMA InputKeeps == ASSUME ReflInv, NEW i \in Runs, SendInputStreamChunk(i) PROVE ReflInv'
<1>1. run \in [Runs -> RunTasks] /\ run[i] \in RunTasks /\ run[i].inputs \in Nat
  BY DEF ReflInv, ReflTypes, RunTasks
<1>2. run' = [run EXCEPT ![i] = [run[i] EXCEPT !.inputs = run[i].inputs + 1]]
  BY DEF SendInputStreamChunk
<1> DEFINE r == [run[i] EXCEPT !.inputs = run[i].inputs + 1]
<1>3. r \in RunTasks /\ r.pc = run[i].pc /\ r.conn = run[i].conn /\ r.chunks = run[i].chunks
  BY <1>1 DEF RunTasks
<1>4. run' \in [Runs -> RunTasks] /\ run'[i] = r /\ \A j \in Runs \ {i} : run'[j] = run[j]
  BY <1>1, <1>2, <1>3
<1> HIDE DEF r
<1>5. \A j \in Runs : run'[j].pc = run[j].pc /\ run'[j].conn = run[j].conn /\ run'[j].chunks = run[j].chunks
  BY <1>3, <1>4
<1>6. UNCHANGED <<conn, ws, outbox, wire, active, streams, doomed, claimed, timeouts>>
  BY DEF SendInputStreamChunk
<1> QED
  BY <1>4, <1>5, <1>6, InputsKeep

\* A step that leaves all but the input queues alone.
LEMMA QuietStepsKeep ==
  ASSUME ReflInv, UNCHANGED <<conn, ws, outbox, wire, run, active, streams, doomed, claimed, timeouts>>
  PROVE  ReflInv'
<1>1. /\ run' \in [Runs -> RunTasks]
      /\ \A j \in Runs : run'[j].pc = run[j].pc /\ run'[j].conn = run[j].conn /\ run'[j].chunks = run[j].chunks
  BY DEF ReflInv, ReflTypes
<1> QED
  BY <1>1, InputsKeep

\* The connection is opened or lost, or a run is cancelled: what the runs are owed shrinks.
LEMMA LinkKeeps ==
  ASSUME ReflInv, UNCHANGED <<outbox, wire, run, timeouts>>,
         conn' \in Nat, conn <= conn', ws' \in BOOLEAN, active' \subseteq active, streams' \subseteq streams,
         claimed \subseteq claimed', claimed' \subseteq Runs,
         ws' => doomed' \subseteq claimed', ~ws' => streams' = {},
         \/ ~ws' /\ conn' = conn
         \/ conn' > conn
         \/ ws /\ conn' = conn /\ streams' = streams,
         ~ws' => \A i \in Runs : Live(i) => i \in doomed'
  PROVE  ReflInv'
<1>1. ReflTypes' /\ conn \in Nat
  BY DEF ReflInv, ReflTypes
<1>2. SendersInv' /\ FramesInv'
  BY DEF ReflInv, SendersInv, Behind, WaitsAt, FramesInv, FrameInv
<1>3. WireInv'
  <2> SUFFICES ASSUME NEW i \in Runs, NEW p \in 1..Len(wire[i]) PROVE wire[i][p].conn <= conn'
    BY DEF ReflInv, WireInv
  <2>1. wire[i][p] \in CarriedFrames /\ wire[i][p].conn <= conn
    BY ReflFacts DEF ReflInv, WireInv
  <2>2. wire[i][p].conn \in Nat
    BY <2>1 DEF CarriedFrames
  <2> QED
    BY <1>1, <2>1, <2>2
<1>4. \A i \in Runs : Excused(i) => Excused(i)'
  BY DEF Excused
<1>5. AnswerInv'
  <2> SUFFICES ASSUME NEW j \in Runs, NEW p \in 1..Len(wire[j]), Answer(wire[j][p])
               PROVE  /\ run[j].pc \in Answering /\ NoChunks(j)'
                      /\ \A q \in 1..Len(wire[j]) : p < q /\ wire[j][p].conn = wire[j][q].conn =>
                           Answer(wire[j][q]) /\ Excused(j)'
                      /\ ws' /\ wire[j][p].conn = conn' =>
                           Excused(j)' \/ run[j].pc = "ended" \/ AnswerInHand(j)'
    BY DEF AnswerInv, Answer
  <2>1. /\ run[j].pc \in Answering /\ NoChunks(j)
        /\ \A q \in 1..Len(wire[j]) : p < q /\ wire[j][p].conn = wire[j][q].conn =>
             Answer(wire[j][q]) /\ Excused(j)
        /\ ws /\ wire[j][p].conn = conn => Excused(j) \/ run[j].pc = "ended" \/ AnswerInHand(j)
    BY DEF ReflInv, AnswerInv
  <2>2. NoChunks(j)' /\ (AnswerInHand(j) => AnswerInHand(j)')
    BY <2>1 DEF NoChunks, AnswerInHand, Answer
  <2>3. wire[j][p].conn <= conn /\ wire[j][p].conn \in Nat
    BY ReflFacts DEF ReflInv, WireInv, CarriedFrames
  <2> QED
    BY <1>1, <1>4, <2>1, <2>2, <2>3
<1>6. ASSUME NEW j \in Runs PROVE OneRun(j)'
  <2>1. OneRun(j) /\ run[j].conn \in Nat
    BY ReflFacts DEF ReflInv, RunInv
  <2>2. run[j].conn <= conn' /\ (run[j].pc = "none" => run[j].chunks = 0)
    BY <1>1, <2>1 DEF OneRun
  <2>3. j \in active' \cup streams' => Live(j)'
    BY <2>1 DEF OneRun, Live
  <2>4. ws' /\ conn' = run[j].conn => ws /\ conn' = conn /\ streams' = streams
    BY <1>1, <2>1 DEF OneRun
  <2>5. Undisturbed(j)' => Undisturbed(j)
    BY <1>4, <2>4 DEF Undisturbed
  <2>6. \A n \in 1..run[j].chunks :
          (ChunkCarried(j, n)' <=> ChunkCarried(j, n)) /\ (ChunkWaits(j, n)' <=> ChunkWaits(j, n))
    BY DEF ChunkCarried, ChunkWaits
  <2>7. j \in Agents /\ run[j].pc \in {"tracing", "running"} /\ ws' /\ conn' = run[j].conn => j \in streams'
    BY <2>1, <2>4 DEF OneRun
  <2>8. ~ws' /\ run[j].pc = "resolving" => j \in doomed'
    BY DEF Live
  <2>9. run[j].pc # "none" /\ Undisturbed(j)' =>
          /\ run[j].pc \notin {"internal", "closing"}
          /\ run[j].pc = "ended" => \E p \in 1..Len(wire[j]) : Answer(wire[j][p])
          /\ \A n \in 1..run[j].chunks : (ChunkCarried(j, n) \/ ChunkWaits(j, n))'
    BY <2>1, <2>5, <2>6 DEF OneRun
  <2> QED
    BY <2>2, <2>3, <2>7, <2>8, <2>9 DEF OneRun, Answer
<1>7. RunInv'
  BY <1>6 DEF RunInv
<1> QED
  BY <1>1, <1>2, <1>3, <1>5, <1>7 DEF ReflInv

\* A new connection is not the one of any run that goes on.
LEMMA ConnectKeeps == ASSUME ReflInv, Connect PROVE ReflInv'
<1>1. conn \in Nat /\ claimed \subseteq Runs
  BY DEF ReflInv, ReflTypes
<1> QED
  BY <1>1, LinkKeeps DEF Connect

\* A lost connection dooms the runs that live.
LEMMA DisconnectKeeps == ASSUME ReflInv, Disconnect PROVE ReflInv'
<1>1. conn \in Nat /\ claimed \subseteq Runs
  BY DEF ReflInv, ReflTypes
<1>2. /\ ws' = FALSE /\ doomed' = doomed \cup {i \in Runs : Live(i)} /\ streams' = {}
      /\ UNCHANGED <<conn, outbox, wire, run, active, claimed, timeouts>>
  BY DEF Disconnect
<1>3. \A i \in Runs : Live(i) => i \in doomed'
  BY <1>2
<1> QED
  <2>1. /\ conn' \in Nat /\ conn <= conn' /\ ws' \in BOOLEAN /\ active' \subseteq active
        /\ streams' \subseteq streams
        /\ claimed \subseteq claimed' /\ claimed' \subseteq Runs /\ ~ws' /\ conn' = conn
    <3>1. ws' \in BOOLEAN /\ ~ws'
      BY <1>2, Zenon
    <3>2. conn' = conn /\ conn <= conn /\ claimed' = claimed /\ active' = active
      BY <1>1, <1>2
    <3> QED
      BY <1>1, <1>2, <3>1, <3>2
  <2> QED
    BY <1>2, <1>3, <2>1, LinkKeeps

\* A run that cancelAction found is excused.
LEMMA CancelActionKeeps == ASSUME ReflInv, NEW i \in Runs, CancelAction(i) PROVE ReflInv'
<1>1. conn \in Nat /\ claimed \subseteq Runs /\ ws /\ doomed \subseteq claimed
  BY DEF ReflInv, ReflTypes, RunInv, CancelAction
<1> QED
  BY <1>1, LinkKeeps DEF CancelAction

\* A run begins: nothing of it waits or was carried.
LEMMA RunActionKeeps == ASSUME ReflInv, NEW i \in Runs, RunAction(i) PROVE ReflInv'
<1>1. /\ ReflTypes /\ run \in [Runs -> RunTasks] /\ run[i] \in RunTasks /\ conn \in Nat
      /\ outbox \in Seq(QueuedFrames)
      /\ run[i].pc = "none" /\ ws
      /\ run' = [run EXCEPT ![i] = [run[i] EXCEPT !.pc = "resolving", !.conn = conn]]
      /\ UNCHANGED <<conn, ws, outbox, wire, active, streams, inq, doomed, claimed, timeouts>>
  BY DEF ReflInv, ReflTypes, RunAction
<1> DEFINE r == [run[i] EXCEPT !.pc = "resolving", !.conn = conn]
<1>2. r \in RunTasks /\ r.pc = "resolving" /\ r.conn = conn /\ r.chunks = run[i].chunks
  BY <1>1 DEF RunTasks, RunPlaces
<1>3. run' \in [Runs -> RunTasks] /\ run'[i] = r /\ \A j \in Runs \ {i} : run'[j] = run[j]
  BY <1>1, <1>2
<1> HIDE DEF r
<1>4. ReflTypes'
  BY <1>1, <1>3 DEF ReflTypes
<1>5. \A j \in Runs : run'[j].chunks = run[j].chunks
  BY <1>2, <1>3
<1>6. \A k \in 1..Len(outbox) : outbox[k].id \in Runs /\ outbox[k].id # i
  <2> SUFFICES ASSUME NEW k \in 1..Len(outbox) PROVE outbox[k].id \in Runs /\ outbox[k].id # i
    OBVIOUS
  <2>1. outbox[k] \in QueuedFrames /\ outbox[k].id \in Runs /\ run[outbox[k].id].pc \in WaitsAt(outbox[k])
    BY <1>1, ReflFacts DEF ReflInv, SendersInv
  <2>2. run[outbox[k].id].pc # "none"
    BY <2>1, WhereFramesWait DEF FrameKinds
  <2> QED
    BY <1>1, <2>1, <2>2
<1>7. SendersInv' /\ FramesInv'
  BY <1>1, <1>3, <1>6 DEF ReflInv, SendersInv, FramesInv, Behind, WaitsAt, FrameInv
<1>8. WireInv'
  BY <1>1, <1>5 DEF ReflInv, WireInv
<1>9. \A p \in 1..Len(wire[i]) : ~Answer(wire[i][p])
  BY <1>1 DEF ReflInv, AnswerInv, Answering
<1>10. AnswerInv'
  <2> SUFFICES ASSUME NEW j \in Runs, NEW p \in 1..Len(wire[j]), Answer(wire[j][p])
               PROVE  /\ run'[j].pc \in Answering /\ NoChunks(j)'
                      /\ \A q \in 1..Len(wire[j]) : p < q /\ wire[j][p].conn = wire[j][q].conn =>
                           Answer(wire[j][q]) /\ Excused(j)'
                      /\ ws /\ wire[j][p].conn = conn => Excused(j)' \/ run'[j].pc = "ended" \/ AnswerInHand(j)'
    BY <1>1 DEF AnswerInv, Answer
  <2>1. /\ run[j].pc \in Answering /\ NoChunks(j)
        /\ \A q \in 1..Len(wire[j]) : p < q /\ wire[j][p].conn = wire[j][q].conn =>
             Answer(wire[j][q]) /\ Excused(j)
        /\ ws /\ wire[j][p].conn = conn => Excused(j) \/ run[j].pc = "ended" \/ AnswerInHand(j)
    BY DEF ReflInv, AnswerInv
  <2>2. run'[j] = run[j]
    BY <1>3, <1>9
  <2>3. NoChunks(j)' /\ (AnswerInHand(j) => AnswerInHand(j)') /\ (Excused(j) => Excused(j)')
    BY <1>1, <2>1 DEF NoChunks, AnswerInHand, Answer, Excused
  <2> QED
    BY <2>1, <2>2, <2>3
<1>11. ASSUME NEW j \in Runs PROVE OneRun(j)'
  <2>1. OneRun(j)
    BY DEF ReflInv, RunInv
  <2>2. CASE j = i
    <3>1. run'[i].chunks = 0
      BY <1>1, <1>5, <2>1, <2>2 DEF OneRun
    <3>2. i \notin active \cup streams
      BY <1>1, <2>1, <2>2 DEF OneRun, Live
    <3> QED
      BY <1>1, <1>2, <1>3, <2>2, <3>1, <3>2 DEF OneRun
  <2>3. CASE j # i
    <3>1. run'[j] = run[j]
      BY <1>3, <2>3
    <3>2. Undisturbed(j)' = Undisturbed(j) /\ Live(j)' = Live(j)
      BY <1>1, <3>1 DEF Undisturbed, Excused, Live
    <3>3. \A n \in 1..run[j].chunks :
            (ChunkCarried(j, n)' <=> ChunkCarried(j, n)) /\ (ChunkWaits(j, n)' <=> ChunkWaits(j, n))
      BY <1>1 DEF ChunkCarried, ChunkWaits
    <3> QED
      BY <1>1, <2>1, <3>1, <3>2, <3>3 DEF OneRun, Answer
  <2> QED
    BY <2>2, <2>3
<1>12. RunInv'
  BY <1>1, <1>11 DEF ReflInv, RunInv
<1> QED
  BY <1>4, <1>7, <1>8, <1>10, <1>12 DEF ReflInv

\* Nothing has been asked for.
LEMMA ReflectionStarts == ASSUME ReflectionInit PROVE ReflInv
<1>1. NewRun \in RunTasks /\ NewRun.pc = "none" /\ NewRun.conn = 0 /\ NewRun.chunks = 0
  BY DEF NewRun, RunTasks, RunPlaces
<1>2. /\ conn = 0 /\ ws = FALSE /\ outbox = <<>> /\ wire = [i \in Runs |-> <<>>]
      /\ run = [i \in Runs |-> NewRun]
      /\ active = {} /\ streams = {} /\ doomed = {} /\ claimed = {} /\ timeouts = 0
  BY DEF ReflectionInit
<1>3. ReflTypes
  <2>1. wire \in [Runs -> Seq(CarriedFrames)]
    <3>1. <<>> \in Seq(CarriedFrames)
      OBVIOUS
    <3> QED
      BY <1>2, <3>1
  <2>2. outbox \in Seq(QueuedFrames) /\ run \in [Runs -> RunTasks]
    BY <1>1, <1>2
  <2> QED
    BY <1>2, <2>1, <2>2 DEF ReflTypes
<1>4. SendersInv /\ FramesInv
  BY <1>2 DEF SendersInv, FramesInv
<1>5. WireInv /\ AnswerInv
  BY <1>2 DEF WireInv, AnswerInv
<1>6. ASSUME NEW i \in Runs PROVE OneRun(i)
  BY <1>1, <1>2 DEF OneRun
<1>7. RunInv
  BY <1>2, <1>6 DEF RunInv
<1> QED
  BY <1>3, <1>4, <1>5, <1>7 DEF ReflInv

\* The invariant is inductive.
LEMMA ReflectionKeeps == ASSUME ReflInv, [ReflectionNext]_reflVars PROVE ReflInv'
<1>1. CASE UNCHANGED reflVars
  BY <1>1, QuietStepsKeep DEF reflVars
<1>2. CASE Write
  BY <1>2, WriteKeeps
<1>3. CASE Sent
  BY <1>3, SentKeeps
<1>4. CASE WriteFails
  BY <1>4, WriteFailsKeeps
<1>5. ASSUME NEW i \in Runs, RunStep(i) PROVE ReflInv'
  <2>1. CASE TakeInput(i)
    BY <2>1, QuietStepsKeep DEF TakeInput
  <2> QED
    BY <1>5, <2>1, ResolvedKeeps, EmitKeeps, ActionReturnsKeeps, ActionRaisesKeeps, DrainedKeeps, FlushedKeeps,
       ReportKeeps, InternalKeeps, CancelLandsKeeps DEF RunStep
<1>6. CASE Connect
  BY <1>6, ConnectKeeps
<1>7. CASE Disconnect
  BY <1>7, DisconnectKeeps
<1>8. ASSUME NEW i \in Runs, RunAction(i) \/ CancelAction(i) \/ SendInputStreamChunk(i) \/ EndInputStream(i)
      PROVE  ReflInv'
  <2>1. CASE EndInputStream(i)
    BY <2>1, QuietStepsKeep DEF EndInputStream
  <2> QED
    BY <1>8, <2>1, RunActionKeeps, CancelActionKeeps, InputKeeps
<1> QED
  BY <1>1, <1>2, <1>3, <1>4, <1>5, <1>6, <1>7, <1>8 DEF ReflectionNext, ReflectionSystem

\* What the invariant says of the wire.
LEMMA TheRunIsTold == ASSUME ReflInv PROVE WireTellsTheRun
<1> SUFFICES ASSUME NEW i \in Runs, NEW p \in DOMAIN wire[i], NEW q \in DOMAIN wire[i],
                    p < q, wire[i][p].conn = wire[i][q].conn
             PROVE  /\ wire[i][p].kind = "chunk" /\ wire[i][q].kind = "chunk" => wire[i][p].n < wire[i][q].n
                    /\ Answer(wire[i][p]) => Answer(wire[i][q]) /\ (i \in claimed \/ timeouts > 0)
  BY DEF WireTellsTheRun
<1>1. p \in 1..Len(wire[i]) /\ q \in 1..Len(wire[i])
  BY ReflFacts DEF ReflInv
<1> QED
  BY <1>1 DEF ReflInv, WireInv, AnswerInv, Excused

\* At the end of an undisturbed run nothing of it waits, so each of its chunks was carried,
\* and once: as many as it emitted.
LEMMA TheRunIsAnswered == ASSUME ReflInv PROVE NoRunLeftUnanswered
<1> SUFFICES ASSUME NEW i \in Runs, run[i].pc = "ended", ws, conn = run[i].conn, i \notin claimed, timeouts = 0
             PROVE  /\ {k \in DOMAIN wire[i] : wire[i][k].kind \in AnswerKinds} # {}
                    /\ Cardinality({k \in DOMAIN wire[i] : wire[i][k].kind \in {"chunk"}}) = run[i].chunks
  BY DEF NoRunLeftUnanswered
<1>1. /\ OneRun(i) /\ Undisturbed(i) /\ DOMAIN wire[i] = 1..Len(wire[i]) /\ Len(wire[i]) \in Nat
      /\ run[i].chunks \in Nat
  BY ReflFacts DEF ReflInv, RunInv, Undisturbed, Excused
<1>2. PICK p \in 1..Len(wire[i]) : Answer(wire[i][p])
  BY <1>1 DEF OneRun
<1> DEFINE C == {k \in DOMAIN wire[i] : wire[i][k].kind \in {"chunk"}}
           g == [k \in C |-> wire[i][k].n]
<1>3. \A k \in C : k \in 1..Len(wire[i]) /\ wire[i][k].kind = "chunk"
  BY <1>1
<1>4. g \in [C -> 1..run[i].chunks]
  BY <1>3 DEF ReflInv, WireInv
<1>5. ASSUME NEW j \in C, NEW k \in C, j # k PROVE g[j] # g[k]
  <2>1. j \in Nat /\ k \in Nat /\ g[j] \in Nat /\ g[k] \in Nat
    BY <1>1, <1>3, <1>4
  <2>2. j < k => g[j] < g[k]
    BY <1>3 DEF ReflInv, WireInv
  <2>3. k < j => g[k] < g[j]
    BY <1>3 DEF ReflInv, WireInv
  <2> QED
    BY <1>5, <2>1, <2>2, <2>3
<1>6. ASSUME NEW n \in 1..run[i].chunks PROVE \E k \in C : g[k] = n
  <2>1. ChunkCarried(i, n) \/ ChunkWaits(i, n)
    BY <1>1 DEF OneRun
  <2>2. ~ChunkWaits(i, n)
    <3> SUFFICES ASSUME NEW k \in 1..Len(outbox), outbox[k].id = i PROVE FALSE
      BY DEF ChunkWaits
    <3>1. outbox[k] \in QueuedFrames /\ run[i].pc \in WaitsAt(outbox[k])
      BY ReflFacts DEF ReflInv, SendersInv
    <3> QED
      BY <3>1, WhereFramesWait DEF FrameKinds
  <2> QED
    BY <1>1, <2>1, <2>2 DEF ChunkCarried
<1> HIDE DEF C, g
<1>7. g \in Bijection(C, 1..run[i].chunks)
  BY <1>4, <1>5, <1>6 DEF Bijection, Injection, Surjection, IsInjective
<1>8. IsFiniteSet(C)
  <2>1. IsFiniteSet(1..Len(wire[i]))
    BY <1>1, FS_Interval
  <2> QED
    BY <1>3, <2>1, FS_Subset
<1>9. Cardinality(C) = Cardinality(1..run[i].chunks)
  BY <1>7, <1>8, FS_Bijection, Zenon DEF ExistsBijection
<1>10. Cardinality(1..run[i].chunks) = run[i].chunks
  <2>1. ASSUME NEW c \in Nat PROVE Cardinality(1..c) = c
    <3>1. 1 \in Int /\ c \in Int
      OBVIOUS
    <3>2. Cardinality(1..c) = IF 1 > c THEN 0 ELSE c - 1 + 1
      BY <3>1, FS_Interval, Zenon
    <3> QED
      BY <3>2
  <2> QED
    BY <1>1, <2>1
<1> QED
  BY <1>1, <1>2, <1>9, <1>10 DEF C, Answer

\* What the invariant says of active_actions and bidi_input_streams.
LEMMA RegistrationsAreLive == ASSUME ReflInv PROVE RegistrationsMatchRuns
<1>1. \A i \in Runs : OneRun(i)
  BY DEF ReflInv, RunInv
<1>2. active \subseteq Runs /\ streams \subseteq Runs /\ Agents \subseteq Runs /\ (~ws => streams = {})
  BY ReflectionConstants DEF ReflInv, ReflTypes, RunInv
<1>3. \A i \in active \cup streams : Live(i)
  BY <1>1, <1>2 DEF OneRun
<1>4. \A i \in Agents : run[i].pc = "running" /\ ws /\ conn = run[i].conn => i \in streams
  BY <1>1, <1>2 DEF OneRun
<1> QED
  BY <1>2, <1>3, <1>4 DEF RegistrationsMatchRuns

\* The dev UI sees each run as it went: on one connection its chunks in order, none twice,
\* nothing behind the one answer; an undisturbed run is answered, with every chunk before a
\* success; and what is registered for cancelling and feeding is alive.  For any runs, agent
\* runs, chunks, turns, reconnections, cancels and writes that time out, in any interleaving
\* (send_message, run_action, run_bidi_action, handle_cancel_action in _reflection_v2.py).
THEOREM DevUiSeesTheRunHolds == ReflectionSpec => []DevUiSeesTheRun
<1>1. ReflectionInit => ReflInv
  BY ReflectionStarts
<1>2. ReflInv /\ [ReflectionNext]_reflVars => ReflInv'
  BY ReflectionKeeps
<1>3. ReflInv => DevUiSeesTheRun
  BY TheRunIsTold, TheRunIsAnswered, RegistrationsAreLive DEF DevUiSeesTheRun
<1> QED
  BY <1>1, <1>2, <1>3, PTL DEF ReflectionSpec

-----------------------------------------------------------------------------
(* Calls of Gemini at the same time.  What a call asked for decides its client, *)
(* whenever the project of the machine was looked up.  Who finds a stored start   *)
(* of a conversation holds no more than its id, which is of one entry for ever:    *)
(* a call stores once under each position it has come to.                         *)

\* What the calls may be given: a plugin that starts, and anything they may ask for.
Asked == {Asks[i] : i \in DOMAIN Asks}
GeminiSpec ==
  /\ plugin \in {p \in GeminiPlugins : Starts(p)}
  /\ ask \in [Callers -> Asked]
  /\ GeminiInit
  /\ [][GeminiNext]_geminiVars

\* None is no location, and an address that is given is none of the hosts that stand
\* for the multi-regional locations.
GeminiConstants ==
  /\ Nil \notin MultiRegions
  /\ \A l \in MultiRegions :
       /\ Host(l) # Nil
       /\ \A p \in GeminiPlugins : Host(l) \notin {p.base, p.options}
       /\ \A a \in Asked : Host(l) # a.base

\* The client a call goes with is as KeysTravelAlone and HostServesLocation want it.
KeyIsRight(a, made) ==
  /\ ~SecretsAreRefused(a)
  /\ a.key # Nil => /\ made.key = a.key /\ made.creds = Nil
                    /\ made.project = Nil /\ made.base \in {a.base, Nil}
  /\ a.key = Nil => made.key = plugin.key /\ made.creds = plugin.creds
HostIsRight(a, made) ==
  /\ \A l \in MultiRegions : made.base = Host(l) => made.location = l
  /\ Multi(made.location) =>
       /\ made.project # Nil
       /\ made.base \in {Host(made.location), GivenAddress(plugin), a.base}
       /\ made.base # Nil

\* The calls whose client is being looked for, and those that look for a stored start.
Unplaced == {"new", "probing"}
Looking == {"listing", "updating", "creating"}

\* A call that waits for the machine's project needs one.
Probes(a) ==
  /\ ~SecretsAreRefused(a) /\ a.key = Nil
  /\ ~KeepsPluginClient(a)

\* An id that no call will give again.
Used(id) ==
  \E d \in Callers : \E n \in 0..call[d].k :
    id = <<d, n>> /\ (n = call[d].k => call[d].at \notin Looking)

Entry(e) ==
  /\ Used(e.id)
  /\ e.name = CacheKey(e.contents, e.model)

\* Whose start the id of a call stands for, while it is stored.
Holds(c) ==
  /\ Used(call[c].cached)
  /\ \A e \in caches : e.id = call[c].cached => /\ e.server = call[c].client
                                                /\ e.model = ask[c].model

CallShape(c) ==
  LET r == call[c] IN
  /\ r = [at |-> r.at, client |-> r.client, k |-> r.k, contents |-> r.contents,
          cached |-> r.cached, sent |-> r.sent]
  /\ r.k \in Nat /\ r.k <= Len(Contents(ask[c])) + 1

CallInv(c) ==
  LET r == call[c] IN
  /\ CallShape(c)
  /\ r.at \in Unplaced => r.client = Nil /\ r.cached = Nil
  /\ r.at = "probing" => Probes(ask[c])
  /\ r.client # Nil => KeyIsRight(ask[c], r.client) /\ HostIsRight(ask[c], r.client)
  /\ r.cached # Nil => Holds(c)
  /\ \A i \in DOMAIN r.sent : r.sent[i].server = r.client /\ r.sent[i].model = ask[c].model
  /\ r.sent # <<>> => r.at = "answered"

CachesInv ==
  /\ \A e \in caches : Entry(e)
  /\ \A e, f \in caches : e.id = f.id => e = f

GeminiInv ==
  /\ plugin \in GeminiPlugins /\ Starts(plugin)
  /\ ask \in [Callers -> Asked]
  /\ call = [c \in Callers |-> call[c]]
  /\ \A c \in Callers : CallInv(c)
  /\ CachesInv

\* The plugin's own client is right for a call that changes nothing about it.
LEMMA OwnClientIsRight ==
  ASSUME GeminiConstants, plugin \in GeminiPlugins, Starts(plugin), NEW a \in Asked,
         ~SecretsAreRefused(a), KeepsPluginClient(a), MakesClient(Kwargs(plugin))
  PROVE  KeyIsRight(a, Kwargs(plugin)) /\ HostIsRight(a, Kwargs(plugin))
<1> DEFINE made == Kwargs(plugin)
<1>1. made.key = plugin.key /\ made.creds = plugin.creds
  BY DEF Kwargs, VertexKwargs, GoogleKwargs
<1>2. a.key = Nil
  BY DEF KeepsPluginClient, Secret
<1>3. ~plugin.vertex => made.location = Nil /\ made.base = GivenAddress(plugin)
  BY DEF Kwargs, GoogleKwargs
<1>4. plugin.vertex => made.base = IF GivenAddress(plugin) = Nil /\ Multi(made.location)
                                     THEN Host(made.location) ELSE GivenAddress(plugin)
  BY DEF Kwargs, VertexKwargs
<1>5. plugin.vertex /\ Multi(made.location) => made.project # Nil
  BY DEF Starts
<1>6. \A l \in MultiRegions : GivenAddress(plugin) # Host(l)
  BY DEF GeminiConstants, GivenAddress, Either
<1>7. \A l, m : Host(l) = Host(m) => l = m
  BY DEF Host
<1>8. ~Multi(Nil)
  BY DEF GeminiConstants, Multi
<1>9. \A l \in MultiRegions : Host(l) # Nil
  BY DEF GeminiConstants
<1>10. KeyIsRight(a, made)
  BY <1>1, <1>2 DEF KeyIsRight
<1> HIDE DEF made
<1>11. HostIsRight(a, made)
  <2>1. CASE plugin.vertex
    BY <1>4, <1>5, <1>6, <1>7, <1>9, <2>1 DEF HostIsRight, Multi
  <2>2. CASE ~plugin.vertex
    BY <1>3, <1>6, <1>8, <2>2 DEF HostIsRight
  <2> QED
    BY <2>1, <2>2
<1> QED
  BY <1>10, <1>11 DEF made

\* A call's own client is right with any project, unless the plugin refuses it.
LEMMA CallsClientIsRight ==
  ASSUME GeminiConstants, plugin \in GeminiPlugins, Starts(plugin), NEW a \in Asked, NEW made,
         ~SecretsAreRefused(a),
         \/ made = OverriddenKwargs(a)
         \/ a.key = Nil /\ \E project : made = [OverriddenKwargs(a) EXCEPT !.project = project],
         ~(plugin.vertex /\ made.project = Nil /\ Multi(made.location))
  PROVE  KeyIsRight(a, made) /\ HostIsRight(a, made)
<1> DEFINE own == Kwargs(plugin)
           moved == AskedLocation(a) # Nil /\ GivenAddress(plugin) = Nil
           address == IF ~moved THEN own.base
                      ELSE IF Multi(a.location) THEN Host(a.location) ELSE Nil
           over == OverriddenKwargs(a)
<1>1. \A l \in MultiRegions : GivenAddress(plugin) # Host(l) /\ a.base # Host(l) /\ Host(l) # Nil
  BY DEF GeminiConstants, GivenAddress, Either
<1>2. \A l, m : Host(l) = Host(m) => l = m
  BY DEF Host
<1>3. ~Multi(Nil)
  BY DEF GeminiConstants, Multi
<1>4. CASE a.key # Nil
  <2>1. made = [key |-> a.key, creds |-> Nil, project |-> Nil, location |-> Nil, base |-> a.base]
    BY <1>4 DEF OverriddenKwargs, Secret
  <2>2. KeyIsRight(a, made)
    BY <1>4, <2>1 DEF KeyIsRight
  <2>3. HostIsRight(a, made)
    BY <1>1, <1>3, <2>1 DEF HostIsRight
  <2> QED
    BY <2>2, <2>3
<1>5. CASE a.key = Nil
  <2>1. over = [[own EXCEPT !.location = Either(AskedLocation(a), own.location)]
                     EXCEPT !.base = IF a.base # Nil THEN a.base ELSE address]
    BY <1>5, Zenon DEF OverriddenKwargs, Secret
  <2>2. own = [key |-> own.key, creds |-> own.creds, project |-> own.project,
               location |-> own.location, base |-> own.base]
    BY DEF Kwargs, VertexKwargs, GoogleKwargs
  <2>3. own.key = plugin.key /\ own.creds = plugin.creds
    BY DEF Kwargs, VertexKwargs, GoogleKwargs
  <2>4. ~plugin.vertex => own.location = Nil /\ own.base = GivenAddress(plugin)
    BY DEF Kwargs, GoogleKwargs
  <2>5. plugin.vertex => own.base = IF GivenAddress(plugin) = Nil /\ Multi(own.location)
                                      THEN Host(own.location) ELSE GivenAddress(plugin)
    BY DEF Kwargs, VertexKwargs
  <2> HIDE DEF own, over, moved
  <2>6. over = [key |-> own.key, creds |-> own.creds, project |-> own.project,
                location |-> Either(AskedLocation(a), own.location),
                base |-> IF a.base # Nil THEN a.base ELSE address]
    BY <2>1, <2>2
  <2>7. /\ made.key = own.key /\ made.creds = own.creds
        /\ made.location = Either(AskedLocation(a), own.location)
        /\ made.base = IF a.base # Nil THEN a.base ELSE address
    <3> HIDE DEF address
    <3>1. CASE made = over
      BY <2>6, <3>1
    <3>2. ASSUME NEW project, made = [over EXCEPT !.project = project]
          PROVE  /\ made.key = over.key /\ made.creds = over.creds
                 /\ made.location = over.location /\ made.base = over.base
      BY <2>6, <3>2
    <3> QED
      BY <2>6, <3>1, <3>2 DEF over
  <2>8. KeyIsRight(a, made)
    BY <1>5, <2>3, <2>7 DEF KeyIsRight
  <2>9. HostIsRight(a, made)
    <3>1. CASE ~plugin.vertex
      <4>1. made.location = Nil /\ made.base \in {a.base, GivenAddress(plugin)}
        BY <2>4, <2>7, <3>1 DEF AskedLocation, Either, moved
      <4> QED
        BY <1>1, <1>3, <4>1 DEF HostIsRight
    <3>2. CASE plugin.vertex /\ AskedLocation(a) = Nil
      <4>1. made.location = own.location /\ made.base = IF a.base # Nil THEN a.base ELSE own.base
        BY <2>7, <3>2 DEF Either, moved
      <4> QED
        BY <1>1, <1>2, <2>5, <3>2, <4>1 DEF HostIsRight, Multi
    <3>3. CASE plugin.vertex /\ AskedLocation(a) # Nil
      <4>1. made.location = a.location /\ a.location # Nil
        BY <2>7, <3>3 DEF Either, AskedLocation
      <4>2. CASE GivenAddress(plugin) # Nil
        <5>1. made.base = IF a.base # Nil THEN a.base ELSE GivenAddress(plugin)
          BY <2>5, <2>7, <3>3, <4>2 DEF moved
        <5> QED
          BY <1>1, <3>3, <4>1, <4>2, <5>1 DEF HostIsRight, Multi
      <4>3. CASE GivenAddress(plugin) = Nil
        <5>1. made.base = IF a.base # Nil THEN a.base
                          ELSE IF Multi(a.location) THEN Host(a.location) ELSE Nil
          BY <2>7, <3>3, <4>3 DEF moved
        <5> QED
          BY <1>1, <1>2, <3>3, <4>1, <5>1 DEF HostIsRight, Multi
      <4> QED
        BY <4>2, <4>3
    <3> QED
      BY <3>1, <3>2, <3>3
  <2> QED
    BY <2>8, <2>9
<1> QED
  BY <1>4, <1>5

\* Every call starts without a client, and nothing is stored.
LEMMA GeminiBegins ==
  ASSUME plugin \in {p \in GeminiPlugins : Starts(p)}, ask \in [Callers -> Asked], GeminiInit
  PROVE  GeminiInv
<1>1. call = [c \in Callers |-> call[c]] /\ \A c \in Callers : call[c] = NewCall
  BY DEF GeminiInit
<1>2. \A c \in Callers : CallShape(c)
  BY <1>1 DEF CallShape, NewCall
<1>3. \A c \in Callers : CallInv(c)
  BY <1>1, <1>2 DEF CallInv, NewCall, Unplaced
<1>4. CachesInv
  BY DEF GeminiInit, CachesInv
<1> QED
  BY <1>1, <1>3, <1>4 DEF GeminiInv

\* What a step of the call c leaves as it was: the other calls, and what the plugin and
\* the calls were given.
OneCall(c, r) ==
  /\ c \in Callers
  /\ Set(c, r)
  /\ plugin' = plugin /\ ask' = ask

\* Ids stay used, as long as a call that turns to look has come further.
LEMMA IdsStayUsed ==
  ASSUME GeminiInv, NEW c \in Callers, NEW r, OneCall(c, r),
         r.k \in Nat, call[c].k <= r.k,
         r.at \in Looking => call[c].k < r.k \/ call[c].at \in Looking,
         NEW id, Used(id)
  PROVE  Used(id)'
<1>1. PICK d \in Callers : \E n \in 0..call[d].k :
        id = <<d, n>> /\ (n = call[d].k => call[d].at \notin Looking)
  BY DEF Used
<1>2. call[d].k \in Nat /\ call[c].k \in Nat
  BY DEF GeminiInv, CallInv, CallShape
<1>3. call'[c] = r /\ \A other \in Callers \ {c} : call'[other] = call[other]
  BY DEF OneCall, Set, GeminiInv
<1>4. PICK n \in 0..call[d].k :
        id = <<d, n>> /\ (n = call[d].k => call[d].at \notin Looking)
  BY <1>1
<1>5. n \in 0..call'[d].k /\ (n = call'[d].k => call'[d].at \notin Looking)
  BY <1>2, <1>3, <1>4
<1> QED
  BY <1>4, <1>5 DEF Used

\* A call that stores nothing moves: nothing changes for the others, or for what is stored.
LEMMA CallMoves ==
  ASSUME GeminiInv, NEW c \in Callers, NEW r, OneCall(c, r), caches' = caches,
         r.k \in Nat, call[c].k <= r.k,
         r.at \in Looking => call[c].k < r.k \/ call[c].at \in Looking,
         call'[c] = r => CallInv(c)'
  PROVE  GeminiInv'
<1>1. /\ call' = [d \in Callers |-> call'[d]] /\ call'[c] = r
      /\ \A d \in Callers \ {c} : call'[d] = call[d]
  BY DEF OneCall, Set, GeminiInv
<1>2. \A id : Used(id) => Used(id)'
  BY IdsStayUsed
<1>3. \A a, made : /\ KeyIsRight(a, made) => KeyIsRight(a, made)'
                   /\ HostIsRight(a, made) => HostIsRight(a, made)'
                   /\ Probes(a) => Probes(a)'
  BY DEF OneCall, KeyIsRight, HostIsRight, Probes, KeepsPluginClient, AskedLocation
<1>4. ASSUME NEW d \in Callers \ {c} PROVE CallInv(d)'
  <2>1. CallInv(d) /\ call'[d] = call[d] /\ ask'[d] = ask[d]
    BY <1>1, <1>4 DEF GeminiInv, OneCall
  <2>2. CallShape(d)'
    BY <2>1 DEF CallInv, CallShape
  <2>3. call[d].cached # Nil => Holds(d)'
    BY <1>2, <2>1 DEF CallInv, Holds
  <2> QED
    BY <1>3, <2>1, <2>2, <2>3 DEF CallInv
<1>5. CachesInv'
  BY <1>2 DEF GeminiInv, CachesInv, Entry
<1> QED
  BY <1>1, <1>4, <1>5 DEF GeminiInv, OneCall

\* A call that keeps its client and its id moves on.
LEMMA MovesOn ==
  ASSUME GeminiInv, NEW c \in Callers, NEW r, OneCall(c, r), caches' = caches,
         r = [at |-> r.at, client |-> call[c].client, k |-> r.k, contents |-> r.contents,
              cached |-> call[c].cached, sent |-> r.sent],
         r.at \notin Unplaced,
         r.k \in Nat, call[c].k <= r.k, r.k <= Len(Contents(ask[c])) + 1,
         r.at \in Looking => call[c].k < r.k \/ call[c].at \in Looking,
         \A i \in DOMAIN r.sent : r.sent[i].server = call[c].client /\ r.sent[i].model = ask[c].model,
         r.sent # <<>> => r.at = "answered"
  PROVE  GeminiInv'
<1>1. call'[c] = r /\ ask'[c] = ask[c] /\ plugin' = plugin
  BY DEF OneCall, Set, GeminiInv
<1>2. r.client = call[c].client /\ r.cached = call[c].cached
  OBVIOUS
<1>3. CallInv(c)
  BY DEF GeminiInv
<1>4. CallShape(c)'
  BY <1>1, <1>2 DEF CallShape
<1>5. call[c].cached # Nil => Holds(c)'
  <2>1. \A id : Used(id) => Used(id)'
    BY IdsStayUsed
  <2> QED
    BY <1>1, <1>2, <1>3, <2>1 DEF CallInv, Holds
<1>6. r.client # Nil => KeyIsRight(ask[c], r.client)' /\ HostIsRight(ask[c], r.client)'
  BY <1>1, <1>2, <1>3 DEF CallInv, KeyIsRight, HostIsRight
<1>7. CallInv(c)'
  BY <1>1, <1>2, <1>3, <1>4, <1>5, <1>6 DEF CallInv, Unplaced
<1> QED
  BY <1>7, CallMoves

\* A call that fails has nothing more to do.
LEMMA FailKeeps ==
  ASSUME GeminiInv, NEW c \in Callers, call[c].at # "answered", Fail(c),
         plugin' = plugin, ask' = ask, caches' = caches
  PROVE  GeminiInv'
<1> DEFINE r == [call[c] EXCEPT !.at = "failed"]
<1>1. CallInv(c) /\ CallShape(c)
  BY DEF GeminiInv, CallInv
<1>2. r = [at |-> "failed", client |-> call[c].client, k |-> call[c].k,
           contents |-> call[c].contents, cached |-> call[c].cached, sent |-> call[c].sent]
  BY <1>1 DEF CallShape
<1>3. OneCall(c, r)
  BY DEF Fail, OneCall
<1>4. call[c].sent = <<>>
  BY <1>1 DEF CallInv
<1> HIDE DEF r
<1>5. r.at = "failed" /\ r.k = call[c].k /\ r.sent = <<>> /\ r.contents = call[c].contents
  BY <1>2, <1>4
<1>6. r = [at |-> r.at, client |-> call[c].client, k |-> r.k, contents |-> r.contents,
           cached |-> call[c].cached, sent |-> r.sent]
  BY <1>2, <1>5
<1>7. r.k \in Nat /\ call[c].k <= r.k /\ r.k <= Len(Contents(ask[c])) + 1
  BY <1>1, <1>5 DEF CallShape
<1>8. DOMAIN r.sent = {}
  BY <1>5
<1> QED
  BY <1>3, <1>5, <1>6, <1>7, <1>8, MovesOn DEF Unplaced, Looking

\* A call that has found its client goes on with it, or fails.
LEMMA ClientKeeps ==
  ASSUME GeminiConstants, GeminiInv, NEW c \in Callers, call[c].at \in Unplaced, NEW made,
         plugin' = plugin, ask' = ask, caches' = caches,
         \/ Fail(c)
         \/ /\ Set(c, [call[c] EXCEPT !.at = "building", !.client = made])
            /\ KeyIsRight(ask[c], made) /\ HostIsRight(ask[c], made)
  PROVE  GeminiInv'
<1>1. CallInv(c) /\ CallShape(c) /\ call[c].cached = Nil /\ call[c].sent = <<>>
  BY DEF GeminiInv, CallInv, Unplaced
<1>2. CASE Fail(c)
  BY <1>2, FailKeeps DEF Unplaced
<1>3. CASE ~Fail(c)
  <2> DEFINE r == [call[c] EXCEPT !.at = "building", !.client = made]
  <2>1. r = [at |-> "building", client |-> made, k |-> call[c].k,
             contents |-> call[c].contents, cached |-> call[c].cached, sent |-> call[c].sent]
    <3> DEFINE y == [call[c] EXCEPT !.at = "building"]
    <3>1. y = [at |-> "building", client |-> call[c].client, k |-> call[c].k,
               contents |-> call[c].contents, cached |-> call[c].cached, sent |-> call[c].sent]
      BY <1>1 DEF CallShape
    <3>2. r = [y EXCEPT !.client = made]
      OBVIOUS
    <3> HIDE DEF y, r
    <3> QED
      BY <3>1, <3>2
  <2>2. OneCall(c, r)
    BY <1>3 DEF OneCall
  <2> HIDE DEF r
  <2>3. r.at = "building" /\ r.client = made /\ r.k = call[c].k /\ r.cached = Nil /\ r.sent = <<>>
    BY <1>1, <2>1
  <2>4. ASSUME call'[c] = r PROVE CallInv(c)'
    <3>1. CallShape(c)'
      BY <1>1, <2>1, <2>3, <2>4 DEF CallShape
    <3>2. KeyIsRight(ask[c], made)' /\ HostIsRight(ask[c], made)'
      BY <1>3 DEF KeyIsRight, HostIsRight
    <3>3. DOMAIN r.sent = {}
      BY <2>3
    <3> QED
      BY <2>3, <2>4, <3>1, <3>2, <3>3 DEF CallInv, Unplaced
  <2>5. r.k \in Nat /\ call[c].k <= r.k /\ r.at \notin Looking
    BY <1>1, <2>3 DEF CallShape, Looking
  <2> QED
    BY <2>2, <2>4, <2>5, CallMoves
<1> QED
  BY <1>2, <1>3

LEMMA ResolveKeeps ==
  ASSUME GeminiConstants, GeminiInv, NEW c \in Callers, Resolve(c)
  PROVE  GeminiInv'
<1> DEFINE a == ask[c]
           kwargs == OverriddenKwargs(a)
<1>1. /\ call[c].at \in Unplaced /\ call[c].at # "answered" /\ a \in Asked
      /\ plugin \in GeminiPlugins /\ Starts(plugin)
      /\ plugin' = plugin /\ ask' = ask /\ caches' = caches
  BY DEF Resolve, GeminiInv, Unplaced
<1>2. CASE Fail(c)
  BY <1>1, <1>2, FailKeeps
<1>3. CASE /\ MakesClient(Kwargs(plugin)) /\ ~SecretsAreRefused(a) /\ KeepsPluginClient(a)
           /\ Set(c, [call[c] EXCEPT !.at = "building", !.client = Kwargs(plugin)])
  <2>1. KeyIsRight(a, Kwargs(plugin)) /\ HostIsRight(a, Kwargs(plugin))
    BY <1>1, <1>3, OwnClientIsRight
  <2> QED
    BY <1>1, <1>3, <2>1, ClientKeeps
<1>4. ASSUME NEW made, WithClient(c, made), ~SecretsAreRefused(a),
             \/ made = kwargs
             \/ a.key = Nil /\ \E project : made = [kwargs EXCEPT !.project = project]
      PROVE  GeminiInv'
  <2>1. CASE ~Fail(c)
    <3>1. /\ ~(plugin.vertex /\ made.project = Nil /\ Multi(made.location))
          /\ Set(c, [call[c] EXCEPT !.at = "building", !.client = made])
      BY <1>4, <2>1 DEF WithClient
    <3>2. KeyIsRight(a, made) /\ HostIsRight(a, made)
      BY <1>1, <1>4, <3>1, CallsClientIsRight
    <3> QED
      BY <1>1, <3>1, <3>2, ClientKeeps
  <2> QED
    BY <1>2, <2>1
<1>5. NeedsProject(kwargs) => a.key = Nil
  BY DEF NeedsProject, OverriddenKwargs, Secret
<1>6. CASE /\ ~SecretsAreRefused(a) /\ ~KeepsPluginClient(a) /\ NeedsProject(kwargs)
           /\ Set(c, [call[c] EXCEPT !.at = "probing"])
  <2> DEFINE r == [call[c] EXCEPT !.at = "probing"]
  <2>1. CallInv(c) /\ CallShape(c) /\ call[c].cached = Nil /\ call[c].sent = <<>> /\ call[c].client = Nil
    BY <1>1 DEF GeminiInv, CallInv, Unplaced
  <2>2. r = [at |-> "probing", client |-> call[c].client, k |-> call[c].k,
             contents |-> call[c].contents, cached |-> call[c].cached, sent |-> call[c].sent]
    BY <2>1 DEF CallShape
  <2>3. OneCall(c, r)
    BY <1>1, <1>6 DEF OneCall
  <2> HIDE DEF r
  <2>4. r.at = "probing" /\ r.client = Nil /\ r.k = call[c].k /\ r.cached = Nil /\ r.sent = <<>>
    BY <2>1, <2>2
  <2>5. ASSUME call'[c] = r PROVE CallInv(c)'
    <3>1. CallShape(c)'
      BY <1>1, <2>1, <2>2, <2>4, <2>5 DEF CallShape
    <3>2. Probes(a)'
      BY <1>1, <1>5, <1>6 DEF Probes, KeepsPluginClient, AskedLocation
    <3>3. DOMAIN r.sent = {}
      BY <2>4
    <3> QED
      BY <2>4, <2>5, <3>1, <3>2, <3>3 DEF CallInv, Unplaced
  <2>6. r.k \in Nat /\ call[c].k <= r.k /\ r.at \notin Looking
    BY <2>1, <2>4 DEF CallShape, Looking
  <2> QED
    BY <1>1, <2>3, <2>5, <2>6, CallMoves
<1>7. \/ Fail(c)
      \/ /\ MakesClient(Kwargs(plugin)) /\ ~SecretsAreRefused(a) /\ KeepsPluginClient(a)
         /\ Set(c, [call[c] EXCEPT !.at = "building", !.client = Kwargs(plugin)])
      \/ ~SecretsAreRefused(a) /\ WithClient(c, kwargs)
      \/ /\ ~SecretsAreRefused(a) /\ NeedsProject(kwargs)
         /\ \E project : WithClient(c, [kwargs EXCEPT !.project = project])
      \/ /\ ~SecretsAreRefused(a) /\ ~KeepsPluginClient(a) /\ NeedsProject(kwargs)
         /\ Set(c, [call[c] EXCEPT !.at = "probing"])
  BY DEF Resolve
<1> HIDE DEF kwargs
<1>8. CASE ~SecretsAreRefused(a) /\ WithClient(c, kwargs)
  BY <1>4, <1>8
<1>9. CASE /\ ~SecretsAreRefused(a) /\ NeedsProject(kwargs)
           /\ \E project : WithClient(c, [kwargs EXCEPT !.project = project])
  <2>1. PICK project : WithClient(c, [kwargs EXCEPT !.project = project])
    BY <1>9
  <2> QED
    BY <1>4, <1>5, <1>9, <2>1
<1> QED
  BY <1>2, <1>3, <1>6, <1>7, <1>8, <1>9

\* A call that has its stored start goes on behind it.
LEMMA KeptIs ==
  ASSUME NEW x,
         x = [at |-> x.at, client |-> x.client, k |-> x.k, contents |-> x.contents,
              cached |-> x.cached, sent |-> x.sent]
  PROVE  Kept(x) = [at |-> "building", client |-> x.client, k |-> x.k, contents |-> <<>>,
                    cached |-> x.cached, sent |-> x.sent]
<1> DEFINE y == [x EXCEPT !.at = "building"]
<1>1. y = [at |-> "building", client |-> x.client, k |-> x.k, contents |-> x.contents,
           cached |-> x.cached, sent |-> x.sent]
  OBVIOUS
<1>2. Kept(x) = [y EXCEPT !.contents = <<>>]
  BY DEF Kept
<1> HIDE DEF y
<1> QED
  BY <1>1, <1>2

\* A nonempty set of numbers has a least one.
Below == OpToRel(<, Nat)

LEMMA LeastNumber == ASSUME NEW S, S \subseteq Nat, S # {} PROVE \E m \in S : \A n \in S : m <= n
<1>1. IsWellFoundedOn(Below, Nat)
  BY NatLessThanWellFounded DEF Below
<1>2. \A a, b \in Nat : <<a, b>> \in Below <=> a < b
  BY DEF Below, OpToRel
<1>3. PICK m \in S : \A n \in S : ~(<<n, m>> \in Below)
  <2>1. \E m \in S : \A n \in S : ~(<<n, m>> \in Below)
    BY <1>1, WFMin
  <2> QED
    BY <2>1
<1>4. ASSUME NEW n \in S PROVE m <= n
  <2>1. <<n, m>> \in Below <=> n < m
    BY <1>2, Zenon
  <2> QED
    BY <1>3, <2>1
<1> QED
  BY <1>4


LEMMA ProbeKeeps ==
  ASSUME GeminiConstants, GeminiInv, NEW c \in Callers, Probe(c)
  PROVE  GeminiInv'
<1> DEFINE a == ask[c]
           made == [OverriddenKwargs(a) EXCEPT !.project = adc']
<1>1. /\ call[c].at = "probing" /\ a \in Asked /\ plugin \in GeminiPlugins /\ Starts(plugin)
      /\ plugin' = plugin /\ ask' = ask /\ caches' = caches /\ WithClient(c, made)
  BY DEF Probe, GeminiInv
<1>2. ~SecretsAreRefused(a) /\ a.key = Nil
  BY <1>1 DEF GeminiInv, CallInv, Probes
<1>3. \E project : made = [OverriddenKwargs(a) EXCEPT !.project = project]
  OBVIOUS
<1> HIDE DEF made
<1>4. CASE Fail(c)
  BY <1>1, <1>4, FailKeeps
<1>5. CASE ~Fail(c)
  <2>1. /\ ~(plugin.vertex /\ made.project = Nil /\ Multi(made.location))
        /\ Set(c, [call[c] EXCEPT !.at = "building", !.client = made])
    BY <1>1, <1>5 DEF WithClient
  <2>2. KeyIsRight(a, made) /\ HostIsRight(a, made)
    BY <1>1, <1>2, <1>3, <2>1, CallsClientIsRight
  <2> QED
    BY <1>1, <2>1, <2>2, ClientKeeps DEF Unplaced
<1> QED
  BY <1>4, <1>5

\* The next mark lies behind what has been built, so a call that looks for a stored start
\* has come further than any it stored.
LEMMA BuildKeeps ==
  ASSUME GeminiInv, NEW c \in Callers, Build(c)
  PROVE  GeminiInv'
<1> DEFINE turns == Contents(ask[c])
           marks == {k \in call[c].k..Len(turns) : turns[k].cache}
           end == IF marks = {} THEN Len(turns) ELSE CHOOSE k \in marks : \A j \in marks : k <= j
           contents == call[c].contents \o Texts(SubSeq(turns, call[c].k, end))
           text == IF contents = <<>> THEN <<" ">> ELSE contents
<1>1. CallInv(c) /\ CallShape(c) /\ call[c].at = "building" /\ call[c].sent = <<>>
  BY DEF Build, GeminiInv, CallInv
<1>2. call[c].k \in Nat /\ call[c].k <= Len(turns) + 1 /\ Len(turns) \in Nat
  BY <1>1 DEF CallShape
<1>3. plugin' = plugin /\ ask' = ask /\ caches' = caches
  BY DEF Build
<1>4. ASSUME NEW at, at \in {"sending", "listing"}, NEW words, NEW k \in Nat,
             call[c].k <= k, k <= Len(turns) + 1, at = "listing" => call[c].k < k,
             Set(c, [call[c] EXCEPT !.at = at, !.k = k, !.contents = words])
      PROVE  GeminiInv'
  <2> DEFINE r == [call[c] EXCEPT !.at = at, !.k = k, !.contents = words]
  <2>1. r = [at |-> at, client |-> call[c].client, k |-> k, contents |-> words,
             cached |-> call[c].cached, sent |-> call[c].sent]
    <3> DEFINE x == [call[c] EXCEPT !.at = at]
               y == [x EXCEPT !.k = k]
    <3>1. x = [at |-> at, client |-> call[c].client, k |-> call[c].k,
               contents |-> call[c].contents, cached |-> call[c].cached, sent |-> call[c].sent]
      BY <1>1 DEF CallShape
    <3>2. r = [y EXCEPT !.contents = words]
      OBVIOUS
    <3> HIDE DEF x
    <3>3. y = [at |-> at, client |-> call[c].client, k |-> k,
               contents |-> call[c].contents, cached |-> call[c].cached, sent |-> call[c].sent]
      BY <3>1
    <3> HIDE DEF y, r
    <3> QED
      BY <3>2, <3>3
  <2>2. OneCall(c, r)
    BY <1>3, <1>4 DEF OneCall
  <2> HIDE DEF r
  <2>3. r.at = at /\ r.k = k /\ r.sent = <<>> /\ r.contents = words /\ DOMAIN r.sent = {}
    BY <1>1, <2>1
  <2>4. r = [at |-> r.at, client |-> call[c].client, k |-> r.k, contents |-> r.contents,
             cached |-> call[c].cached, sent |-> r.sent]
    BY <1>1, <2>1, <2>3
  <2> QED
    BY <1>3, <1>4, <2>2, <2>3, <2>4, MovesOn DEF Unplaced, Looking
<1>5. \/ marks = {} /\ Set(c, [call[c] EXCEPT !.at = "sending", !.k = end + 1, !.contents = text])
      \/ Fail(c)
      \/ marks # {} /\ Set(c, [call[c] EXCEPT !.at = "listing", !.k = end + 1, !.contents = contents])
  BY DEF Build
<1> HIDE DEF contents, text
<1>6. marks # {} => end \in marks
  <2> SUFFICES ASSUME marks # {} PROVE \E k \in marks : \A j \in marks : k <= j
    OBVIOUS
  <2>1. marks \subseteq Nat
    BY <1>2
  <2> HIDE DEF marks
  <2> QED
    BY <2>1, LeastNumber
<1>7. CASE Fail(c)
  BY <1>1, <1>3, <1>7, FailKeeps
<1>8. CASE marks = {} /\ Set(c, [call[c] EXCEPT !.at = "sending", !.k = end + 1, !.contents = text])
  <2>1. end = Len(turns)
    BY <1>8
  <2>2. end + 1 \in Nat /\ call[c].k <= end + 1 /\ end + 1 <= Len(turns) + 1
    BY <1>2, <2>1
  <2> HIDE DEF marks, end, turns
  <2> QED
    BY <1>4, <1>8, <2>2
<1>9. CASE marks # {} /\ Set(c, [call[c] EXCEPT !.at = "listing", !.k = end + 1, !.contents = contents])
  <2>1. end \in call[c].k..Len(turns)
    BY <1>6, <1>9
  <2> HIDE DEF marks, end, turns
  <2>2. end + 1 \in Nat /\ call[c].k <= end + 1 /\ end + 1 <= Len(turns) + 1 /\ call[c].k < end + 1
    BY <1>2, <2>1
  <2> QED
    BY <1>4, <1>9, <2>2
<1> QED
  BY <1>5, <1>7, <1>8, <1>9

\* What is listed under the key was stored for the same model, on the same server.
LEMMA ListKeeps ==
  ASSUME GeminiInv, NEW c \in Callers, ListCaches(c)
  PROVE  GeminiInv'
<1>1. CallInv(c) /\ CallShape(c) /\ call[c].at = "listing" /\ call[c].sent = <<>>
  BY DEF ListCaches, GeminiInv, CallInv
<1>2. plugin' = plugin /\ ask' = ask /\ caches' = caches
  BY DEF ListCaches
<1>3. CASE Set(c, [call[c] EXCEPT !.at = "creating"])
  <2> DEFINE r == [call[c] EXCEPT !.at = "creating"]
  <2>1. r = [at |-> "creating", client |-> call[c].client, k |-> call[c].k,
             contents |-> call[c].contents, cached |-> call[c].cached, sent |-> call[c].sent]
    BY <1>1 DEF CallShape
  <2>2. OneCall(c, r)
    BY <1>2, <1>3 DEF OneCall
  <2> HIDE DEF r
  <2>3. /\ r.at = "creating" /\ r.k = call[c].k /\ r.contents = call[c].contents
        /\ r.sent = <<>> /\ DOMAIN r.sent = {}
    BY <1>1, <2>1
  <2>4. r = [at |-> r.at, client |-> call[c].client, k |-> r.k, contents |-> r.contents,
             cached |-> call[c].cached, sent |-> r.sent]
    BY <1>1, <2>1, <2>3
  <2>5. r.k \in Nat /\ call[c].k <= r.k /\ r.k <= Len(Contents(ask[c])) + 1
    BY <1>1, <2>3 DEF CallShape
  <2> QED
    BY <1>1, <1>2, <2>2, <2>3, <2>4, <2>5, MovesOn DEF Unplaced, Looking
<1>4. CASE \E e \in caches : /\ e.server = CacheServer(c)
                             /\ e.name = CacheKey(call[c].contents, ask[c].model)
                             /\ Set(c, [call[c] EXCEPT !.at = "updating", !.cached = e.id])
  <2>1. PICK e \in caches : /\ e.server = CacheServer(c)
                            /\ e.name = CacheKey(call[c].contents, ask[c].model)
                            /\ Set(c, [call[c] EXCEPT !.at = "updating", !.cached = e.id])
    BY <1>4
  <2> DEFINE r == [call[c] EXCEPT !.at = "updating", !.cached = e.id]
  <2>2. r = [at |-> "updating", client |-> call[c].client, k |-> call[c].k,
             contents |-> call[c].contents, cached |-> e.id, sent |-> call[c].sent]
    <3> DEFINE y == [call[c] EXCEPT !.at = "updating"]
    <3>1. y = [at |-> "updating", client |-> call[c].client, k |-> call[c].k,
               contents |-> call[c].contents, cached |-> call[c].cached, sent |-> call[c].sent]
      BY <1>1 DEF CallShape
    <3>2. r = [y EXCEPT !.cached = e.id]
      OBVIOUS
    <3> HIDE DEF y, r
    <3> QED
      BY <3>1, <3>2
  <2>3. OneCall(c, r)
    BY <1>2, <2>1 DEF OneCall
  <2> HIDE DEF r
  <2>4. /\ r.at = "updating" /\ r.client = call[c].client /\ r.k = call[c].k /\ r.cached = e.id
        /\ r.sent = <<>> /\ DOMAIN r.sent = {}
    BY <1>1, <2>2
  <2>5. r.k \in Nat /\ call[c].k <= r.k /\ r.k <= Len(Contents(ask[c])) + 1
    BY <1>1, <2>4 DEF CallShape
  <2>6. Used(e.id) /\ e.name = CacheKey(e.contents, e.model) /\ \A f \in caches : f.id = e.id => f = e
    BY DEF GeminiInv, CachesInv, Entry
  <2>7. e.server = call[c].client /\ e.model = ask[c].model
    BY <2>1, <2>6 DEF CacheKey, CacheServer
  <2>8. Used(e.id)'
    BY <1>1, <2>3, <2>4, <2>5, <2>6, IdsStayUsed DEF Looking
  <2>9. ASSUME call'[c] = r PROVE CallInv(c)'
    <3>1. CallShape(c)'
      BY <1>2, <2>2, <2>4, <2>5, <2>9 DEF CallShape
    <3>2. Holds(c)'
      BY <1>2, <2>4, <2>6, <2>7, <2>8, <2>9 DEF Holds
    <3>3. call'[c].client # Nil => KeyIsRight(ask[c], call[c].client)' /\ HostIsRight(ask[c], call[c].client)'
      BY <1>1, <1>2, <2>4, <2>9 DEF CallInv, KeyIsRight, HostIsRight
    <3> QED
      BY <1>2, <2>4, <2>9, <3>1, <3>2, <3>3 DEF CallInv, Unplaced
  <2> QED
    BY <1>1, <1>2, <2>3, <2>4, <2>5, <2>9, CallMoves DEF Looking
<1> QED
  BY <1>3, <1>4 DEF ListCaches

LEMMA UpdateKeeps ==
  ASSUME GeminiInv, NEW c \in Callers, UpdateCache(c)
  PROVE  GeminiInv'
<1>1. CallInv(c) /\ CallShape(c) /\ call[c].at = "updating" /\ call[c].sent = <<>>
  BY DEF UpdateCache, GeminiInv, CallInv
<1>2. plugin' = plugin /\ ask' = ask /\ caches' = caches
  BY DEF UpdateCache
<1>3. CASE Fail(c)
  BY <1>1, <1>2, <1>3, FailKeeps
<1>4. CASE Set(c, Kept(call[c]))
  <2> DEFINE r == Kept(call[c])
  <2>1. r = [at |-> "building", client |-> call[c].client, k |-> call[c].k,
             contents |-> <<>>, cached |-> call[c].cached, sent |-> call[c].sent]
    BY <1>1, KeptIs DEF CallShape
  <2>2. OneCall(c, r)
    BY <1>2, <1>4 DEF OneCall
  <2> HIDE DEF r
  <2>3. /\ r.at = "building" /\ r.k = call[c].k /\ r.contents = <<>>
        /\ r.sent = <<>> /\ DOMAIN r.sent = {}
    BY <1>1, <2>1
  <2>4. r = [at |-> r.at, client |-> call[c].client, k |-> r.k, contents |-> r.contents,
             cached |-> call[c].cached, sent |-> r.sent]
    BY <1>1, <2>1, <2>3
  <2>5. r.k \in Nat /\ call[c].k <= r.k /\ r.k <= Len(Contents(ask[c])) + 1
    BY <1>1, <2>3 DEF CallShape
  <2> QED
    BY <1>1, <1>2, <2>2, <2>3, <2>4, <2>5, MovesOn DEF Unplaced, Looking
<1> QED
  BY <1>3, <1>4 DEF UpdateCache

\* What a call stores has an id of its own: it has not come to its position before.
LEMMA CreateKeeps ==
  ASSUME GeminiInv, NEW c \in Callers, CreateCache(c)
  PROVE  GeminiInv'
<1>0. SUFFICES ASSUME NEW id, id = <<c, call[c].k>>,
                      NEW entry, entry = [id |-> id, server |-> CacheServer(c), model |-> ask[c].model,
                                          name |-> CacheKey(call[c].contents, ask[c].model),
                                          contents |-> call[c].contents]
               PROVE  GeminiInv'
  OBVIOUS
<1> DEFINE x == Kept(call[c])
           r == [x EXCEPT !.cached = id]
<1>1. /\ CallInv(c) /\ CallShape(c) /\ call[c].at = "creating" /\ call[c].sent = <<>>
      /\ call[c].k \in Nat /\ call[c].k <= Len(Contents(ask[c])) + 1
  BY DEF CreateCache, GeminiInv, CallInv, CallShape
<1>2. /\ plugin' = plugin /\ ask' = ask /\ caches' = caches \union {entry} /\ Set(c, r)
  BY <1>0 DEF CreateCache
<1>3. r = [at |-> "building", client |-> call[c].client, k |-> call[c].k,
           contents |-> <<>>, cached |-> id, sent |-> call[c].sent]
  <2>1. x = [at |-> "building", client |-> call[c].client, k |-> call[c].k,
             contents |-> <<>>, cached |-> call[c].cached, sent |-> call[c].sent]
    BY <1>1, KeptIs DEF CallShape
  <2> HIDE DEF x
  <2> QED
    BY <2>1
<1>4. OneCall(c, r)
  BY <1>2 DEF OneCall
<1> HIDE DEF r, x
<1>5. /\ r.at = "building" /\ r.client = call[c].client /\ r.k = call[c].k /\ r.contents = <<>>
      /\ r.cached = id /\ r.sent = <<>> /\ DOMAIN r.sent = {}
  BY <1>1, <1>3
<1>6. /\ call' = [d \in Callers |-> call'[d]] /\ call'[c] = r
      /\ \A d \in Callers \ {c} : call'[d] = call[d]
  BY <1>2 DEF Set, GeminiInv
<1>7. \A i : Used(i) => Used(i)'
  BY <1>1, <1>4, <1>5, IdsStayUsed DEF Looking
<1>8. ~Used(id)
  BY <1>0, <1>1 DEF Used, Looking
<1>9. Used(id)'
  BY <1>0, <1>1, <1>5, <1>6 DEF Used, Looking
<1>10. /\ entry.id = id /\ entry.server = call[c].client /\ entry.model = ask[c].model
       /\ entry.name = CacheKey(entry.contents, entry.model)
  BY <1>0 DEF CacheServer
<1>11. \A e \in caches : Used(e.id) /\ e.id # id
  BY <1>8 DEF GeminiInv, CachesInv, Entry
<1>12. \A a, made : /\ KeyIsRight(a, made) => KeyIsRight(a, made)'
                    /\ HostIsRight(a, made) => HostIsRight(a, made)'
                    /\ Probes(a) => Probes(a)'
  BY <1>2 DEF KeyIsRight, HostIsRight, Probes, KeepsPluginClient, AskedLocation
<1>13. ASSUME NEW d \in Callers \ {c} PROVE CallInv(d)'
  <2>1. CallInv(d) /\ call'[d] = call[d] /\ ask'[d] = ask[d]
    BY <1>2, <1>6 DEF GeminiInv
  <2>2. CallShape(d)'
    BY <2>1 DEF CallInv, CallShape
  <2>3. call[d].cached # Nil => Holds(d)'
    BY <1>2, <1>7, <1>8, <1>10, <2>1 DEF CallInv, Holds
  <2> QED
    BY <1>12, <2>1, <2>2, <2>3 DEF CallInv
<1>14. CallInv(c)'
  <2>1. CallShape(c)'
    BY <1>1, <1>2, <1>3, <1>5, <1>6 DEF CallShape
  <2>2. Holds(c)'
    BY <1>2, <1>5, <1>6, <1>9, <1>10, <1>11 DEF Holds
  <2>3. call'[c].client # Nil => KeyIsRight(ask[c], call[c].client)' /\ HostIsRight(ask[c], call[c].client)'
    BY <1>1, <1>2, <1>5, <1>6 DEF CallInv, KeyIsRight, HostIsRight
  <2> QED
    BY <1>5, <1>6, <2>1, <2>2, <2>3 DEF CallInv, Unplaced
<1>15. CachesInv'
  <2>1. \A e \in caches' : Entry(e)'
    BY <1>2, <1>7, <1>9, <1>10 DEF GeminiInv, CachesInv, Entry
  <2>2. \A e, f \in caches' : e.id = f.id => e = f
    BY <1>2, <1>10, <1>11 DEF GeminiInv, CachesInv
  <2> QED
    BY <2>1, <2>2 DEF CachesInv
<1> QED
  BY <1>2, <1>6, <1>13, <1>14, <1>15 DEF GeminiInv

\* What the server finds under the id of a call is the call's.
LEMMA SendKeeps ==
  ASSUME GeminiInv, NEW c \in Callers, SendRequest(c)
  PROVE  GeminiInv'
<1> DEFINE start == IF call[c].cached = Nil THEN <<>>
                    ELSE <<CHOOSE e \in caches : e.id = call[c].cached>>
           r == [call[c] EXCEPT !.at = "answered", !.sent = start]
<1>1. CallInv(c) /\ CallShape(c) /\ call[c].at = "sending"
  BY DEF SendRequest, GeminiInv, CallInv
<1>2. plugin' = plugin /\ ask' = ask /\ caches' = caches
  BY DEF SendRequest
<1>3. CASE Fail(c)
  BY <1>1, <1>2, <1>3, FailKeeps
<1>4. CASE /\ call[c].cached # Nil => \E e \in caches : e.id = call[c].cached
           /\ Set(c, r)
  <2>1. r = [at |-> "answered", client |-> call[c].client, k |-> call[c].k,
             contents |-> call[c].contents, cached |-> call[c].cached, sent |-> start]
    <3> DEFINE y == [call[c] EXCEPT !.at = "answered"]
    <3>1. y = [at |-> "answered", client |-> call[c].client, k |-> call[c].k,
               contents |-> call[c].contents, cached |-> call[c].cached, sent |-> call[c].sent]
      BY <1>1 DEF CallShape
    <3>2. r = [y EXCEPT !.sent = start]
      OBVIOUS
    <3> HIDE DEF y, r, start
    <3> QED
      BY <3>1, <3>2
  <2>2. OneCall(c, r)
    BY <1>2, <1>4 DEF OneCall
  <2>3. \A i \in DOMAIN start : start[i].server = call[c].client /\ start[i].model = ask[c].model
    <3>1. CASE call[c].cached = Nil
      BY <3>1
    <3>2. CASE call[c].cached # Nil
      <4> DEFINE e == CHOOSE f \in caches : f.id = call[c].cached
      <4>1. e \in caches /\ e.id = call[c].cached
        BY <1>4, <3>2
      <4> HIDE DEF e
      <4>2. e.server = call[c].client /\ e.model = ask[c].model
        BY <1>1, <3>2, <4>1 DEF CallInv, Holds
      <4>3. start = <<e>>
        BY <3>2 DEF e
      <4> QED
        BY <4>2, <4>3
    <3> QED
      BY <3>1, <3>2
  <2> HIDE DEF r, start
  <2>4. r.at = "answered" /\ r.k = call[c].k /\ r.sent = start /\ r.contents = call[c].contents
    BY <2>1
  <2>5. r = [at |-> r.at, client |-> call[c].client, k |-> r.k, contents |-> r.contents,
             cached |-> call[c].cached, sent |-> r.sent]
    BY <2>1, <2>4
  <2>6. r.k \in Nat /\ call[c].k <= r.k /\ r.k <= Len(Contents(ask[c])) + 1
    BY <1>1, <2>4 DEF CallShape
  <2> QED
    BY <1>2, <2>2, <2>3, <2>4, <2>5, <2>6, MovesOn DEF Unplaced, Looking
<1> QED
  BY <1>3, <1>4 DEF SendRequest

\* What expires is no longer of anybody's.
LEMMA ExpireKeeps ==
  ASSUME GeminiInv, Expire
  PROVE  GeminiInv'
<1>1. plugin' = plugin /\ ask' = ask /\ call' = call /\ caches' \subseteq caches
  BY DEF Expire
<1>2. \A id : Used(id) => Used(id)'
  BY <1>1 DEF Used
<1>3. ASSUME NEW c \in Callers PROVE CallInv(c)'
  <2>1. CallInv(c)
    BY DEF GeminiInv
  <2>2. CallShape(c)'
    BY <1>1, <2>1 DEF CallInv, CallShape
  <2>3. call[c].cached # Nil => Holds(c)'
    BY <1>1, <1>2, <2>1 DEF CallInv, Holds
  <2> QED
    BY <1>1, <2>1, <2>2, <2>3
       DEF CallInv, KeyIsRight, HostIsRight, Probes, KeepsPluginClient, AskedLocation
<1>4. CachesInv'
  BY <1>1, <1>2 DEF GeminiInv, CachesInv, Entry
<1> QED
  BY <1>1, <1>3, <1>4 DEF GeminiInv

\* No step of any call, and no expiry, breaks the invariant.
LEMMA GeminiMoves ==
  ASSUME GeminiConstants, GeminiInv, [GeminiNext]_geminiVars
  PROVE  GeminiInv'
<1>1. CASE UNCHANGED geminiVars
  <2>1. plugin' = plugin /\ ask' = ask /\ call' = call /\ caches' = caches
    BY <1>1 DEF geminiVars
  <2>2. ASSUME NEW c \in Callers PROVE CallInv(c)'
    BY <2>1, <2>2 DEF GeminiInv, CallInv, CallShape, Holds, Used, KeyIsRight, HostIsRight, Probes,
                      KeepsPluginClient, AskedLocation
  <2>3. CachesInv'
    BY <2>1 DEF GeminiInv, CachesInv, Entry, Used
  <2> QED
    BY <2>1, <2>2, <2>3 DEF GeminiInv
<1>2. ASSUME NEW c \in Callers,
             \/ Resolve(c) \/ Probe(c) \/ Build(c) \/ ListCaches(c)
             \/ UpdateCache(c) \/ CreateCache(c) \/ SendRequest(c)
      PROVE  GeminiInv'
  BY <1>2, ResolveKeeps, ProbeKeeps, BuildKeeps, ListKeeps, UpdateKeeps, CreateKeeps, SendKeeps
<1>3. CASE Expire
  BY <1>3, ExpireKeeps
<1> QED
  BY <1>1, <1>2, <1>3 DEF GeminiNext

\* However many calls run at once and however their requests, the thread that looks for
\* the machine's project and the expiry of cached contents interleave: a tenant's key
\* travels without anything of the plugin's and one without a key never with another's,
\* no request leaves for the host of another location, and the stored start a model reads
\* was stored for that model on the server of the call's own client (google.py,
\* models/gemini.py, context_caching/utils.py).
THEOREM CallsGoTheirOwnWay ==
  ASSUME GeminiConstants
  PROVE  GeminiSpec => [](StartIsItsOwn /\ KeysTravelAlone /\ HostServesLocation)
<1>1. plugin \in {p \in GeminiPlugins : Starts(p)} /\ ask \in [Callers -> Asked] /\ GeminiInit => GeminiInv
  BY GeminiBegins
<1>2. GeminiInv /\ [GeminiNext]_geminiVars => GeminiInv'
  BY GeminiMoves
<1>3. GeminiInv => StartIsItsOwn /\ KeysTravelAlone /\ HostServesLocation
  <2> SUFFICES ASSUME GeminiInv PROVE StartIsItsOwn /\ KeysTravelAlone /\ HostServesLocation
    OBVIOUS
  <2>1. StartIsItsOwn
    BY DEF GeminiInv, CallInv, StartIsItsOwn, Finished
  <2>2. KeysTravelAlone
    BY DEF GeminiInv, CallInv, KeyIsRight, KeysTravelAlone, Placed
  <2>3. HostServesLocation
    BY DEF GeminiInv, CallInv, HostIsRight, HostServesLocation, Placed
  <2> QED
    BY <2>1, <2>2, <2>3
<1> QED
  BY <1>1, <1>2, <1>3, PTL DEF GeminiSpec
=============================================================================
