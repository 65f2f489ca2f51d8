-------------------------- MODULE LogForwarderProofs --------------------------
(***************************************************************************)
(* Theorems about LogForwarder, for any number of callers, loops and       *)
(* entries and every size of the buffer.  A step leaves what the places    *)
(* hold as it is, moves what one holds to another, pushes what one holds,  *)
(* or logs a new entry (Shapes); each keeps every entry in one place until *)
(* it is pushed (HeldOnce, NoneLost).                                      *)
(***************************************************************************)
EXTENDS LogForwarder, FiniteSetTheorems, SequenceTheorems, TLAPS

\* The places an entry may be in: the hands of a caller or of a loop, a batch
\* of a full buffer, the buffer.
Places == ({"caller"} \X Callers) \cup ({"loop"} \X Loops)
            \cup ({"spare"} \X Batch) \cup {<<"buffer", 0>>}
Buffer == <<"buffer", 0>>

InPlaces(callers, loops, full, buf) ==
    [p \in Places |-> CASE p[1] = "caller" -> callers[p[2]].batch
                        [] p[1] = "loop" -> loops[p[2]].batch
                        [] p[1] = "spare" -> IF p[2] \in full THEN p[2] ELSE <<>>
                        [] p[1] = "buffer" -> buf]
Contents == InPlaces(caller, flusher, spare, buffer)

\* Only a goroutine about to push has a batch.
HandsEmpty ==
    /\ \A c \in Callers : caller[c].pc # "push" => caller[c].batch = <<>>
    /\ \A l \in Loops : flusher[l].pc # "push" => flusher[l].batch = <<>>

Distinct(batch) == \A i, j \in DOMAIN batch : batch[i] = batch[j] => i = j

\* An entry that is in a place was logged, is there once, in no other place,
\* and was not pushed.
Once(con, log, sent) ==
    \A p \in Places :
        /\ Distinct(con[p])
        /\ \A e \in Entries : InBatch(e, con[p]) =>
              e <= log /\ sent[e] = 0 /\ \A q \in Places : InBatch(e, con[q]) => q = p

\* An entry that is in no place was pushed, once, or not logged yet.
NoneLost(con, log, sent) ==
    \A e \in Entries : \/ sent[e] = 0 /\ log < e
                       \/ sent[e] = 0 /\ e <= log /\ \E p \in Places : InBatch(e, con[p])
                       \/ sent[e] = 1 /\ e <= log

Conserved(con, log, sent) == Once(con, log, sent) /\ NoneLost(con, log, sent)

LogInv == TypeOK /\ HandsEmpty /\ Conserved(Contents, logged, pushed)

-----------------------------------------------------------------------------
(* Types.                                                                  *)

LEMMA BatchIsSeq == \A b : b \in Batch <=> b \in Seq(Entries) /\ Len(b) <= MaxBuffer
  <1> USE LogAssumption DEF LogAssumption
  <1>1. ASSUME NEW b \in Batch
        PROVE  b \in Seq(Entries) /\ Len(b) <= MaxBuffer
    <2>1. PICK n \in 0..MaxBuffer : b \in [1..n -> Entries]
      BY DEF Batch
    <2>2. n \in Nat /\ n <= MaxBuffer
      BY <2>1
    <2>3. b \in Seq(Entries) /\ Len(b) = n
      BY <2>1, <2>2
    <2> QED BY <2>2, <2>3
  <1>2. ASSUME NEW b \in Seq(Entries), Len(b) <= MaxBuffer
        PROVE  b \in Batch
    <2>1. Len(b) \in 0..MaxBuffer /\ b \in [1..Len(b) -> Entries]
      BY <1>2
    <2> QED BY <2>1 DEF Batch
  <1> QED BY <1>1, <1>2

LEMMA EmptyBatch == <<>> \in Batch /\ Len(<<>>) = 0
  <1>1. <<>> \in Seq(Entries) /\ Len(<<>>) = 0
    OBVIOUS
  <1>2. 0 <= MaxBuffer
    BY LogAssumption DEF LogAssumption
  <1> QED BY <1>1, <1>2, BatchIsSeq

CallerType == [pc : {"idle", "spawn", "signal", "flush", "push", "log"}, batch : Batch]
LoopType == [pc : {"unborn", "top", "select", "flush", "push", "ended"}, batch : Batch]

\* Handle leaves the buffer shorter than it may get, what it hands over is one
\* batch, and either way the new entry comes behind those that waited.
LEMMA HandleEffect ==
    ASSUME TypeOK, Handle
    PROVE  /\ buffer' \in Batch /\ Len(buffer') < MaxBuffer
           /\ logged' \in 0..MaxEntries
           /\ spare' \subseteq Batch
           /\ \/ ~enabled /\ UNCHANGED <<buffer, logged, spare>>
              \/ /\ enabled /\ logged + 1 \in Entries /\ logged' = logged + 1
                 /\ \E full \in Batch : 
                       /\ full = Append(buffer, logged + 1)
                       /\ \/ buffer' = full /\ spare' = spare
                          \/ buffer' = <<>> /\ spare' = spare \cup {full}
  <1> USE LogAssumption DEF LogAssumption, TypeOK
  <1>1. CASE ~enabled
    BY <1>1 DEF Handle
  <1>2. CASE enabled
    <2>1. logged < MaxEntries /\ logged' = logged + 1
      BY <1>2 DEF Handle
    <2>2. logged + 1 \in Entries /\ logged' \in 0..MaxEntries
      BY <2>1 DEF Entries
    <2>3. PICK full : full = Append(buffer, logged + 1)
      OBVIOUS
    <2>4. buffer \in Seq(Entries) /\ Len(buffer) \in Nat
      BY BatchIsSeq
    <2>5. full \in Seq(Entries) /\ Len(full) = Len(buffer) + 1
      BY <2>2, <2>3, <2>4
    <2>6. full \in Batch
      BY <2>4, <2>5, BatchIsSeq
    <2>7. \/ Len(full) >= MaxBuffer /\ buffer' = <<>> /\ spare' = spare \cup {full}
          \/ ~(Len(full) >= MaxBuffer) /\ buffer' = full /\ spare' = spare
      BY <1>2, <2>1, <2>3 DEF Handle
    <2>8. buffer' \in Batch /\ Len(buffer') < MaxBuffer
      BY <2>5, <2>6, <2>7, EmptyBatch
    <2>9. spare' \subseteq Batch
      BY <2>6, <2>7
    <2> QED BY <1>2, <2>1, <2>2, <2>3, <2>6, <2>7, <2>8, <2>9
  <1> QED BY <1>1, <1>2

\* What Push adds to the history of an entry.
LEMMA PushCounts ==
    ASSUME TypeOK, NEW batch \in Batch, Push(batch)
    PROVE  /\ pushed' \in [Entries -> Nat]
           /\ \A e \in Entries :
                 /\ ~InBatch(e, batch) => pushed'[e] = pushed[e]
                 /\ InBatch(e, batch) /\ Distinct(batch) => pushed'[e] = pushed[e] + 1
  <1> DEFINE Spots(e) == {i \in DOMAIN batch : batch[i] = e}
  <1>1. batch \in Seq(Entries) /\ Len(batch) \in Nat
    BY BatchIsSeq
  <1>2. IsFiniteSet(DOMAIN batch)
    <2>1. DOMAIN batch = 1..Len(batch)
      BY <1>1
    <2> QED BY <1>1, <2>1, FS_Interval
  <1>3. \A e : IsFiniteSet(Spots(e)) /\ Cardinality(Spots(e)) \in Nat
    BY <1>2, FS_Subset, FS_CardinalityType
  <1>4. \A e \in Entries : pushed'[e] = pushed[e] + Cardinality(Spots(e))
    BY DEF Push, TypeOK
  <1>5. pushed' \in [Entries -> Nat]
    <2> HIDE DEF Spots
    <2>1. \E f : pushed' = [e \in Entries |-> f[e]]
      <3>1. PICK f : f = pushed'
        OBVIOUS
      <3>2. f = [e \in Entries |-> f[e]]
        BY <3>1, Zenon DEF Push
      <3> QED BY <3>1, <3>2
    <2>2. \A e \in Entries : pushed'[e] \in Nat
      BY <1>3, <1>4 DEF TypeOK
    <2> QED BY <2>1, <2>2
  <1>6. ASSUME NEW e \in Entries, ~InBatch(e, batch)
        PROVE  pushed'[e] = pushed[e]
    <2>1. Spots(e) = {}
      BY <1>6 DEF InBatch
    <2>2. Cardinality(Spots(e)) = 0
      BY <2>1, FS_EmptySet
    <2> QED BY <1>4, <2>2 DEF TypeOK
  <1>7. ASSUME NEW e \in Entries, InBatch(e, batch), Distinct(batch)
        PROVE  pushed'[e] = pushed[e] + 1
    <2>1. PICK i \in DOMAIN batch : batch[i] = e
      BY <1>7 DEF InBatch
    <2>2. Spots(e) = {i}
      BY <1>7, <2>1 DEF Distinct
    <2>3. Cardinality(Spots(e)) = 1
      BY <2>2, FS_Singleton
    <2> QED BY <1>4, <2>3
  <1> QED BY <1>5, <1>6, <1>7

LEMMA TypeInit == Init => TypeOK /\ HandsEmpty
  <1> SUFFICES ASSUME Init PROVE TypeOK /\ HandsEmpty
    OBVIOUS
  <1>1. <<>> \in Batch /\ Len(<<>>) < MaxBuffer
    BY EmptyBatch, LogAssumption DEF LogAssumption
  <1>2. 0 \in 0..MaxEntries
    BY LogAssumption DEF LogAssumption
  <1> QED BY <1>1, <1>2 DEF Init, TypeOK, HandsEmpty, Idle, Unborn

\* The steps of a caller or of a loop change where it stands and what it has in
\* its hands; only to push it takes something.
LEMMA HandsStep ==
    ASSUME TypeOK, HandsEmpty, [Next]_vars
    PROVE  /\ caller' \in [Callers -> CallerType]
           /\ flusher' \in [Loops -> LoopType]
           /\ HandsEmpty'
  <1>0. /\ <<>> \in Batch /\ buffer \in Batch
        /\ caller \in [Callers -> CallerType] /\ flusher \in [Loops -> LoopType]
    BY EmptyBatch DEF TypeOK, CallerType, LoopType
  <1> DEFINE Goal == /\ caller' \in [Callers -> CallerType]
                     /\ flusher' \in [Loops -> LoopType]
                     /\ HandsEmpty'
  <1>1. ASSUME NEW c \in Callers, NEW v \in CallerType,
               v.pc # "push" => v.batch = <<>>,
               caller' = [caller EXCEPT ![c] = v], flusher' = flusher
        PROVE  Goal
    BY <1>0, <1>1 DEF HandsEmpty
  <1>2. ASSUME NEW l \in Loops, NEW v \in LoopType,
               v.pc # "push" => v.batch = <<>>,
               flusher' = [flusher EXCEPT ![l] = v], caller' = caller
        PROVE  Goal
    BY <1>0, <1>2 DEF HandsEmpty
  <1>3. CASE UNCHANGED <<caller, flusher>>
    BY <1>0, <1>3 DEF HandsEmpty
  <1>4. CASE Log \/ PushSpare \/ UNCHANGED vars
    BY <1>3, <1>4 DEF Log, PushSpare, vars
  <1>5. ASSUME NEW c \in Callers, NEW pc \in {"idle", "spawn", "signal", "flush", "log"},
               To(c, pc), flusher' = flusher
        PROVE  Goal
    <2>1. PICK v \in CallerType : v = [pc |-> pc, batch |-> <<>>]
      BY <1>0 DEF CallerType
    <2>2. caller' = [caller EXCEPT ![c] = v]
      BY <1>5, <2>1 DEF To
    <2> QED BY <1>1, <1>5, <2>1, <2>2
  <1>6. ASSUME NEW c \in Callers,
               Enable(c) \/ Disable(c) \/ PushLast(c) \/ Announce(c)
        PROVE  Goal
    <2>1. flusher' = flusher
      BY <1>6 DEF Enable, Disable, PushLast, Announce
    <2>2. \E pc \in {"idle", "spawn", "signal", "flush", "log"} : To(c, pc)
      BY <1>6 DEF Enable, Disable, PushLast, Announce
    <2> QED BY <1>5, <2>1, <2>2
  <1>7. ASSUME NEW c \in Callers, Spawn(c) \/ Signal(c)
        PROVE  Goal
    <2>1. PICK v \in CallerType : caller' = [caller EXCEPT ![c] = v] /\ v.batch = <<>>
      <3>1. \A pc \in {"flush", "log"} : [pc |-> pc, batch |-> <<>>] \in CallerType
        BY <1>0 DEF CallerType
      <3> QED BY <1>7, <3>1 DEF Spawn, Signal, To
    <2>2. CASE flusher' = flusher
      BY <1>1, <2>1, <2>2
    <2>3. ASSUME NEW l \in Loops, NEW pc \in {"top", "ended"}, flusher[l].pc # "push",
                 flusher' = [flusher EXCEPT ![l].pc = pc]
          PROVE  Goal
      <3>1. PICK w \in LoopType : w = [flusher[l] EXCEPT !.pc = pc]
        BY <1>0 DEF LoopType
      <3>2. w.batch = <<>>
        BY <1>0, <2>3, <3>1 DEF HandsEmpty, LoopType
      <3>3. flusher' = [flusher EXCEPT ![l] = w]
        BY <2>3, <3>1
      <3> QED BY <1>0, <2>1, <3>2, <3>3 DEF HandsEmpty
    <2>4. \/ flusher' = flusher
          \/ \E l \in Loops, pc \in {"top", "ended"} :
                flusher[l].pc # "push" /\ flusher' = [flusher EXCEPT ![l].pc = pc]
      <3>1. CASE Spawn(c)
        <4>1. PICK l \in Loops : /\ \A k \in Loops : flusher[k].pc = "unborn" <=> k >= l
                                 /\ flusher' = [flusher EXCEPT ![l].pc = "top"]
          BY <3>1 DEF Spawn
        <4>2. l >= l
          BY LogAssumption DEF LogAssumption, Loops
        <4> QED BY <4>1, <4>2
      <3>2. CASE Signal(c)
        BY <3>2 DEF Signal, Listening
      <3> QED BY <1>7, <3>1, <3>2
    <2> QED BY <2>2, <2>3, <2>4
  <1>8. ASSUME NEW p \in CallerType \cup LoopType, NEW pc,
               NEW v, v = Taken(p, pc), p.batch = <<>>, pc # "push"
        PROVE  v.pc # "push" => v.batch = <<>>
    BY <1>8 DEF Taken, CallerType, LoopType
  <1>9. ASSUME NEW c \in Callers, FlushLast(c)
        PROVE  Goal
    <2>1. caller[c].pc = "flush" /\ caller[c].batch = <<>> /\ flusher' = flusher
      BY <1>9 DEF FlushLast, At, HandsEmpty
    <2>2. PICK v \in CallerType : v = Taken(caller[c], "log")
      BY <1>0 DEF Taken, CallerType
    <2>3. caller' = [caller EXCEPT ![c] = v]
      BY <1>9, <2>2 DEF FlushLast
    <2> QED BY <1>0, <1>1, <1>8, <2>1, <2>2, <2>3
  <1>10. ASSUME NEW l \in Loops, Flush(l)
         PROVE  Goal
    <2>1. flusher[l].pc = "flush" /\ flusher[l].batch = <<>> /\ caller' = caller
      BY <1>10 DEF Flush, HandsEmpty
    <2>2. PICK v \in LoopType : v = Taken(flusher[l], "top")
      BY <1>0 DEF Taken, LoopType
    <2>3. flusher' = [flusher EXCEPT ![l] = v]
      BY <1>10, <2>2 DEF Flush
    <2> QED BY <1>0, <1>2, <1>8, <2>1, <2>2, <2>3
  <1>11. ASSUME NEW l \in Loops, Select(l) \/ Tick(l) \/ PushBatch(l)
         PROVE  Goal
    <2>1. caller' = caller
      BY <1>11 DEF Select, Tick, PushBatch
    <2>2. PICK v \in LoopType : v.batch = <<>> /\ flusher' = [flusher EXCEPT ![l] = v]
      <3>1. CASE Select(l) \/ Tick(l)
        <4>1. flusher[l].pc # "push" /\ \E pc \in {"select", "flush"} :
                flusher' = [flusher EXCEPT ![l].pc = pc]
          BY <3>1 DEF Select, Tick
        <4>2. flusher[l].batch = <<>>
          BY <4>1 DEF HandsEmpty
        <4> QED BY <1>0, <4>1, <4>2 DEF LoopType
      <3>2. CASE PushBatch(l)
        BY <1>0, <3>2 DEF PushBatch, LoopType
      <3> QED BY <1>11, <3>1, <3>2
    <2> QED BY <1>2, <2>1, <2>2
  <1> QED BY <1>4, <1>6, <1>7, <1>9, <1>10, <1>11 DEF Next, CallerStep, LoopStep

LEMMA TypeStep == TypeOK /\ HandsEmpty /\ [Next]_vars => TypeOK' /\ HandsEmpty'
  <1> SUFFICES ASSUME TypeOK, HandsEmpty, [Next]_vars
               PROVE  TypeOK' /\ HandsEmpty'
    OBVIOUS
  <1> DEFINE Rest == /\ buffer' \in Batch /\ Len(buffer') < MaxBuffer
                     /\ logged' \in 0..MaxEntries
                     /\ spare' \subseteq Batch
                     /\ pushed' \in [Entries -> Nat]
                     /\ enabled' \in BOOLEAN
  <1>0. /\ buffer \in Batch /\ Len(buffer) < MaxBuffer
        /\ logged \in 0..MaxEntries
        /\ spare \subseteq Batch
        /\ pushed \in [Entries -> Nat]
        /\ enabled \in BOOLEAN
    BY DEF TypeOK
  <1>1. ASSUME Handle, UNCHANGED <<enabled, pushed>>
        PROVE  Rest
    BY <1>0, <1>1, HandleEffect
  <1>2. ASSUME NEW batch \in Batch, Push(batch), spare' \subseteq spare,
               UNCHANGED <<enabled, buffer, logged>>
        PROVE  Rest
    BY <1>0, <1>2, PushCounts
  <1>3. ASSUME UNCHANGED <<logged, spare, pushed>>, enabled' \in BOOLEAN,
               buffer' \in {buffer, <<>>}
        PROVE  Rest
    BY <1>0, <1>3, EmptyBatch, LogAssumption DEF LogAssumption
  <1>4. ASSUME Log \/ \E c \in Callers : Announce(c)
        PROVE  Rest
    BY <1>1, <1>4 DEF Log, Announce
  <1>5. ASSUME PushSpare
        PROVE  Rest
    <2>1. PICK batch \in spare : /\ Push(batch) /\ spare' = spare \ {batch}
                                 /\ UNCHANGED <<enabled, buffer, logged>>
      BY <1>5 DEF PushSpare
    <2> QED BY <1>0, <1>2, <2>1
  <1>6. ASSUME NEW c \in Callers, PushLast(c)
        PROVE  Rest
    <2>1. caller[c].batch \in Batch
      BY DEF TypeOK
    <2> QED BY <1>2, <1>6, <2>1 DEF PushLast
  <1>7. ASSUME NEW l \in Loops, PushBatch(l)
        PROVE  Rest
    <2>1. flusher[l].batch \in Batch
      BY DEF TypeOK
    <2> QED BY <1>2, <1>7, <2>1 DEF PushBatch
  <1>8. ASSUME NEW c \in Callers,
               Enable(c) \/ Disable(c) \/ Spawn(c) \/ Signal(c) \/ FlushLast(c)
        PROVE  Rest
    BY <1>0, <1>3, <1>8 DEF Enable, Disable, Spawn, Signal, FlushLast
  <1>9. ASSUME NEW l \in Loops, Select(l) \/ Tick(l) \/ Flush(l)
        PROVE  Rest
    BY <1>0, <1>3, <1>9 DEF Select, Tick, Flush
  <1>10. ASSUME UNCHANGED vars
         PROVE  Rest
    BY <1>0, <1>3, <1>10 DEF vars
  <1>11. Rest
    BY <1>4, <1>5, <1>6, <1>7, <1>8, <1>9, <1>10 DEF Next, CallerStep, LoopStep
  <1> QED BY <1>11, HandsStep DEF TypeOK, CallerType, LoopType

-----------------------------------------------------------------------------
(* What a step does to the places.                                         *)

LEMMA Lookup ==
    ASSUME NEW callers, NEW loops, NEW full, NEW buf,
           NEW con, con = InPlaces(callers, loops, full, buf)
    PROVE  /\ con = [p \in Places |-> con[p]]
           /\ Buffer \in Places /\ con[Buffer] = buf
           /\ \A c \in Callers : /\ <<"caller", c>> \in Places /\ Buffer # <<"caller", c>>
                                 /\ con[<<"caller", c>>] = callers[c].batch
           /\ \A l \in Loops : /\ <<"loop", l>> \in Places /\ Buffer # <<"loop", l>>
                               /\ con[<<"loop", l>>] = loops[l].batch
           /\ \A b \in Batch : /\ <<"spare", b>> \in Places /\ Buffer # <<"spare", b>>
                               /\ b \in full => con[<<"spare", b>>] = b
                               /\ b \notin full => con[<<"spare", b>>] = <<>>
           /\ \A p \in Places : \/ p = Buffer
                                \/ \E c \in Callers : p = <<"caller", c>>
                                \/ \E l \in Loops : p = <<"loop", l>>
                                \/ \E b \in Batch : p = <<"spare", b>>
  BY DEF InPlaces, Places, Buffer

Given(con, p, batch) == [q \in Places |-> IF q = p THEN batch ELSE con[q]]
Moved(con, p, q) == Given(Given(con, q, con[p]), p, <<>>)

\* The contents of one place go to another, which was empty.
LEMMA MoveKeeps ==
    ASSUME NEW con, NEW log, NEW sent, NEW p \in Places, NEW q \in Places,
           Conserved(con, log, sent), p # q, con[q] = <<>>,
           NEW con2, con2 = Moved(con, p, q)
    PROVE  Conserved(con2, log, sent)
  <1>1. \A e : ~InBatch(e, <<>>)
    BY DEF InBatch
  <1>2. Distinct(<<>>)
    BY DEF Distinct
  <1>3. con2[p] = <<>> /\ con2[q] = con[p] /\ \A r \in Places \ {p, q} : con2[r] = con[r]
    BY DEF Moved, Given
  <1> HIDE DEF Moved
  <1>4. \A e, r : r \in Places /\ InBatch(e, con2[r]) =>
            \/ r = q /\ InBatch(e, con[p])
            \/ r \notin {p, q} /\ InBatch(e, con[r])
    BY <1>1, <1>3
  <1>5. Once(con2, log, sent)
    <2>1. \A r \in Places : Distinct(con2[r])
      BY <1>2, <1>3 DEF Conserved, Once
    <2>2. ASSUME NEW r \in Places, NEW e \in Entries, InBatch(e, con2[r])
          PROVE  e <= log /\ sent[e] = 0 /\ \A s \in Places : InBatch(e, con2[s]) => s = r
      BY <1>4, <2>2 DEF Conserved, Once
    <2> QED BY <2>1, <2>2 DEF Once
  <1>6. NoneLost(con2, log, sent)
    <2>1. ASSUME NEW e \in Entries, NEW r \in Places, InBatch(e, con[r])
          PROVE  \E s \in Places : InBatch(e, con2[s])
      BY <1>1, <1>3, <2>1
    <2> QED BY <2>1 DEF Conserved, NoneLost
  <1> QED BY <1>5, <1>6 DEF Conserved

\* The contents of one place are pushed.
LEMMA PushKeeps ==
    ASSUME NEW con, NEW log, NEW sent, NEW sent2, NEW p \in Places,
           Conserved(con, log, sent), NEW con2, con2 = Given(con, p, <<>>),
           \A e \in Entries : 
               /\ ~InBatch(e, con[p]) => sent2[e] = sent[e]
               /\ InBatch(e, con[p]) /\ Distinct(con[p]) => sent2[e] = sent[e] + 1
    PROVE  Conserved(con2, log, sent2)
  <1>1. \A e : ~InBatch(e, <<>>)
    BY DEF InBatch
  <1>2. Distinct(<<>>)
    BY DEF Distinct
  <1>3. con2[p] = <<>> /\ \A r \in Places \ {p} : con2[r] = con[r]
    BY DEF Given
  <1>4. \A e \in Entries : 
            /\ ~InBatch(e, con[p]) => sent2[e] = sent[e]
            /\ InBatch(e, con[p]) => sent[e] = 0 /\ sent2[e] = 1 /\ e <= log
    BY DEF Conserved, Once
  <1>5. Once(con2, log, sent2)
    <2>1. \A r \in Places : Distinct(con2[r])
      BY <1>2, <1>3 DEF Conserved, Once
    <2>2. ASSUME NEW r \in Places, NEW e \in Entries, InBatch(e, con2[r])
          PROVE  e <= log /\ sent2[e] = 0 /\ \A s \in Places : InBatch(e, con2[s]) => s = r
      <3>1. r # p /\ InBatch(e, con[r])
        BY <1>1, <1>3, <2>2
      <3>2. e <= log /\ sent[e] = 0 /\ \A s \in Places : InBatch(e, con[s]) => s = r
        BY <3>1 DEF Conserved, Once
      <3> QED BY <1>1, <1>3, <1>4, <3>1, <3>2
    <2> QED BY <2>1, <2>2 DEF Once
  <1>6. NoneLost(con2, log, sent2)
    <2>1. ASSUME NEW e \in Entries, NEW r \in Places, InBatch(e, con[r])
          PROVE  r # p => \E s \in Places : InBatch(e, con2[s])
      BY <1>3, <2>1
    <2> QED BY <1>4, <2>1 DEF Conserved, NoneLost
  <1> QED BY <1>5, <1>6 DEF Conserved

\* A new entry comes to the end of the buffer.
LEMMA LogKeeps ==
    ASSUME NEW con, NEW log \in Nat, NEW sent, NEW new \in Entries, new = log + 1,
           NEW old \in Seq(Entries), old = con[Buffer],
           Conserved(con, log, sent), NEW con2, con2 = Given(con, Buffer, Append(old, new))
    PROVE  Conserved(con2, new, sent)
  <1>0. Buffer \in Places /\ Entries \subseteq Nat
    BY DEF Buffer, Places, Entries
  <1>1. con2[Buffer] = Append(old, new) /\ \A r \in Places \ {Buffer} : con2[r] = con[r]
    BY <1>0 DEF Given
  <1>2. /\ \A e \in Entries : InBatch(e, Append(old, new)) <=> InBatch(e, old) \/ e = new
        /\ Distinct(old) /\ ~InBatch(new, old) => Distinct(Append(old, new))
    <2>1. /\ DOMAIN Append(old, new) = 1..Len(old) + 1 /\ DOMAIN old = 1..Len(old)
          /\ Len(old) \in Nat
          /\ \A i \in 1..Len(old) : Append(old, new)[i] = old[i]
          /\ Append(old, new)[Len(old) + 1] = new
      OBVIOUS
    <2> QED BY <2>1 DEF InBatch, Distinct
  <1>3. \A r \in Places : ~InBatch(new, con[r])
    BY <1>0 DEF Conserved, Once
  <1>4. \A e \in Entries, r \in Places :
            InBatch(e, con2[r]) <=> InBatch(e, con[r]) \/ (e = new /\ r = Buffer)
    BY <1>1, <1>2
  <1>5. sent[new] = 0
    BY <1>3 DEF Conserved, NoneLost
  <1>6. Once(con2, new, sent)
    <2>1. \A r \in Places : Distinct(con2[r])
      BY <1>0, <1>1, <1>2, <1>3 DEF Conserved, Once
    <2>2. ASSUME NEW r \in Places, NEW e \in Entries, InBatch(e, con2[r])
          PROVE  e <= new /\ sent[e] = 0 /\ \A s \in Places : InBatch(e, con2[s]) => s = r
      <3>1. CASE e = new
        BY <1>0, <1>3, <1>4, <1>5, <2>2, <3>1
      <3>2. CASE e # new
        BY <1>0, <1>4, <2>2, <3>2 DEF Conserved, Once
      <3> QED BY <3>1, <3>2
    <2> QED BY <2>1, <2>2 DEF Once
  <1>7. NoneLost(con2, new, sent)
    <2>1. ASSUME NEW e \in Entries
          PROVE  \/ sent[e] = 0 /\ new < e
                 \/ sent[e] = 0 /\ e <= new /\ \E p \in Places : InBatch(e, con2[p])
                 \/ sent[e] = 1 /\ e <= new
      <3>1. CASE e = new
        BY <1>0, <1>4, <1>5, <3>1
      <3>2. CASE e # new
        BY <1>0, <1>4, <3>2 DEF Conserved, NoneLost
      <3> QED BY <3>1, <3>2
    <2> QED BY <2>1 DEF NoneLost
  <1> QED BY <1>6, <1>7 DEF Conserved

-----------------------------------------------------------------------------
(* Every entry is in one place until it is pushed.                         *)

LEMMA StartConserved == Init => Conserved(Contents, logged, pushed)
  <1> SUFFICES ASSUME Init PROVE Conserved(Contents, logged, pushed)
    OBVIOUS
  <1>1. \A p \in Places : Contents[p] = <<>>
    BY Lookup DEF Init, Contents, Idle, Unborn
  <1>2. logged = 0 /\ \A e \in Entries : pushed[e] = 0 /\ 0 < e
    BY DEF Init, Entries
  <1> HIDE DEF Contents
  <1> QED BY <1>1, <1>2 DEF Conserved, Once, NoneLost, Distinct, InBatch

\* What a goroutine holds changes what its place holds, and nothing else.
LEMMA OneHand ==
    ASSUME TypeOK, UNCHANGED <<spare, buffer>>, NEW batch
    PROVE  /\ \A c \in Callers : 
                 caller'[c].batch = batch /\ flusher' = flusher
                 /\ (\A d \in Callers \ {c} : caller'[d].batch = caller[d].batch)
                   => Contents' = Given(Contents, <<"caller", c>>, batch)
           /\ \A l \in Loops : 
                 flusher'[l].batch = batch /\ caller' = caller
                 /\ (\A k \in Loops \ {l} : flusher'[k].batch = flusher[k].batch)
                   => Contents' = Given(Contents, <<"loop", l>>, batch)
           /\ (\A c \in Callers : caller'[c].batch = caller[c].batch)
              /\ (\A l \in Loops : flusher'[l].batch = flusher[l].batch)
                => Contents' = Contents
  <1> QED BY DEF Contents, InPlaces, Given, Places

\* The buffer goes into the hands of a goroutine, or what those hold is pushed.
LEMMA FlushLastKeeps ==
    ASSUME LogInv, NEW c \in Callers, FlushLast(c)
    PROVE  Conserved(Contents', logged', pushed')
  <1>1. caller[c].batch = <<>>
    BY DEF LogInv, HandsEmpty, FlushLast, At
  <1>2. /\ caller'[c].batch = buffer
        /\ \A d \in Callers \ {c} : caller'[d].batch = caller[d].batch
    BY <1>1 DEF LogInv, TypeOK, FlushLast, Taken
  <1>3. buffer' = <<>> /\ UNCHANGED <<flusher, spare, logged, pushed>>
    BY DEF FlushLast
  <1>4. PICK con : con = Contents
    OBVIOUS
  <1>5. PICK con2 : con2 = Contents'
    OBVIOUS
  <1>6. <<"caller", c>> \in Places /\ Buffer \in Places /\ Buffer # <<"caller", c>>
        /\ con[<<"caller", c>>] = <<>>
    BY <1>1, <1>4, Lookup DEF Contents
  <1>7. con2 = Moved(con, Buffer, <<"caller", c>>)
    BY <1>2, <1>3, <1>4, <1>5 DEF Contents, InPlaces, Moved, Given, Places, Buffer
  <1>8. Conserved(con, logged, pushed)
    BY <1>4 DEF LogInv
  <1>9. Conserved(con2, logged, pushed)
    BY <1>6, <1>7, <1>8, MoveKeeps
  <1> QED BY <1>3, <1>5, <1>9

LEMMA FlushKeeps ==
    ASSUME LogInv, NEW l \in Loops, Flush(l)
    PROVE  Conserved(Contents', logged', pushed')
  <1>1. flusher[l].batch = <<>>
    BY DEF LogInv, HandsEmpty, Flush
  <1>2. /\ flusher'[l].batch = buffer
        /\ \A k \in Loops \ {l} : flusher'[k].batch = flusher[k].batch
    BY <1>1 DEF LogInv, TypeOK, Flush, Taken
  <1>3. buffer' = <<>> /\ UNCHANGED <<caller, spare, logged, pushed>>
    BY DEF Flush
  <1>4. PICK con : con = Contents
    OBVIOUS
  <1>5. PICK con2 : con2 = Contents'
    OBVIOUS
  <1>6. <<"loop", l>> \in Places /\ Buffer \in Places /\ Buffer # <<"loop", l>>
        /\ con[<<"loop", l>>] = <<>>
    BY <1>1, <1>4, Lookup DEF Contents
  <1>7. con2 = Moved(con, Buffer, <<"loop", l>>)
    BY <1>2, <1>3, <1>4, <1>5 DEF Contents, InPlaces, Moved, Given, Places, Buffer
  <1>8. Conserved(con, logged, pushed)
    BY <1>4 DEF LogInv
  <1>9. Conserved(con2, logged, pushed)
    BY <1>6, <1>7, <1>8, MoveKeeps
  <1> QED BY <1>3, <1>5, <1>9

LEMMA PushedKeeps ==
    ASSUME LogInv, NEW p \in Places, NEW batch \in Batch, batch = Contents[p],
           Push(batch), logged' = logged, Contents' = Given(Contents, p, <<>>)
    PROVE  Conserved(Contents', logged', pushed')
  <1>1. \A e \in Entries : 
            /\ ~InBatch(e, batch) => pushed'[e] = pushed[e]
            /\ InBatch(e, batch) /\ Distinct(batch) => pushed'[e] = pushed[e] + 1
    BY PushCounts DEF LogInv
  <1>2. PICK con : con = Contents
    OBVIOUS
  <1>3. PICK con2 : con2 = Contents'
    OBVIOUS
  <1>4. PICK sent : sent = pushed'
    OBVIOUS
  <1>5. Conserved(con, logged, pushed) /\ batch = con[p] /\ con2 = Given(con, p, <<>>)
    BY <1>2, <1>3 DEF LogInv
  <1> HIDE DEF Contents
  <1>6. Conserved(con2, logged, sent)
    BY <1>1, <1>4, <1>5, PushKeeps
  <1> QED BY <1>3, <1>4, <1>6

LEMMA PushKept ==
    ASSUME LogInv,
           PushSpare \/ (\E c \in Callers : PushLast(c)) \/ (\E l \in Loops : PushBatch(l))
    PROVE  Conserved(Contents', logged', pushed')
  <1>1. CASE PushSpare
    <2>1. PICK b \in spare : /\ Push(b) /\ spare' = spare \ {b}
                             /\ UNCHANGED <<buffer, logged, caller, flusher>>
      BY <1>1 DEF PushSpare
    <2>2. b \in Batch
      BY DEF LogInv, TypeOK
    <2>3. <<"spare", b>> \in Places /\ Contents[<<"spare", b>>] = b
      BY <2>2, Lookup DEF Contents
    <2>4. Contents' = Given(Contents, <<"spare", b>>, <<>>)
      BY <2>1, <2>2 DEF Contents, InPlaces, Given, Places
    <2> QED BY <2>1, <2>2, <2>3, <2>4, PushedKeeps
  <1>2. ASSUME NEW c \in Callers, PushLast(c)
        PROVE  Conserved(Contents', logged', pushed')
    <2>1. /\ caller'[c].batch = <<>>
          /\ \A d \in Callers \ {c} : caller'[d].batch = caller[d].batch
          /\ UNCHANGED <<buffer, spare, logged, flusher>>
          /\ caller[c].batch \in Batch /\ Push(caller[c].batch)
      BY <1>2 DEF LogInv, TypeOK, PushLast, To
    <2>2. <<"caller", c>> \in Places /\ Contents[<<"caller", c>>] = caller[c].batch
      BY Lookup DEF Contents
    <2>3. Contents' = Given(Contents, <<"caller", c>>, <<>>)
      BY <2>1, OneHand DEF LogInv
    <2> QED BY <2>1, <2>2, <2>3, PushedKeeps
  <1>3. ASSUME NEW l \in Loops, PushBatch(l)
        PROVE  Conserved(Contents', logged', pushed')
    <2>1. /\ flusher'[l].batch = <<>>
          /\ \A k \in Loops \ {l} : flusher'[k].batch = flusher[k].batch
          /\ UNCHANGED <<buffer, spare, logged, caller>>
          /\ flusher[l].batch \in Batch /\ Push(flusher[l].batch)
      BY <1>3 DEF LogInv, TypeOK, PushBatch
    <2>2. <<"loop", l>> \in Places /\ Contents[<<"loop", l>>] = flusher[l].batch
      BY Lookup DEF Contents
    <2>3. Contents' = Given(Contents, <<"loop", l>>, <<>>)
      BY <2>1, OneHand DEF LogInv
    <2> QED BY <2>1, <2>2, <2>3, PushedKeeps
  <1> QED BY <1>1, <1>2, <1>3

\* A new entry goes to the buffer; a buffer it fills goes to a goroutine of its own.
LEMMA HandleKeeps ==
    ASSUME LogInv, Handle, UNCHANGED <<flusher, pushed>>,
           \A c \in Callers : caller'[c].batch = caller[c].batch
    PROVE  Conserved(Contents', logged', pushed')
  <1>1. PICK con : con = Contents
    OBVIOUS
  <1>2. PICK con2 : con2 = Contents'
    OBVIOUS
  <1>3. Conserved(con, logged, pushed)
    BY <1>1 DEF LogInv
  <1>4. CASE UNCHANGED <<buffer, logged, spare>>
    <2>1. con2 = con
      BY <1>1, <1>2, <1>4, OneHand DEF LogInv
    <2> QED BY <1>2, <1>3, <1>4, <2>1
  <1>5. CASE logged + 1 \in Entries /\ logged' = logged + 1
    <2>1. PICK full \in Batch : 
              /\ full = Append(buffer, logged + 1)
              /\ \/ buffer' = full /\ spare' = spare
                 \/ buffer' = <<>> /\ spare' = spare \cup {full}
                 \/ UNCHANGED <<buffer, logged, spare>>
      <3>1. \E full : full = Append(buffer, logged + 1)
        OBVIOUS
      <3> QED BY <1>5, HandleEffect DEF LogInv, TypeOK
    <2>2. PICK con1 : con1 = Given(con, Buffer, full)
      OBVIOUS
    <2>3. con[Buffer] = buffer /\ Buffer \in Places
      BY <1>1, Lookup DEF Contents
    <2>4. buffer \in Seq(Entries) /\ logged \in Nat
      BY BatchIsSeq DEF LogInv, TypeOK
    <2>5. PICK new \in Entries : new = logged + 1
      BY <1>5
    <2>6. Conserved(con1, new, pushed)
      BY <1>3, <2>1, <2>2, <2>3, <2>4, <2>5, LogKeeps
    <2>7. CASE buffer' = full /\ spare' = spare
      <3>1. con2 = con1
        BY <1>1, <1>2, <2>2, <2>7 DEF Contents, InPlaces, Given, Places, Buffer
      <3> QED BY <1>2, <1>5, <2>5, <2>6, <3>1
    <2>8. CASE buffer' = <<>> /\ spare' = spare \cup {full}
      <3>1. Buffer # <<"spare", full>> /\ <<"spare", full>> \in Places
        BY <1>1, Lookup DEF Contents
      <3>2. InBatch(new, full)
        <4>1. Len(buffer) + 1 \in DOMAIN full /\ full[Len(buffer) + 1] = new
          BY <2>1, <2>4, <2>5
        <4> QED BY <4>1 DEF InBatch
      <3>3. con1[<<"spare", full>>] = <<>>
        <4>1. full \notin spare
          <5>1. SUFFICES ASSUME full \in spare PROVE FALSE
            OBVIOUS
          <5>2. con[<<"spare", full>>] = full
            BY <1>1, <5>1, Lookup DEF Contents
          <5>3. new <= logged
            BY <1>3, <3>1, <3>2, <5>2 DEF Conserved, Once
          <5> QED BY <2>4, <2>5, <5>3
        <4>2. con[<<"spare", full>>] = <<>>
          BY <1>1, <4>1, Lookup DEF Contents
        <4> QED BY <2>2, <3>1, <4>2 DEF Given
      <3>4. con2 = Moved(con1, Buffer, <<"spare", full>>)
        BY <1>1, <1>2, <2>2, <2>8 DEF Contents, InPlaces, Given, Moved, Places, Buffer
      <3>5. Conserved(con2, new, pushed)
        BY <2>3, <2>6, <3>1, <3>3, <3>4, MoveKeeps
      <3> QED BY <1>2, <1>5, <2>5, <3>5
    <2> QED BY <1>5, <2>1, <2>4, <2>7, <2>8
  <1> QED BY <1>4, <1>5, HandleEffect DEF LogInv

LEMMA StepConserved ==
    ASSUME LogInv, [Next]_vars
    PROVE  Conserved(Contents', logged', pushed')
  <1> DEFINE Goal == Conserved(Contents', logged', pushed')
  <1>1. ASSUME UNCHANGED <<spare, buffer, logged, pushed>>,
               \A c \in Callers : caller'[c].batch = caller[c].batch,
               \A l \in Loops : flusher'[l].batch = flusher[l].batch
        PROVE  Goal
    <2>1. Contents' = Contents
      BY <1>1, OneHand DEF LogInv
    <2> HIDE DEF Contents
    <2> QED BY <1>1, <2>1 DEF LogInv
  <1>2. \A c \in Callers : \A pc : To(c, pc) /\ caller[c].pc # "push" =>
            \A d \in Callers : caller'[d].batch = caller[d].batch
    BY DEF LogInv, TypeOK, HandsEmpty, To
  <1>3. CASE UNCHANGED vars
    BY <1>1, <1>3 DEF vars
  <1>4. ASSUME NEW c \in Callers, Enable(c) \/ Disable(c)
        PROVE  Goal
    BY <1>1, <1>2, <1>4 DEF Enable, Disable, At
  <1>5. ASSUME NEW c \in Callers, Spawn(c) \/ Signal(c)
        PROVE  Goal
    <2>1. \A l \in Loops : flusher'[l].batch = flusher[l].batch
      <3>1. \/ flusher' = flusher
            \/ \E k \in Loops : \E pc : flusher' = [flusher EXCEPT ![k].pc = pc]
        BY <1>5, Zenon DEF Spawn, Signal, Listening
      <3>2. ASSUME NEW k \in Loops, NEW pc, flusher' = [flusher EXCEPT ![k].pc = pc]
            PROVE  \A l \in Loops : flusher'[l].batch = flusher[l].batch
        BY <3>2 DEF LogInv, TypeOK
      <3> QED BY <3>1, <3>2
    <2>2. \A d \in Callers : caller'[d].batch = caller[d].batch
      BY <1>2, <1>5 DEF Spawn, Signal, At
    <2> QED BY <1>1, <1>5, <2>1, <2>2 DEF Spawn, Signal
  <1>6. ASSUME NEW c \in Callers, Announce(c)
        PROVE  Goal
    <2>1. \A d \in Callers : caller'[d].batch = caller[d].batch
      BY <1>2, <1>6 DEF Announce, At
    <2> QED BY <1>6, <2>1, HandleKeeps DEF Announce
  <1>7. CASE Log
    BY <1>7, HandleKeeps DEF Log
  <1>8. ASSUME NEW l \in Loops, Select(l) \/ Tick(l)
        PROVE  Goal
    <2>1. \A k \in Loops : flusher'[k].batch = flusher[k].batch
      BY <1>8 DEF LogInv, TypeOK, Select, Tick
    <2> QED BY <1>1, <1>8, <2>1 DEF Select, Tick
  <1>9. ASSUME PushSpare \/ (\E c \in Callers : PushLast(c)) \/ (\E l \in Loops : PushBatch(l))
        PROVE  Goal
    BY <1>9, PushKept
  <1> QED BY <1>3, <1>4, <1>5, <1>6, <1>7, <1>8, <1>9, FlushLastKeeps, FlushKeeps
          DEF Next, CallerStep, LoopStep

LEMMA LogCorrect == Spec => []LogInv
  <1>1. Init => LogInv
    BY TypeInit, StartConserved DEF LogInv
  <1>2. LogInv /\ [Next]_vars => LogInv'
    <2> SUFFICES ASSUME LogInv, [Next]_vars PROVE LogInv'
      OBVIOUS
    <2>1. TypeOK' /\ HandsEmpty'
      BY TypeStep DEF LogInv
    <2>2. Conserved(Contents', logged', pushed')
      BY StepConserved
    <2>3. Conserved(Contents, logged, pushed)'
      BY <2>2 DEF Conserved, Once, NoneLost, Distinct, InBatch
    <2> QED BY <2>1, <2>3 DEF LogInv
  <1> QED BY <1>1, <1>2, PTL DEF Spec

-----------------------------------------------------------------------------
(* The theorems.                                                           *)

\* Every variable keeps its type; the buffer never reaches its limit.
THEOREM TypeCorrect == Spec => []TypeOK
  <1>1. LogInv => TypeOK
    BY DEF LogInv
  <1> QED BY <1>1, LogCorrect, PTL

LEMMA CountOne ==
    \A P : /\ P = {} => Cardinality(P) = 0
           /\ \A x \in P : (\A y \in P : y = x) => Cardinality(P) = 1
  <1>1. ASSUME NEW P, NEW x \in P, \A y \in P : y = x
        PROVE  Cardinality(P) = 1
    <2>1. P = {x}
      BY <1>1
    <2> QED BY <2>1, FS_Singleton
  <1> QED BY <1>1, FS_EmptySet

LEMMA Counts == LogInv => EntriesConserved
  <1> SUFFICES ASSUME LogInv, NEW e \in 1..logged
               PROVE  Cardinality({c \in Callers : InBatch(e, caller[c].batch)})
                        + Cardinality({l \in Loops : InBatch(e, flusher[l].batch)})
                        + Cardinality({b \in spare : InBatch(e, b)})
                        + Cardinality({i \in DOMAIN buffer : buffer[i] = e})
                        + pushed[e] = 1
    BY DEF EntriesConserved
  <1> DEFINE InCallers == {c \in Callers : InBatch(e, caller[c].batch)}
             InLoops == {l \in Loops : InBatch(e, flusher[l].batch)}
             InSpare == {b \in spare : InBatch(e, b)}
             InBuffer == {i \in DOMAIN buffer : buffer[i] = e}
  <1>1. e \in Entries /\ e <= logged /\ ~(logged < e)
    <2> HIDE DEF InCallers, InLoops, InSpare, InBuffer
    <2>1. MaxEntries \in Nat /\ logged \in 0..MaxEntries
      BY LogAssumption DEF LogAssumption, LogInv, TypeOK
    <2> QED BY <2>1 DEF Entries
  <1>2. PICK con : con = Contents
    OBVIOUS
  <1>3. Once(con, logged, pushed) /\ NoneLost(con, logged, pushed)
    BY <1>2 DEF LogInv, Conserved
  <1>4. /\ Buffer \in Places /\ con[Buffer] = buffer
        /\ \A c \in Callers : /\ <<"caller", c>> \in Places
                              /\ con[<<"caller", c>>] = caller[c].batch
        /\ \A l \in Loops : /\ <<"loop", l>> \in Places
                            /\ con[<<"loop", l>>] = flusher[l].batch
        /\ \A b \in spare : /\ <<"spare", b>> \in Places
                            /\ con[<<"spare", b>>] = b
        /\ \A p \in Places : \/ p = Buffer
                             \/ \E c \in Callers : p = <<"caller", c>>
                             \/ \E l \in Loops : p = <<"loop", l>>
                             \/ \E b \in spare : p = <<"spare", b>>
                             \/ con[p] = <<>>
    BY <1>2, Lookup DEF Contents, LogInv, TypeOK
  <1>5. /\ \A c \in InCallers : <<"caller", c>> \in Places /\ InBatch(e, con[<<"caller", c>>])
        /\ \A l \in InLoops : <<"loop", l>> \in Places /\ InBatch(e, con[<<"loop", l>>])
        /\ \A b \in InSpare : <<"spare", b>> \in Places /\ InBatch(e, con[<<"spare", b>>])
        /\ \A i \in InBuffer : Buffer \in Places /\ InBatch(e, con[Buffer])
    BY <1>4 DEF InBatch
  <1>6. \A p, q \in Places : InBatch(e, con[p]) /\ InBatch(e, con[q]) => p = q
    BY <1>1, <1>3 DEF Once
  <1>7. /\ \A c \in InCallers : /\ InLoops = {} /\ InSpare = {} /\ InBuffer = {}
                                /\ \A d \in InCallers : d = c
        /\ \A l \in InLoops : /\ InSpare = {} /\ InBuffer = {}
                              /\ \A k \in InLoops : k = l
        /\ \A b \in InSpare : /\ InBuffer = {}
                              /\ \A a \in InSpare : a = b
    <2>1. /\ \A c, d : <<"caller", c>> = <<"caller", d>> => c = d
          /\ \A c, d : <<"loop", c>> = <<"loop", d>> => c = d
          /\ \A c, d : <<"spare", c>> = <<"spare", d>> => c = d
          /\ \A c, d : <<"caller", c>> # <<"loop", d>> /\ <<"caller", c>> # <<"spare", d>>
          /\ \A c, d : <<"loop", c>> # <<"spare", d>>
          /\ \A c : <<"caller", c>> # Buffer /\ <<"loop", c>> # Buffer /\ <<"spare", c>> # Buffer
      BY DEF Buffer
    <2> HIDE DEF InCallers, InLoops, InSpare, InBuffer
    <2> QED BY <1>5, <1>6, <2>1
  <1>8. \A i, j \in InBuffer : j = i
    BY <1>3, <1>4 DEF Once, Distinct
  <1>9. CASE pushed[e] = 1
    <2>1. \A p \in Places : ~InBatch(e, con[p])
      BY <1>1, <1>3, <1>9 DEF Once
    <2>2. InCallers = {} /\ InLoops = {} /\ InSpare = {} /\ InBuffer = {}
      BY <1>5, <2>1, Zenon
    <2>3. /\ Cardinality(InCallers) = 0 /\ Cardinality(InLoops) = 0
          /\ Cardinality(InSpare) = 0 /\ Cardinality(InBuffer) = 0
      BY <2>2, FS_EmptySet
    <2> HIDE DEF InCallers, InLoops, InSpare, InBuffer
    <2>4. Cardinality(InCallers) + Cardinality(InLoops) + Cardinality(InSpare)
            + Cardinality(InBuffer) + pushed[e] = 1
      BY <1>9, <2>3
    <2> QED BY <2>4 DEF InCallers, InLoops, InSpare, InBuffer
  <1>10. CASE pushed[e] = 0
    <2>1. PICK p \in Places : InBatch(e, con[p])
      BY <1>1, <1>3, <1>10 DEF NoneLost
    <2>2. ~InBatch(e, <<>>)
      BY DEF InBatch
    <2>3. InCallers # {} \/ InLoops # {} \/ InSpare # {} \/ InBuffer # {}
      BY <1>4, <2>1, <2>2 DEF InBatch
    <2> HIDE DEF InCallers, InLoops, InSpare, InBuffer
    <2>4. \A P : /\ P = {} => Cardinality(P) = 0
                 /\ \A x \in P : (\A y \in P : y = x) => Cardinality(P) = 1
      BY CountOne
    <2>5. Cardinality(InCallers) + Cardinality(InLoops) + Cardinality(InSpare)
            + Cardinality(InBuffer) = 1
      <3>1. CASE InCallers # {}
        BY <1>7, <2>4, <3>1
      <3>2. CASE InCallers = {} /\ InLoops # {}
        BY <1>7, <2>4, <3>2
      <3>3. CASE InCallers = {} /\ InLoops = {} /\ InSpare # {}
        BY <1>7, <2>4, <3>3
      <3>4. CASE InCallers = {} /\ InLoops = {} /\ InSpare = {} /\ InBuffer # {}
        BY <1>8, <2>4, <3>4
      <3> QED BY <2>3, <3>1, <3>2, <3>3, <3>4
    <2>6. Cardinality(InCallers) + Cardinality(InLoops) + Cardinality(InSpare)
            + Cardinality(InBuffer) + pushed[e] = 1
      BY <1>10, <2>5
    <2> QED BY <2>6 DEF InCallers, InLoops, InSpare, InBuffer
  <1> QED BY <1>1, <1>3, <1>9, <1>10 DEF NoneLost

\* Every entry logged while forwarding was enabled is in one place until it is
\* pushed, and is pushed once, whoever empties the buffer.
THEOREM EntryOnce == Spec => []EntriesConserved
  BY Counts, LogCorrect, PTL

\* Once the last Disable has flushed, a disabled forwarder has nothing in its
\* buffer: only an enabled one fills it, and who disables it comes to empty it.
THEOREM EmptyAfterDisable == Spec => []NothingLeftBehind
  <1>1. Init => NothingLeftBehind
    BY DEF Init, NothingLeftBehind
  <1>2. TypeOK /\ NothingLeftBehind /\ [Next]_vars => NothingLeftBehind'
    <2> SUFFICES ASSUME TypeOK, NothingLeftBehind, [Next]_vars, ~enabled',
                        \A c \in Callers : caller'[c].pc \notin {"signal", "flush"}
                 PROVE  buffer' = <<>>
      BY DEF NothingLeftBehind
    <2> DEFINE Leaving == \A c \in Callers : caller[c].pc \notin {"signal", "flush"}
    <2>1. ASSUME ~enabled, buffer' = buffer, Leaving
          PROVE  buffer' = <<>>
      BY <2>1 DEF NothingLeftBehind
    <2>2. ASSUME NEW c \in Callers, NEW pc, To(c, pc), caller[c].pc \notin {"signal", "flush"}
          PROVE  Leaving
      <3>1. \A d \in Callers \ {c} : caller'[d] = caller[d]
        BY <2>2 DEF TypeOK, To
      <3> QED BY <2>2, <3>1
    <2>3. CASE Log
      BY <2>1, <2>3 DEF Log, Handle
    <2>4. CASE PushSpare \/ UNCHANGED vars
      BY <2>1, <2>4 DEF PushSpare, vars
    <2>5. ASSUME NEW c \in Callers, Spawn(c) \/ PushLast(c) \/ Announce(c)
          PROVE  buffer' = <<>>
      <3>1. Leaving
        BY <2>2, <2>5 DEF Spawn, PushLast, Announce, At
      <3> HIDE DEF Leaving
      <3> QED BY <2>1, <2>5, <3>1 DEF Spawn, PushLast, Announce, Handle
    <2>6. ASSUME NEW c \in Callers, Disable(c) \/ Signal(c)
          PROVE  FALSE
      BY <2>6 DEF Disable, Signal, To, TypeOK
    <2>7. ASSUME NEW c \in Callers, Enable(c) \/ FlushLast(c)
          PROVE  buffer' = <<>>
      BY <2>7 DEF Enable, FlushLast
    <2>8. ASSUME NEW l \in Loops, LoopStep(l)
          PROVE  buffer' = <<>>
      BY <2>1, <2>8 DEF LoopStep, Select, Tick, Flush, PushBatch
    <2> QED BY <2>3, <2>4, <2>5, <2>6, <2>7, <2>8 DEF Next, CallerStep
  <1> QED BY <1>1, <1>2, TypeCorrect, PTL DEF Spec
=============================================================================
