------------------------ MODULE BackgroundQueueProofs -------------------------
(***************************************************************************)
(* Theorems about BackgroundQueue for every batch size, every bound on     *)
(* items and faults and every set of signals.                              *)
(***************************************************************************)
EXTENDS BackgroundQueue, SequenceTheorems, FiniteSetTheorems, TLAPS

-----------------------------------------------------------------------------
(* The invariant                                                           *)

AllItems == UNION {{[log |-> l, k |-> k] : k \in 1 .. recorded[l]} : l \in Log}
Contents(b) == UNION {Items(b[l]) : l \in Log}
Buffered == Contents(buffer)
Flying == UNION {Items(f.rows) : f \in flights}
Started == {s \in Signal : stop[s] # "none"}

\* No sequence holds an item twice, and a buffer holds items of its own log.
NoRepeat(b) == \A m, n \in 1 .. Len(b) : b[m] = b[n] => m = n
Tidy ==
    /\ \A l \in Log : NoRepeat(buffer[l]) /\ \A i \in Items(buffer[l]) : i.log = l
    /\ \A f \in flights : NoRepeat(f.rows)

\* What each stage of a shutdown has done by then.
Stages ==
    /\ Closed => ~timer
    /\ poolEnded \/ exit = "clean" => \E s \in Signal : stop[s] = "ending"
    /\ IsFiniteSet(Started)

\* A buffer never holds a whole batch, and once its flush has been made by a
\* shutdown, nothing in it waited for that.
Left ==
    /\ waiting \subseteq AllItems
    /\ \A l \in Log : Len(buffer[l]) < BatchSize
    /\ \A s \in Signal :
         /\ stop[s] \in {"requests", "audits", "ending"} =>
              Items(buffer["request"]) \cap waiting = {}
         /\ stop[s] \in {"audits", "ending"} => Items(buffer["audit"]) \cap waiting = {}

\* After one signal and no failure, what waited is in its buffer until the
\* shutdown flushes that, then in a flush that is awaited or in the table, and
\* when the shutdown goes on it is in the table.
Carried(i, s) == i \in stored \/ \E f \in flights : f.by = s /\ i \in Items(f.rows)
HandedOver(s) ==
    faults = 0 /\ Started = {s} =>
        \A i \in waiting :
            /\ i.log = "request" =>
                 /\ stop[s] = "requests" => Carried(i, s)
                 /\ stop[s] \in {"audits", "ending"} => i \in stored
            /\ i.log = "audit" /\ late = {} =>
                 /\ stop[s] = "requests" => i \in Items(buffer["audit"])
                 /\ stop[s] = "audits" => Carried(i, s)
                 /\ stop[s] = "ending" => i \in stored

Inductive ==
    /\ TypeOK /\ Tidy /\ InOnePlace /\ Stages /\ Left
    /\ \A s \in Signal : HandedOver(s)

-----------------------------------------------------------------------------
(* Batches                                                                 *)

\* splice takes a batch from the front of a buffer and leaves the rest.
LEMMA Splice ==
    ASSUME NEW b \in Seq(Item)
    PROVE  /\ BatchOf(b) \in Seq(Item) /\ RestOf(b) \in Seq(Item)
           /\ Len(BatchOf(b)) = IF Len(b) <= BatchSize THEN Len(b) ELSE BatchSize
           /\ Len(RestOf(b)) = IF Len(b) <= BatchSize THEN 0 ELSE Len(b) - BatchSize
           /\ \A n \in 1 .. Len(BatchOf(b)) : BatchOf(b)[n] = b[n]
           /\ \A n \in 1 .. Len(RestOf(b)) : RestOf(b)[n] = b[BatchSize + n]
<1> DEFINE last == IF Len(b) < BatchSize THEN Len(b) ELSE BatchSize
<1>1. last \in Nat /\ last <= Len(b) /\ BatchSize \in Nat \ {0} /\ Len(b) \in Nat
    BY QueueAssumption, LenProperties
<1>2. \A i \in 1 .. Len(b) : b[i] \in Item
    BY ElementOfSeq
<1>3. /\ SubSeq(b, 1, last) \in Seq(Item)
      /\ Len(SubSeq(b, 1, last)) = last
      /\ \A n \in 1 .. last : SubSeq(b, 1, last)[n] = b[n]
  <2>1. \A i \in 1 .. last : b[i] \in Item
      BY <1>1, <1>2
  <2> HIDE DEF last
  <2>2. /\ SubSeq(b, 1, last) \in Seq(Item)
        /\ Len(SubSeq(b, 1, last)) = IF 1 <= last THEN last - 1 + 1 ELSE 0
        /\ \A n \in 1 .. last - 1 + 1 : SubSeq(b, 1, last)[n] = b[1 + n - 1]
      BY <1>1, <2>1, SubSeqProperties
  <2>3. \A n \in 1 .. last : SubSeq(b, 1, last)[n] = b[n]
    <3> SUFFICES ASSUME NEW n \in 1 .. last PROVE SubSeq(b, 1, last)[n] = b[n]
        OBVIOUS
    <3>1. n \in 1 .. last - 1 + 1 /\ 1 + n - 1 = n
        BY <1>1
    <3> QED BY <2>2, <3>1
  <2> QED BY <1>1, <2>2, <2>3
<1>4. /\ RestOf(b) \in Seq(Item)
      /\ Len(RestOf(b)) = IF BatchSize + 1 <= Len(b) THEN Len(b) - BatchSize ELSE 0
      /\ \A n \in 1 .. Len(b) - BatchSize : RestOf(b)[n] = b[BatchSize + n]
  <2>1. \A i \in BatchSize + 1 .. Len(b) : b[i] \in Item
      BY <1>1, <1>2
  <2>2. /\ RestOf(b) \in Seq(Item)
        /\ Len(RestOf(b)) = IF BatchSize + 1 <= Len(b) THEN Len(b) - (BatchSize + 1) + 1 ELSE 0
        /\ \A n \in 1 .. Len(b) - (BatchSize + 1) + 1 : RestOf(b)[n] = b[BatchSize + 1 + n - 1]
      BY <1>1, <2>1, SubSeqProperties DEF RestOf
  <2>3. ASSUME NEW n \in 1 .. Len(b) - BatchSize PROVE RestOf(b)[n] = b[BatchSize + n]
    <3>1. n \in 1 .. Len(b) - (BatchSize + 1) + 1 /\ BatchSize + 1 + n - 1 = BatchSize + n
        BY <1>1
    <3> QED BY <2>2, <3>1
  <2> QED BY <1>1, <2>2, <2>3
<1>5. BatchOf(b) = SubSeq(b, 1, last)
    BY DEF BatchOf
<1> QED BY <1>1, <1>3, <1>4, <1>5

\* Nothing is lost or doubled between the two.
LEMMA SpliceItems ==
    ASSUME NEW b \in Seq(Item)
    PROVE  /\ Items(b) = Items(BatchOf(b)) \cup Items(RestOf(b))
           /\ NoRepeat(b) => /\ NoRepeat(BatchOf(b)) /\ NoRepeat(RestOf(b))
                             /\ Items(BatchOf(b)) \cap Items(RestOf(b)) = {}
<1>1. BatchSize \in Nat \ {0} /\ Len(b) \in Nat
    BY QueueAssumption, LenProperties
<1>0. /\ Len(BatchOf(b)) = IF Len(b) <= BatchSize THEN Len(b) ELSE BatchSize
      /\ Len(RestOf(b)) = IF Len(b) <= BatchSize THEN 0 ELSE Len(b) - BatchSize
      /\ \A n \in 1 .. Len(BatchOf(b)) : BatchOf(b)[n] = b[n]
      /\ \A n \in 1 .. Len(RestOf(b)) : RestOf(b)[n] = b[BatchSize + n]
    BY Splice, Zenon
<1>2. ASSUME NEW n \in 1 .. Len(b)
      PROVE  b[n] \in Items(BatchOf(b)) \cup Items(RestOf(b))
  <2>1. CASE n <= BatchSize
    <3>1. n \in 1 .. Len(BatchOf(b)) /\ BatchOf(b)[n] = b[n]
        BY <1>0, <1>1, <2>1
    <3> QED BY <3>1 DEF Items
  <2>2. CASE n > BatchSize
    <3>1. Len(RestOf(b)) = Len(b) - BatchSize
        BY <1>0, <1>1, <2>2
    <3>2. n - BatchSize \in 1 .. Len(RestOf(b)) /\ BatchSize + (n - BatchSize) = n
        BY <1>1, <2>2, <3>1
    <3>3. RestOf(b)[n - BatchSize] = b[BatchSize + (n - BatchSize)]
        BY <1>0, <3>2, Zenon
    <3>4. RestOf(b)[n - BatchSize] = b[n]
        BY <3>2, <3>3
    <3> QED BY <3>2, <3>4 DEF Items
  <2> QED BY <1>1, <2>1, <2>2
<1>3. ASSUME NEW n \in 1 .. Len(BatchOf(b))
      PROVE  n \in 1 .. Len(b) /\ n <= BatchSize /\ BatchOf(b)[n] = b[n]
    BY <1>0, <1>1
<1>4. ASSUME NEW n \in 1 .. Len(RestOf(b))
      PROVE  BatchSize + n \in 1 .. Len(b) /\ RestOf(b)[n] = b[BatchSize + n]
    BY <1>0, <1>1
<1>5. Items(b) = Items(BatchOf(b)) \cup Items(RestOf(b))
  <2>1. Items(b) \subseteq Items(BatchOf(b)) \cup Items(RestOf(b))
      BY <1>2 DEF Items
  <2>2. Items(BatchOf(b)) \subseteq Items(b)
      BY <1>3, Zenon DEF Items
  <2>3. Items(RestOf(b)) \subseteq Items(b)
      BY <1>4, Zenon DEF Items
  <2> QED BY <2>1, <2>2, <2>3
<1>6. ASSUME NoRepeat(b)
      PROVE  /\ NoRepeat(BatchOf(b)) /\ NoRepeat(RestOf(b))
             /\ Items(BatchOf(b)) \cap Items(RestOf(b)) = {}
  <2>1. NoRepeat(BatchOf(b))
      BY <1>3, <1>6 DEF NoRepeat
  <2>2. NoRepeat(RestOf(b))
    <3> SUFFICES ASSUME NEW m \in 1 .. Len(RestOf(b)), NEW n \in 1 .. Len(RestOf(b)),
                        RestOf(b)[m] = RestOf(b)[n]
                 PROVE  m = n
        BY DEF NoRepeat
    <3>1. BatchSize + m = BatchSize + n
        BY <1>4, <1>6 DEF NoRepeat
    <3> QED BY <1>1, <3>1
  <2>3. ASSUME NEW m \in 1 .. Len(BatchOf(b)), NEW n \in 1 .. Len(RestOf(b)),
               BatchOf(b)[m] = RestOf(b)[n]
        PROVE  FALSE
    <3>1. m = BatchSize + n
        BY <1>3, <1>4, <1>6, <2>3 DEF NoRepeat
    <3> QED BY <1>1, <1>3, <3>1
  <2> QED BY <2>1, <2>2, <2>3 DEF Items
<1> QED BY <1>5, <1>6

\* A full buffer's batch is not empty.
LEMMA BatchHasRows ==
    ASSUME NEW b \in Seq(Item), b # <<>>
    PROVE  BatchOf(b) \in Seq(Item) \ {<<>>}
<1>1. Len(b) \in Nat \ {0} /\ BatchSize \in Nat \ {0}
    BY QueueAssumption, LenProperties, EmptySeq
<1>2. Len(BatchOf(b)) = (IF Len(b) <= BatchSize THEN Len(b) ELSE BatchSize)
      /\ BatchOf(b) \in Seq(Item)
    BY Splice, Zenon
<1> QED BY <1>1, <1>2, EmptySeq

\* The flights after a flush: those before, and one for each buffer that was
\* not empty.
LEMMA FlightsAfter ==
    ASSUME NEW L \in SUBSET Log, NEW b, NEW by, Flush(L, b, by), NEW f
    PROVE  f \in flights' <=>
             \/ f \in flights
             \/ \E l \in L : b[l] # <<>> /\ f = [rows |-> BatchOf(b[l]), by |-> by]
BY DEF Flush, FlightOf

LEMMA BuffersAfter ==
    ASSUME NEW L \in SUBSET Log, NEW b, NEW by, Flush(L, b, by), NEW l \in Log
    PROVE  buffer'[l] = IF l \in L THEN RestOf(b[l]) ELSE b[l]
BY DEF Flush

LEMMA FlushTypes ==
    ASSUME NEW L \in SUBSET Log, NEW b \in [Log -> Seq(Item)], NEW by \in Signal \cup {NoOne},
           flights \subseteq Flight, Flush(L, b, by)
    PROVE  buffer' \in [Log -> Seq(Item)] /\ flights' \subseteq Flight
<1>1. \A l \in Log : RestOf(b[l]) \in Seq(Item)
    BY Splice
<1>2. buffer' \in [Log -> Seq(Item)]
    BY <1>1 DEF Flush
<1>3. ASSUME NEW f \in flights' PROVE f \in Flight
  <2>1. CASE f \in flights
      BY <2>1
  <2>2. ASSUME NEW l \in L, b[l] # <<>>, f = [rows |-> BatchOf(b[l]), by |-> by]
        PROVE  f \in Flight
    <3>1. BatchOf(b[l]) \in Seq(Item) \ {<<>>}
        BY <2>2, BatchHasRows
    <3> QED BY <2>2, <3>1 DEF Flight
  <2> QED BY <2>1, <2>2, FlightsAfter
<1> QED BY <1>2, <1>3

\* Appending an item, the buffers that Record may flush.
LEMMA Longer ==
    ASSUME TypeOK, NEW l \in Log, NEW item \in Item
    PROVE  [buffer EXCEPT ![l] = Append(@, item)] \in [Log -> Seq(Item)]
BY AppendProperties DEF TypeOK

-----------------------------------------------------------------------------
(* Types                                                                   *)

LEMMA TypeInit == Init => TypeOK
<1>1. <<>> \in Seq(Item)
    BY EmptySeq
<1>2. 0 \in 0 .. MaxFaults
    BY QueueAssumption
<1> SUFFICES ASSUME Init PROVE TypeOK
    OBVIOUS
<1>3. buffer \in [Log -> Seq(Item)]
    BY <1>1 DEF Init
<1>4. recorded \in [Log -> Nat] /\ stop \in [Signal -> {"none"}]
    BY DEF Init
<1> QED BY <1>2, <1>3, <1>4 DEF Init, TypeOK

\* Inserting a row leaves a shorter batch, or none.
LEMMA InsertTypes ==
    ASSUME TypeOK, NEW f \in flights
    PROVE  /\ Head(f.rows) \in Item /\ Tail(f.rows) \in Seq(Item)
           /\ Items(f.rows) = {Head(f.rows)} \cup Items(Tail(f.rows))
           /\ Items(f.rows) \subseteq Item
           /\ NoRepeat(f.rows) =>
                Head(f.rows) \notin Items(Tail(f.rows)) /\ NoRepeat(Tail(f.rows))
<1>1. f.rows \in Seq(Item) /\ f.rows # <<>> /\ Len(f.rows) \in Nat \ {0}
    BY LenProperties, EmptySeq DEF TypeOK, Flight
<1>2. /\ Head(f.rows) \in Item /\ Tail(f.rows) \in Seq(Item)
      /\ Len(Tail(f.rows)) = Len(f.rows) - 1
      /\ \A i \in 1 .. Len(Tail(f.rows)) : Tail(f.rows)[i] = f.rows[i + 1]
    BY <1>1, HeadTailProperties
<1>3. Head(f.rows) = f.rows[1]
    BY <1>1
<1>4. ASSUME NEW n \in 1 .. Len(f.rows) PROVE n = 1 \/ f.rows[n] = Tail(f.rows)[n - 1]
    BY <1>1, <1>2
<1>5. Items(f.rows) = {Head(f.rows)} \cup Items(Tail(f.rows))
  <2>1. ASSUME NEW n \in 1 .. Len(f.rows)
        PROVE  f.rows[n] \in {Head(f.rows)} \cup Items(Tail(f.rows))
    <3>1. CASE n = 1
        BY <1>3, <3>1
    <3>2. CASE n # 1
      <4>1. n - 1 \in 1 .. Len(Tail(f.rows))
          BY <1>1, <1>2, <3>2
      <4> QED BY <1>4, <3>2, <4>1 DEF Items
    <3> QED BY <3>1, <3>2
  <2>2. \A n \in 1 .. Len(Tail(f.rows)) : n + 1 \in 1 .. Len(f.rows)
      BY <1>1, <1>2
  <2> QED BY <1>1, <1>2, <1>3, <2>1, <2>2 DEF Items
<1>6. Items(f.rows) \subseteq Item
    BY <1>1, ElementOfSeq DEF Items
<1>7. ASSUME NoRepeat(f.rows)
      PROVE  Head(f.rows) \notin Items(Tail(f.rows)) /\ NoRepeat(Tail(f.rows))
  <2>1. \A n \in 1 .. Len(Tail(f.rows)) : n + 1 \in 1 .. Len(f.rows) /\ n + 1 # 1
      BY <1>1, <1>2
  <2>2. Head(f.rows) \notin Items(Tail(f.rows))
      BY <1>1, <1>2, <1>3, <1>7, <2>1 DEF Items, NoRepeat
  <2>3. \A m, n \in 1 .. Len(Tail(f.rows)) : m + 1 = n + 1 => m = n
      BY <1>1, <1>2
  <2>4. NoRepeat(Tail(f.rows))
    <3> SUFFICES ASSUME NEW m \in 1 .. Len(Tail(f.rows)), NEW n \in 1 .. Len(Tail(f.rows)),
                        Tail(f.rows)[m] = Tail(f.rows)[n]
                 PROVE  m = n
        BY DEF NoRepeat
    <3>1. f.rows[m + 1] = f.rows[n + 1]
        BY <1>2
    <3>2. m + 1 = n + 1
        BY <1>7, <2>1, <3>1 DEF NoRepeat
    <3> QED BY <2>3, <3>2
  <2> QED BY <2>2, <2>4
<1> QED BY <1>2, <1>5, <1>6, <1>7

LEMMA TypeStep == TypeOK /\ [Next]_vars => TypeOK'
<1> SUFFICES ASSUME TypeOK, [Next]_vars PROVE TypeOK'
    OBVIOUS
<1>0. /\ recorded \in [Log -> Nat]
      /\ buffer \in [Log -> Seq(Item)]
      /\ flights \subseteq Flight
      /\ stored \subseteq Item /\ dropped \subseteq Item
      /\ timer \in BOOLEAN /\ poolEnded \in BOOLEAN
      /\ stop \in [Signal -> {"none", "closing", "requests", "audits", "ending"}]
      /\ exit \in {"no", "clean", "forced"}
      /\ faults \in 0 .. MaxFaults
      /\ waiting \subseteq Item /\ late \subseteq Item
    BY DEF TypeOK
<1>1. ASSUME NEW l \in Log, Record(l) PROVE TypeOK'
  <2> DEFINE item == [log |-> l, k |-> recorded[l] + 1]
             longer == [buffer EXCEPT ![l] = Append(@, item)]
  <2>1. item \in Item /\ recorded' \in [Log -> Nat] /\ late' \subseteq Item
      BY <1>0, <1>1 DEF Record, Item
  <2>2. longer \in [Log -> Seq(Item)]
      BY <2>1, Longer
  <2>3. Flush({l}, longer, NoOne) \/ (buffer' = longer /\ UNCHANGED flights)
      BY <1>1 DEF Record
  <2> HIDE DEF item, longer
  <2>4. buffer' \in [Log -> Seq(Item)] /\ flights' \subseteq Flight
      BY <1>0, <2>2, <2>3, FlushTypes
  <2> QED BY <1>0, <1>1, <2>1, <2>4 DEF Record, TypeOK, shutdown
<1>2. ASSUME TimerFlush PROVE TypeOK'
  <2>1. buffer' \in [Log -> Seq(Item)] /\ flights' \subseteq Flight
      BY <1>0, <1>2, FlushTypes DEF TimerFlush
  <2> QED BY <1>0, <1>2, <2>1 DEF TimerFlush, TypeOK, shutdown, history
<1>3. ASSUME NEW f \in flights, InsertRow(f) PROVE TypeOK'
  <2>1. Head(f.rows) \in Item /\ Tail(f.rows) \in Seq(Item) /\ Items(Tail(f.rows)) \subseteq Item
      BY InsertTypes
  <2>2. flights' \subseteq Flight
      BY <1>0, <1>3, <2>1 DEF InsertRow, Flight
  <2> QED BY <1>0, <1>3, <2>1, <2>2 DEF InsertRow, TypeOK, shutdown, history
<1>4. ASSUME NEW f \in flights, InsertFails(f) PROVE TypeOK'
  <2>1. Head(f.rows) \in Item /\ Items(f.rows) \subseteq Item
      BY InsertTypes
  <2> QED BY <1>0, <1>4, <2>1, QueueAssumption DEF InsertFails, TypeOK, shutdown, history
<1>5. ASSUME NEW s \in Signal, Terminate(s) \/ EndPool(s) \/ Exit(s) \/ ForceExit(s)
      PROVE  TypeOK'
    BY <1>0, <1>5 DEF Terminate, EndPool, Exit, ForceExit, Goto, TypeOK, history
<1>6. ASSUME NEW s \in Signal, Close(s) \/ FlushAudits(s) PROVE TypeOK'
  <2>1. \E L \in SUBSET Log : Flush(L, buffer, s)
      BY <1>6 DEF Close, FlushAudits, Log
  <2>2. buffer' \in [Log -> Seq(Item)] /\ flights' \subseteq Flight
      BY <1>0, <2>1, FlushTypes
  <2>3. \A l \in Log : Items(buffer[l]) \subseteq Item
      BY <1>0, ElementOfSeq DEF Items
  <2>4. waiting' \subseteq Item
      BY <1>0, <1>6, <2>3 DEF Close, FlushAudits, history
  <2> QED BY <1>0, <1>6, <2>2, <2>4 DEF Close, FlushAudits, Goto, TypeOK, history
<1>7. CASE UNCHANGED vars
    BY <1>0, <1>7 DEF vars, TypeOK
<1> QED BY <1>1, <1>2, <1>3, <1>4, <1>5, <1>6, <1>7 DEF Next, Inserts

-----------------------------------------------------------------------------
(* One place for every item                                                *)

\* Items of log l are numbered, and the one recorded next is not among them.
LEMMA AllItemsAfter ==
    ASSUME TypeOK, NEW l \in Log, recorded' = [recorded EXCEPT ![l] = @ + 1]
    PROVE  LET item == [log |-> l, k |-> recorded[l] + 1]
           IN  item \notin AllItems /\ AllItems' = AllItems \cup {item}
<1> DEFINE item == [log |-> l, k |-> recorded[l] + 1]
<1>1. \A h \in Log : recorded[h] \in Nat
    BY DEF TypeOK
<1>2. \A i : i \in AllItems <=> \E h \in Log : \E k \in 1 .. recorded[h] : i = [log |-> h, k |-> k]
    BY DEF AllItems
<1>3. \A i : i \in AllItems' <=> \E h \in Log : \E k \in 1 .. recorded'[h] : i = [log |-> h, k |-> k]
    BY DEF AllItems
<1>4. item \notin AllItems
  <2> SUFFICES ASSUME item \in AllItems PROVE FALSE
      OBVIOUS
  <2>1. PICK h \in Log, k \in Nat : k \in 1 .. recorded[h] /\ item = [log |-> h, k |-> k]
      BY <1>2
  <2>2. item.log = h /\ item.k = k
      BY <2>1
  <2> QED BY <1>1, <2>1, <2>2
<1>5. ASSUME NEW i \in AllItems' PROVE i \in AllItems \cup {item}
  <2>1. PICK h \in Log, k \in Nat : k \in 1 .. recorded'[h] /\ i = [log |-> h, k |-> k]
      BY <1>3
  <2>2. k \in 1 .. recorded[h] \/ (h = l /\ k = recorded[l] + 1)
      BY <1>1, <2>1 DEF TypeOK
  <2> QED BY <1>2, <2>1, <2>2
<1>6. ASSUME NEW i \in AllItems PROVE i \in AllItems'
  <2>1. PICK h \in Log, k \in Nat : k \in 1 .. recorded[h] /\ i = [log |-> h, k |-> k]
      BY <1>2, <1>6
  <2>2. k \in 1 .. recorded'[h]
      BY <1>1, <2>1 DEF TypeOK
  <2> QED BY <1>3, <2>1, <2>2
<1>7. item \in AllItems'
  <2>1. recorded[l] + 1 \in 1 .. recorded'[l]
      BY <1>1 DEF TypeOK
  <2> QED BY <1>3, <2>1
<1> QED BY <1>4, <1>5, <1>6, <1>7

\* InOnePlace, in the words used below.
Apart ==
    /\ Buffered \cap (Flying \cup stored \cup dropped) = {}
    /\ Flying \cap (stored \cup dropped) = {}
    /\ stored \cap dropped = {}
    /\ \A f, g \in flights : f # g => Items(f.rows) \cap Items(g.rows) = {}
LEMMA OnePlace ==
    InOnePlace <=> Buffered \cup Flying \cup stored \cup dropped = AllItems /\ Apart
BY DEF InOnePlace, Buffered, Contents, Flying, AllItems, Apart

\* A flush moves items from the buffers, whatever these hold before, to
\* flights, and mixes them with nothing.
LEMMA FlushMoves ==
    ASSUME NEW L \in SUBSET Log, NEW b \in [Log -> Seq(Item)], NEW by, Flush(L, b, by),
           \A l \in Log : NoRepeat(b[l]) /\ \A i \in Items(b[l]) : i.log = l,
           \A f \in flights : NoRepeat(f.rows),
           \A f, g \in flights : f # g => Items(f.rows) \cap Items(g.rows) = {},
           Contents(b) \cap Flying = {}
    PROVE  /\ Buffered' \cup Flying' = Contents(b) \cup Flying
           /\ Buffered' \cap Flying' = {}
           /\ \A f, g \in flights' : f # g => Items(f.rows) \cap Items(g.rows) = {}
           /\ Tidy'
<1> DEFINE batch(l) == [rows |-> BatchOf(b[l]), by |-> by]
<1>1. ASSUME NEW l \in Log
      PROVE  /\ Items(b[l]) = Items(BatchOf(b[l])) \cup Items(RestOf(b[l]))
             /\ NoRepeat(BatchOf(b[l])) /\ NoRepeat(RestOf(b[l]))
             /\ Items(BatchOf(b[l])) \cap Items(RestOf(b[l])) = {}
    BY SpliceItems
<1>2. ASSUME NEW l \in Log
      PROVE  buffer'[l] = IF l \in L THEN RestOf(b[l]) ELSE b[l]
    BY BuffersAfter
<1>3. ASSUME NEW f
      PROVE  f \in flights' <=> f \in flights \/ \E l \in L : b[l] # <<>> /\ f = batch(l)
    BY DEF Flush, FlightOf
<1>4. \A i : i \in Buffered' <=> \E l \in Log : i \in Items(buffer'[l])
    BY DEF Buffered, Contents, Items
<1>5. \A i : i \in Flying' <=> \E f \in flights' : i \in Items(f.rows)
    BY DEF Flying, Items
<1>6. \A i : i \in Flying <=> \E f \in flights : i \in Items(f.rows)
    BY DEF Flying
<1>7. \A i : i \in Contents(b) <=> \E l \in Log : i \in Items(b[l])
    BY DEF Contents
<1>8. \A l \in Log : Items(batch(l).rows) = Items(BatchOf(b[l]))
    OBVIOUS
<1> HIDE DEF batch
\* What a new flight holds was in one buffer.
<1>10. ASSUME NEW f \in flights', f \notin flights
       PROVE  \E l \in L : b[l] # <<>> /\ f = batch(l) /\ Items(f.rows) = Items(BatchOf(b[l]))
    BY <1>3, <1>8, <1>10
<1>11. ASSUME NEW l \in Log, b[l] = <<>> PROVE Items(BatchOf(b[l])) = {}
  <2>1. Items(b[l]) = {}
      BY <1>11 DEF Items
  <2> QED BY <1>1, <2>1
<1>12. Buffered' \cup Flying' = Contents(b) \cup Flying
  <2>1. ASSUME NEW i \in Buffered' PROVE i \in Contents(b)
      BY <1>1, <1>2, <1>4, <1>7
  <2>2. ASSUME NEW i \in Flying' PROVE i \in Contents(b) \cup Flying
    <3>1. PICK f \in flights' : i \in Items(f.rows)
        BY <1>5
    <3>2. CASE f \in flights
        BY <1>6, <3>1, <3>2
    <3>3. CASE f \notin flights
      <4>1. PICK l \in L : Items(f.rows) = Items(BatchOf(b[l]))
          BY <1>10, <3>3
      <4> QED BY <1>1, <1>7, <3>1, <4>1
    <3> QED BY <3>2, <3>3
  <2>3. ASSUME NEW i \in Contents(b) PROVE i \in Buffered' \cup Flying'
    <3>1. PICK l \in Log : i \in Items(b[l])
        BY <1>7
    <3>2. CASE l \notin L
        BY <1>2, <1>4, <3>1, <3>2
    <3>3. CASE l \in L /\ i \in Items(RestOf(b[l]))
        BY <1>2, <1>4, <3>3
    <3>4. CASE l \in L /\ i \in Items(BatchOf(b[l]))
      <4>1. batch(l) \in flights'
          BY <1>3, <1>11, <3>4
      <4> QED BY <1>5, <1>8, <3>4, <4>1
    <3> QED BY <1>1, <3>1, <3>2, <3>3, <3>4
  <2>4. ASSUME NEW i \in Flying PROVE i \in Flying'
      BY <1>3, <1>5, <1>6
  <2> QED BY <2>1, <2>2, <2>3, <2>4
<1>13. ASSUME NEW i \in Buffered', i \in Flying' PROVE FALSE
  <2>1. PICK l \in Log : i \in Items(buffer'[l])
      BY <1>4
  <2>2. i \in Items(b[l]) /\ i \in Contents(b) /\ i.log = l
      BY <1>1, <1>2, <1>7, <2>1
  <2>3. PICK f \in flights' : i \in Items(f.rows)
      BY <1>5, <1>13
  <2>4. f \notin flights
      BY <1>6, <2>2, <2>3
  <2>5. PICK h \in L : Items(f.rows) = Items(BatchOf(b[h]))
      BY <1>10, <2>4
  <2>6. h = l
      BY <1>1, <2>2, <2>3, <2>5
  <2> QED BY <1>1, <1>2, <2>1, <2>3, <2>5, <2>6
<1>14. ASSUME NEW f \in flights', NEW g \in flights', f # g, NEW i \in Items(f.rows), i \in Items(g.rows)
       PROVE  FALSE
  <2>1. CASE f \in flights /\ g \in flights
      BY <1>14, <2>1
  <2>2. ASSUME NEW p \in flights', NEW q \in flights', p \in flights, q \notin flights,
               i \in Items(p.rows), i \in Items(q.rows)
        PROVE  FALSE
    <3>1. PICK l \in L : Items(q.rows) = Items(BatchOf(b[l]))
        BY <1>10, <2>2
    <3>2. i \in Items(b[l]) /\ l \in Log
        BY <1>1, <2>2, <3>1
    <3>3. i \in Contents(b)
        BY <1>7, <3>2
    <3>4. i \in Flying
        BY <1>6, <2>2
    <3> QED BY <3>3, <3>4
  <2>3. CASE f \notin flights /\ g \notin flights
    <3>1. PICK l \in L : f = batch(l) /\ Items(f.rows) = Items(BatchOf(b[l]))
        BY <1>10, <2>3
    <3>2. PICK h \in L : g = batch(h) /\ Items(g.rows) = Items(BatchOf(b[h]))
        BY <1>10, <2>3
    <3>3. i \in Items(b[l]) /\ i \in Items(b[h])
        BY <1>1, <1>14, <3>1, <3>2
    <3>4. l = h
        BY <3>3
    <3> QED BY <1>14, <3>1, <3>2, <3>4
  <2> QED BY <1>14, <2>1, <2>2, <2>3
<1>15. Tidy'
  <2>1. ASSUME NEW l \in Log
        PROVE  NoRepeat(buffer'[l]) /\ \A i \in Items(buffer'[l]) : i.log = l
      BY <1>1, <1>2
  <2>2. ASSUME NEW f \in flights' PROVE NoRepeat(f.rows)
    <3>1. CASE f \in flights
        BY <3>1
    <3>2. CASE f \notin flights
      <4>1. PICK l \in L : f = batch(l)
          BY <1>10, <3>2
      <4>2. f.rows = BatchOf(b[l])
          BY <4>1 DEF batch
      <4> QED BY <1>1, <4>2
    <3> QED BY <3>1, <3>2
  <2> QED BY <2>1, <2>2 DEF Tidy, NoRepeat, Items
<1>16. /\ Buffered' \cap Flying' = {}
       /\ \A f, g \in flights' : f # g => Items(f.rows) \cap Items(g.rows) = {}
    BY <1>13, <1>14
<1> QED BY <1>12, <1>15, <1>16

\* Where nothing was appended, the buffers are the ones of the state before.
LEMMA FlushNow ==
    ASSUME TypeOK, Tidy, InOnePlace, NEW L \in SUBSET Log, NEW by, Flush(L, buffer, by),
           UNCHANGED <<stored, dropped, recorded>>
    PROVE  Tidy' /\ InOnePlace'
<1>1. /\ Buffered \cup Flying \cup stored \cup dropped = AllItems /\ Apart
    BY OnePlace
<1>2. /\ Buffered' \cup Flying' = Buffered \cup Flying
      /\ Buffered' \cap Flying' = {}
      /\ \A f, g \in flights' : f # g => Items(f.rows) \cap Items(g.rows) = {}
      /\ Tidy'
    BY <1>1, FlushMoves DEF TypeOK, Tidy, Apart, Buffered
<1>3. AllItems' = AllItems
    BY DEF AllItems
<1>4. Apart'
    BY <1>1, <1>2 DEF Apart, Items
<1>5. (Buffered \cup Flying \cup stored \cup dropped = AllItems)'
    BY <1>1, <1>2, <1>3
<1>6. InOnePlace'
    BY <1>4, <1>5, OnePlace, PTL
<1> QED BY <1>2, <1>6

\* An appended item is new to its buffer and to everything else.
LEMMA AppendItem ==
    ASSUME NEW b \in Seq(Item), NEW item \in Item
    PROVE  /\ Append(b, item) \in Seq(Item)
           /\ Len(Append(b, item)) = Len(b) + 1
           /\ Items(Append(b, item)) = Items(b) \cup {item}
           /\ NoRepeat(b) /\ item \notin Items(b) => NoRepeat(Append(b, item))
<1>1. /\ Append(b, item) \in Seq(Item)
      /\ Len(Append(b, item)) = Len(b) + 1
      /\ \A n \in 1 .. Len(b) : Append(b, item)[n] = b[n]
      /\ Append(b, item)[Len(b) + 1] = item
    BY AppendProperties
<1>2. Len(b) \in Nat
    BY LenProperties
<1>3. Items(Append(b, item)) = Items(b) \cup {item}
    BY <1>1, <1>2 DEF Items
<1>4. NoRepeat(b) /\ item \notin Items(b) => NoRepeat(Append(b, item))
  <2>1. \A n \in 1 .. Len(b) + 1 : n \in 1 .. Len(b) \/ n = Len(b) + 1
      BY <1>2
  <2> QED BY <1>1, <2>1 DEF Items, NoRepeat
<1> QED BY <1>1, <1>3, <1>4

\* The buffers of a handler that records an item, before it may flush.
LEMMA RecordAppends ==
    ASSUME TypeOK, Tidy, InOnePlace, NEW l \in Log, Record(l)
    PROVE  LET item == [log |-> l, k |-> recorded[l] + 1]
               longer == [buffer EXCEPT ![l] = Append(@, item)]
           IN  /\ item \in Item /\ item \notin AllItems /\ AllItems' = AllItems \cup {item}
               /\ longer \in [Log -> Seq(Item)]
               /\ \A h \in Log : NoRepeat(longer[h]) /\ \A i \in Items(longer[h]) : i.log = h
               /\ Contents(longer) = Buffered \cup {item}
               /\ \A h \in Log : Len(longer[h]) = IF h = l THEN Len(buffer[h]) + 1 ELSE Len(buffer[h])
               /\ Flush({l}, longer, NoOne) \/ (buffer' = longer /\ UNCHANGED flights)
               /\ buffer' = longer => Len(longer[l]) < BatchSize \/ Flush({l}, longer, NoOne)
<1> DEFINE item == [log |-> l, k |-> recorded[l] + 1]
           longer == [buffer EXCEPT ![l] = Append(@, item)]
<1>1. item \in Item /\ item.log = l
    BY DEF TypeOK, Item
<1>2. recorded' = [recorded EXCEPT ![l] = @ + 1]
    BY DEF Record
<1>3. item \notin AllItems /\ AllItems' = AllItems \cup {item}
    BY <1>2, AllItemsAfter
<1>4. /\ Flush({l}, longer, NoOne) \/ (buffer' = longer /\ UNCHANGED flights)
      /\ buffer' = longer => Len(longer[l]) < BatchSize \/ Flush({l}, longer, NoOne)
    BY QueueAssumption DEF Record
<1> HIDE DEF item
<1>5. longer \in [Log -> Seq(Item)]
    BY <1>1, Longer
<1>6. buffer \in [Log -> Seq(Item)]
    BY DEF TypeOK
<1>7. longer[l] = Append(buffer[l], item) /\ \A h \in Log \ {l} : longer[h] = buffer[h]
    BY <1>6
<1>8. item \notin Items(buffer[l])
    BY <1>3, OnePlace DEF Buffered, Contents
<1>9. /\ Len(longer[l]) = Len(buffer[l]) + 1
      /\ Items(longer[l]) = Items(buffer[l]) \cup {item}
      /\ NoRepeat(longer[l])
    BY <1>1, <1>6, <1>7, <1>8, AppendItem DEF Tidy
<1> HIDE DEF longer
<1>10. \A h \in Log : NoRepeat(longer[h]) /\ \A i \in Items(longer[h]) : i.log = h
    BY <1>1, <1>7, <1>9 DEF Tidy
<1>11. Contents(longer) = Buffered \cup {item}
    BY <1>7, <1>9 DEF Contents, Buffered
<1>12. \A h \in Log : Len(longer[h]) = IF h = l THEN Len(buffer[h]) + 1 ELSE Len(buffer[h])
    BY <1>7, <1>9
<1> QED BY <1>1, <1>3, <1>4, <1>5, <1>10, <1>11, <1>12 DEF item, longer

\* An item is appended, cut out, inserted or given up, and is nowhere else.
LEMMA InOnePlaceStep ==
    TypeOK /\ Tidy /\ InOnePlace /\ [Next]_vars => Tidy' /\ InOnePlace'
<1> SUFFICES ASSUME TypeOK, Tidy, InOnePlace, [Next]_vars PROVE Tidy' /\ InOnePlace'
    OBVIOUS
<1>0. Buffered \cup Flying \cup stored \cup dropped = AllItems /\ Apart
    BY OnePlace
<1>1. ASSUME Tidy', Apart', (Buffered \cup Flying \cup stored \cup dropped = AllItems)'
      PROVE  Tidy' /\ InOnePlace'
  <2>1. InOnePlace'
      BY <1>1, OnePlace, PTL
  <2> QED BY <1>1, <2>1
<1>2. ASSUME NEW l \in Log, Record(l) PROVE Tidy' /\ InOnePlace'
  <2> DEFINE item == [log |-> l, k |-> recorded[l] + 1]
             longer == [buffer EXCEPT ![l] = Append(@, item)]
  <2>1. /\ item \in Item /\ item \notin AllItems /\ AllItems' = AllItems \cup {item}
        /\ longer \in [Log -> Seq(Item)]
        /\ \A h \in Log : NoRepeat(longer[h]) /\ \A i \in Items(longer[h]) : i.log = h
        /\ Contents(longer) = Buffered \cup {item}
        /\ Flush({l}, longer, NoOne) \/ (buffer' = longer /\ UNCHANGED flights)
      BY <1>2, RecordAppends
  <2>2. UNCHANGED <<stored, dropped>>
      BY <1>2 DEF Record
  <2> HIDE DEF item, longer
  <2>3. Contents(longer) \cap Flying = {}
      BY <1>0, <2>1 DEF Apart
  <2>4. /\ Buffered' \cup Flying' = Contents(longer) \cup Flying
        /\ Buffered' \cap Flying' = {}
        /\ \A f, g \in flights' : f # g => Items(f.rows) \cap Items(g.rows) = {}
        /\ Tidy'
    <3>1. CASE Flush({l}, longer, NoOne)
        BY <1>0, <2>1, <2>3, <3>1, FlushMoves DEF Tidy, Apart
    <3>2. CASE buffer' = longer /\ UNCHANGED flights
      <4>1. Buffered' = Contents(longer) /\ Flying' = Flying
          BY <3>2 DEF Buffered, Contents, Flying, Items
      <4>2. Tidy'
          BY <2>1, <3>2 DEF Tidy, NoRepeat, Items
      <4> QED BY <1>0, <2>3, <3>2, <4>1, <4>2 DEF Apart
    <3> QED BY <2>1, <3>1, <3>2
  <2>5. (Buffered \cup Flying \cup stored \cup dropped = AllItems)'
      BY <1>0, <2>1, <2>2, <2>4
  <2>6. Apart'
    <3>1. /\ item \notin stored \cup dropped
          /\ (Buffered \cup Flying) \cap (stored \cup dropped) = {}
          /\ stored \cap dropped = {}
        BY <1>0, <2>1 DEF Apart
    <3>2. (Buffered' \cup Flying') \cap (stored' \cup dropped') = {}
        BY <2>1, <2>2, <2>4, <3>1
    <3> QED BY <2>2, <2>4, <3>1, <3>2 DEF Apart, Items
  <2> QED BY <1>1, <2>4, <2>5, <2>6
<1>3. CASE TimerFlush
    BY <1>3, FlushNow DEF TimerFlush
<1>4. ASSUME NEW s \in Signal, Close(s) \/ FlushAudits(s) PROVE Tidy' /\ InOnePlace'
  <2>1. \E L \in SUBSET Log : Flush(L, buffer, s)
      BY <1>4 DEF Close, FlushAudits, Log
  <2>2. UNCHANGED <<stored, dropped, recorded>>
      BY <1>4 DEF Close, FlushAudits
  <2> QED BY <2>1, <2>2, FlushNow
<1>5. ASSUME NEW f \in flights, InsertRow(f) \/ InsertFails(f) PROVE Tidy' /\ InOnePlace'
  <2> DEFINE rest == Tail(f.rows)  head == Head(f.rows)
  <2>1. /\ Items(f.rows) = {head} \cup Items(rest)
        /\ head \notin Items(rest) /\ NoRepeat(rest)
        /\ f \in Flight
      BY InsertTypes DEF Tidy, TypeOK
  <2> DEFINE next == [f EXCEPT !.rows = rest]
  <2>2. next.rows = rest
      BY <2>1 DEF Flight
  <2>3. UNCHANGED <<buffer, recorded>>
      BY <1>5 DEF InsertRow, InsertFails
  <2>4. \A i : i \in Flying <=> \E g \in flights : i \in Items(g.rows)
      BY DEF Flying
  <2>5. \A i : i \in Flying' <=> \E g \in flights' : i \in Items(g.rows)
      BY DEF Flying, Items
  <2> DEFINE others == UNION {Items(g.rows) : g \in flights \ {f}}
  <2>6. /\ Flying = others \cup {head} \cup Items(rest)
        /\ others \cap ({head} \cup Items(rest)) = {}
      BY <1>0, <2>1 DEF Flying, Apart
  <2> HIDE DEF next, rest, head
  <2>7. \/ flights' = flights \ {f} /\ stored' \cup dropped' = stored \cup dropped \cup {head} \cup Items(rest)
           /\ stored' \cap dropped' = {}
        \/ /\ flights' = (flights \ {f}) \cup {next}
           /\ stored' = stored \cup {head} /\ dropped' = dropped
    <3>0. stored \cap dropped = {} /\ head \notin stored \cup dropped
          /\ Items(rest) \cap (stored \cup dropped) = {}
        BY <1>0, <2>6 DEF Apart
    <3>1. CASE InsertRow(f)
      <4>1. rest = <<>> => Items(rest) = {}
          BY DEF Items
      <4>2. /\ stored' = stored \cup {head}
            /\ flights' = (flights \ {f}) \cup (IF rest = <<>> \/ poolEnded THEN {} ELSE {next})
            /\ dropped' = IF poolEnded THEN dropped \cup Items(rest) ELSE dropped
          BY <3>1 DEF InsertRow, next, rest, head
      <4> QED BY <2>1, <3>0, <4>1, <4>2
    <3>2. CASE InsertFails(f)
      <4>1. PICK done \in {{}, {head}} : /\ stored' = stored \cup done
                                        /\ dropped' = dropped \cup (Items(f.rows) \ done)
          BY <3>2 DEF InsertFails, head
      <4>2. flights' = flights \ {f}
          BY <3>2 DEF InsertFails
      <4> QED BY <2>1, <3>0, <4>1, <4>2
    <3> QED BY <1>5, <3>1, <3>2
  <2>8. Flying' = others \/ (Flying' = others \cup Items(rest) /\ next \in flights')
    <3>1. CASE flights' = flights \ {f}
        BY <3>1 DEF Flying, Items
    <3>2. CASE flights' = (flights \ {f}) \cup {next}
        BY <2>2, <2>5, <3>2
    <3> QED BY <2>7, <3>1, <3>2
  <2>9. Tidy'
      BY <2>1, <2>2, <2>3, <2>7 DEF Tidy, NoRepeat, Items
  <2>10. Buffered' = Buffered /\ AllItems' = AllItems
      BY <2>3 DEF Buffered, Contents, Items, AllItems
  <2>11. \A g \in flights \ {f} : Items(g.rows) \subseteq others
      OBVIOUS
  <2> HIDE DEF others
  <2>12. \A g, h \in flights' : g # h => Items(g.rows) \cap Items(h.rows) = {}
    <3>1. CASE flights' = flights \ {f}
        BY <1>0, <3>1 DEF Apart
    <3>2. CASE flights' = (flights \ {f}) \cup {next}
        BY <1>0, <2>2, <2>6, <2>11, <3>2 DEF Apart
    <3> QED BY <2>7, <3>1, <3>2
  <2>13. /\ Flying' \cup stored' \cup dropped' = Flying \cup stored \cup dropped
         /\ Flying' \cap (stored' \cup dropped') = {}
         /\ stored' \cap dropped' = {}
    <3>0. /\ (others \cup {head} \cup Items(rest)) \cap (stored \cup dropped) = {}
          /\ stored \cap dropped = {} /\ head \notin Items(rest)
        BY <1>0, <2>1, <2>6 DEF Apart
    <3>1. CASE flights' = flights \ {f}
      <4>1. Flying' = others
          BY <3>1 DEF Flying, Items, others
      <4>2. CASE /\ stored' \cup dropped' = stored \cup dropped \cup {head} \cup Items(rest)
                 /\ stored' \cap dropped' = {}
          BY <2>6, <3>0, <4>1, <4>2
      <4>3. CASE flights' = (flights \ {f}) \cup {next}
                 /\ stored' = stored \cup {head} /\ dropped' = dropped
        <5>1. Items(rest) \subseteq others
            BY <2>2, <2>11, <3>1, <4>3
        <5> QED BY <2>6, <3>0, <4>1, <4>3, <5>1
      <4> QED BY <2>7, <4>2, <4>3
    <3>2. CASE /\ flights' = (flights \ {f}) \cup {next}
               /\ stored' = stored \cup {head} /\ dropped' = dropped
      <4>1. Flying' = others \cup Items(rest)
          BY <2>2, <2>5, <2>8, <2>11, <3>2
      <4> QED BY <2>6, <3>0, <3>2, <4>1
    <3> QED BY <2>7, <3>1, <3>2
  <2>14. Apart'
      BY <1>0, <2>10, <2>12, <2>13 DEF Apart, Items
  <2>15. (Buffered \cup Flying \cup stored \cup dropped = AllItems)'
      BY <1>0, <2>10, <2>13
  <2> QED BY <1>1, <2>9, <2>14, <2>15
<1>6. CASE UNCHANGED <<buffer, flights, stored, dropped, recorded>>
  <2>1. Buffered' = Buffered /\ Flying' = Flying /\ AllItems' = AllItems
      BY <1>6 DEF Buffered, Contents, Flying, Items, AllItems
  <2>2. Tidy'
      BY <1>6 DEF Tidy, NoRepeat, Items
  <2>3. Apart'
      BY <1>0, <1>6, <2>1 DEF Apart, Items
  <2> QED BY <1>0, <1>1, <1>6, <2>1, <2>2, <2>3
<1>7. ASSUME NEW s \in Signal, Terminate(s) \/ EndPool(s) \/ Exit(s) \/ ForceExit(s)
      PROVE  UNCHANGED <<buffer, flights, stored, dropped, recorded>>
    BY <1>7 DEF Terminate, EndPool, Exit, ForceExit
<1> QED BY <1>2, <1>3, <1>4, <1>5, <1>6, <1>7 DEF Next, Inserts, vars

-----------------------------------------------------------------------------
(* The stages of a shutdown                                                *)

\* Only steps of a shutdown change its stage, the timer, the pool or the exit.
LEMMA OtherSteps ==
    /\ \A l \in Log : Record(l) => UNCHANGED <<shutdown, faults, waiting>>
    /\ TimerFlush => UNCHANGED <<shutdown, faults, history>>
    /\ \A f \in flights : InsertRow(f) => UNCHANGED <<shutdown, faults, history, buffer>>
    /\ \A f \in flights : InsertFails(f) => UNCHANGED <<shutdown, history, buffer>>
BY DEF Record, TimerFlush, InsertRow, InsertFails

LEMMA StagesStep == TypeOK /\ Stages /\ [Next]_vars => Stages'
<1> SUFFICES ASSUME TypeOK, Stages, [Next]_vars PROVE Stages'
    OBVIOUS
<1>0. stop \in [Signal -> {"none", "closing", "requests", "audits", "ending"}]
    BY DEF TypeOK
<1>1. CASE UNCHANGED shutdown
    BY <1>1 DEF shutdown, Stages, Closed, Started
<1>2. ASSUME NEW s \in Signal, Terminate(s) PROVE Stages'
  <2>1. stop' = [stop EXCEPT ![s] = "closing"] /\ UNCHANGED <<timer, poolEnded, exit>> /\ stop[s] = "none"
      BY <1>2 DEF Terminate, Goto
  <2>2. Started' = Started \cup {s}
      BY <1>0, <2>1 DEF Started
  <2>3. IsFiniteSet(Started')
      BY <2>2, FS_AddElement DEF Stages
  <2>4. Closed' => Closed
      BY <1>0, <2>1 DEF Closed
  <2> QED BY <1>0, <2>1, <2>3, <2>4 DEF Stages
<1>3. ASSUME NEW s \in Signal, Close(s) \/ FlushAudits(s) \/ EndPool(s) PROVE Stages'
  <2>1. PICK to \in {"requests", "audits", "ending"} :
            /\ stop' = [stop EXCEPT ![s] = to] /\ stop[s] \notin {"none", "ending"}
            /\ EndPool(s) => to = "ending"
            /\ Close(s) \/ Closed
      BY <1>3 DEF Close, FlushAudits, EndPool, Goto, Closed
  <2>2. Started' = Started
      BY <1>0, <2>1 DEF Started
  <2>3. ~timer'
      BY <1>3, <2>1 DEF Close, FlushAudits, EndPool, Stages
  <2>4. poolEnded' \/ exit' = "clean" => \E t \in Signal : stop'[t] = "ending"
    <3>1. CASE EndPool(s)
        BY <1>0, <2>1, <3>1
    <3>2. CASE Close(s) \/ FlushAudits(s)
      <4>1. UNCHANGED <<poolEnded, exit>>
          BY <3>2 DEF Close, FlushAudits
      <4>2. \A t \in Signal : stop[t] = "ending" => stop'[t] = "ending"
          BY <1>0, <2>1
      <4> QED BY <4>1, <4>2 DEF Stages
    <3> QED BY <1>3, <3>1, <3>2
  <2> QED BY <2>2, <2>3, <2>4 DEF Stages
<1>4. ASSUME NEW s \in Signal, Exit(s) \/ ForceExit(s) PROVE Stages'
    BY <1>4 DEF Exit, ForceExit, Stages, Closed, Started
<1>5. CASE UNCHANGED vars
    BY <1>1, <1>5 DEF vars, shutdown
<1> QED BY <1>1, <1>2, <1>3, <1>4, <1>5, OtherSteps DEF Next, Inserts

-----------------------------------------------------------------------------
(* What waits when the server has closed                                   *)

\* A flush of buffers that are not larger than a batch empties them.
LEMMA FlushEmpties ==
    ASSUME NEW L \in SUBSET Log, NEW b \in [Log -> Seq(Item)], NEW by, Flush(L, b, by),
           NEW l \in L, Len(b[l]) <= BatchSize
    PROVE  Len(buffer'[l]) = 0 /\ Items(buffer'[l]) = {}
<1>1. b[l] \in Seq(Item) /\ l \in Log
    OBVIOUS
<1>2. Len(RestOf(b[l])) = IF Len(b[l]) <= BatchSize THEN 0 ELSE Len(b[l]) - BatchSize
    BY <1>1, Splice, Zenon
<1>3. buffer'[l] = RestOf(b[l])
    BY <1>1, BuffersAfter
<1>4. Len(buffer'[l]) = 0
    BY <1>2, <1>3
<1> QED BY <1>4 DEF Items

\* All that the flush of one buffer takes out is then in one flight.
LEMMA FlushCarries ==
    ASSUME TypeOK, Left, NEW l \in Log, NEW by, Flush({l}, buffer, by),
           NEW i \in Items(buffer[l])
    PROVE  \E f \in flights' : f.by = by /\ i \in Items(f.rows)
<1>1. /\ buffer \in [Log -> Seq(Item)] /\ buffer[l] \in Seq(Item)
      /\ {l} \in SUBSET Log /\ l \in {l}
    BY DEF TypeOK
<1>2. Len(buffer[l]) <= BatchSize
    BY <1>1, QueueAssumption, LenProperties DEF Left
<1>3. Items(buffer'[l]) = {}
    BY <1>1, <1>2, FlushEmpties
<1>4. buffer'[l] = RestOf(buffer[l])
    BY <1>1, BuffersAfter
<1>5. Items(buffer[l]) = Items(BatchOf(buffer[l])) \cup Items(RestOf(buffer[l]))
    BY <1>1, SpliceItems
<1>6. buffer[l] # <<>>
    BY DEF Items
<1> DEFINE batch == [rows |-> BatchOf(buffer[l]), by |-> by]
<1>7. batch \in flights'
    BY <1>6 DEF Flush, FlightOf
<1>8. batch.by = by /\ batch.rows = BatchOf(buffer[l])
    OBVIOUS
<1> HIDE DEF batch
<1> QED BY <1>3, <1>4, <1>5, <1>7, <1>8

\* A buffer that is not larger than a batch is emptied or left alone.
LEMMA FlushLeaves ==
    ASSUME NEW L \in SUBSET Log, NEW b \in [Log -> Seq(Item)], NEW by, Flush(L, b, by),
           NEW l \in Log, Len(b[l]) < BatchSize
    PROVE  Len(buffer'[l]) < BatchSize /\ Items(buffer'[l]) \subseteq Items(b[l])
<1>1. CASE l \in L
  <2>1. Len(b[l]) <= BatchSize
      BY QueueAssumption, LenProperties
  <2>2. Len(buffer'[l]) = 0 /\ Items(buffer'[l]) = {}
      BY <1>1, <2>1, FlushEmpties
  <2> QED BY <2>2, QueueAssumption
<1>2. CASE l \notin L
    BY <1>2, BuffersAfter
<1> QED BY <1>1, <1>2

\* No flush is skipped: one batch always empties a buffer.
LEMMA LeftStep == TypeOK /\ Tidy /\ InOnePlace /\ Left /\ [Next]_vars => Left'
<1> SUFFICES ASSUME TypeOK, Tidy, InOnePlace, Left, [Next]_vars PROVE Left'
    OBVIOUS
<1> DEFINE
      Flushed(s, h) ==
          \/ h = "request" /\ stop'[s] \in {"requests", "audits", "ending"}
          \/ h = "audit" /\ stop'[s] \in {"audits", "ending"}
      None(h) == Items(buffer'[h]) \cap waiting' = {}
<1>0. /\ stop \in [Signal -> {"none", "closing", "requests", "audits", "ending"}]
      /\ buffer \in [Log -> Seq(Item)]
      /\ \A l \in Log : Len(buffer[l]) \in Nat /\ Len(buffer[l]) < BatchSize
      /\ BatchSize \in Nat \ {0}
      /\ Buffered \subseteq AllItems
      /\ \A l \in Log : Items(buffer[l]) \subseteq Buffered
    BY QueueAssumption, LenProperties, OnePlace DEF TypeOK, Left, Buffered, Contents
<1>1. ASSUME waiting' \subseteq AllItems',
             \A l \in Log : Len(buffer'[l]) < BatchSize,
             \A s \in Signal, h \in Log : Flushed(s, h) => None(h)
      PROVE  Left'
    BY <1>1 DEF Left, Items, Log
<1>2. ASSUME NEW s \in Signal,
             \/ stop[s] \in {"requests", "audits", "ending"}
       PROVE Items(buffer["request"]) \cap waiting = {}
    BY <1>2 DEF Left
<1>3. ASSUME NEW s \in Signal, stop[s] \in {"audits", "ending"}
      PROVE  Items(buffer["audit"]) \cap waiting = {}
    BY <1>3 DEF Left
\* Where the stages stay and nothing that waits is added, all is as before.
<1>4. ASSUME UNCHANGED <<stop, waiting>>, AllItems \subseteq AllItems',
             \A l \in Log : Len(buffer'[l]) < BatchSize,
             \A l \in Log : Items(buffer'[l]) \cap AllItems \subseteq Items(buffer[l])
      PROVE  Left'
  <2>1. waiting \subseteq AllItems
      BY DEF Left
  <2>2. \A h \in Log : Items(buffer[h]) \cap waiting = {} => None(h)
      BY <1>4, <2>1
  <2>3. \A s \in Signal, h \in Log : Flushed(s, h) => None(h)
      BY <1>2, <1>3, <1>4, <2>2
  <2> HIDE DEF Flushed, None
  <2> QED BY <1>1, <1>4, <2>1, <2>3
<1>5. ASSUME NEW l \in Log, Record(l) PROVE Left'
  <2> DEFINE item == [log |-> l, k |-> recorded[l] + 1]
             longer == [buffer EXCEPT ![l] = Append(@, item)]
  <2>1. /\ item \in Item /\ item \notin AllItems /\ AllItems' = AllItems \cup {item}
        /\ longer \in [Log -> Seq(Item)]
        /\ Contents(longer) = Buffered \cup {item}
        /\ \A h \in Log : Len(longer[h]) = IF h = l THEN Len(buffer[h]) + 1 ELSE Len(buffer[h])
        /\ Flush({l}, longer, NoOne) \/ (buffer' = longer /\ UNCHANGED flights)
        /\ buffer' = longer => Len(longer[l]) < BatchSize \/ Flush({l}, longer, NoOne)
      BY <1>5, RecordAppends
  <2>2. \A h \in Log : Items(longer[h]) \subseteq Items(buffer[h]) \cup {item}
    <3>1. Items(Append(buffer[l], item)) = Items(buffer[l]) \cup {item}
        BY <1>0, <2>1, AppendItem
    <3> QED BY <1>0, <3>1
  <2>3. UNCHANGED <<stop, waiting>>
      BY <1>5 DEF Record, shutdown
  <2> HIDE DEF item, longer
  <2>4. CASE Flush({l}, longer, NoOne)
    <3>1. Len(buffer'[l]) = 0 /\ Items(buffer'[l]) = {}
      <4>1. Len(longer[l]) <= BatchSize /\ l \in {l} /\ {l} \in SUBSET Log
          BY <1>0, <2>1
      <4>2. longer \in [Log -> Seq(Item)]
          BY <2>1
      <4> QED BY <2>4, <4>1, <4>2, FlushEmpties
    <3>2. \A h \in Log \ {l} : buffer'[h] = longer[h]
        BY <2>4, BuffersAfter
    <3>3. \A h \in Log : Len(buffer'[h]) < BatchSize
        BY <1>0, <2>1, <3>1, <3>2
    <3>4. \A h \in Log : Items(buffer'[h]) \cap AllItems \subseteq Items(buffer[h])
        BY <2>1, <2>2, <3>1, <3>2
    <3> QED BY <1>4, <2>1, <2>3, <3>3, <3>4
  <2>5. CASE buffer' = longer /\ ~Flush({l}, longer, NoOne)
      BY <1>0, <1>4, <2>1, <2>2, <2>3, <2>5
  <2> QED BY <2>1, <2>4, <2>5
<1>6. CASE TimerFlush
  <2>1. Flush(Log, buffer, NoOne) /\ UNCHANGED <<stop, waiting, recorded>>
      BY <1>6 DEF TimerFlush, shutdown, history
  <2>2. \A l \in Log : Len(buffer'[l]) < BatchSize /\ Items(buffer'[l]) \subseteq Items(buffer[l])
      BY <1>0, <2>1, FlushLeaves
  <2>3. AllItems' = AllItems
      BY <2>1 DEF AllItems
  <2> QED BY <1>4, <2>1, <2>2, <2>3
<1>7. ASSUME NEW t \in Signal, Close(t) PROVE Left'
  <2>1. /\ Flush({"request"}, buffer, t) /\ UNCHANGED recorded
        /\ stop[t] = "closing" /\ stop' = [stop EXCEPT ![t] = "requests"]
        /\ waiting' = IF Closed THEN waiting ELSE Buffered
      BY <1>7 DEF Close, Goto, Buffered, Contents
  <2>2. \A l \in Log : Len(buffer'[l]) < BatchSize /\ Items(buffer'[l]) \subseteq Items(buffer[l])
      BY <1>0, <2>1, FlushLeaves DEF Log
  <2>3. Items(buffer'["request"]) = {}
    <3>1. Len(buffer["request"]) <= BatchSize
        BY <1>0 DEF Log
    <3> QED BY <1>0, <2>1, <3>1, FlushEmpties DEF Log
  <2>4. AllItems' = AllItems
      BY <2>1 DEF AllItems
  <2>5. waiting' \subseteq AllItems'
      BY <1>0, <2>1, <2>4 DEF Left
  <2>6. ASSUME NEW s \in Signal, Flushed(s, "audit") PROVE None("audit")
    <3>1. stop[s] \in {"audits", "ending"}
        BY <1>0, <2>1, <2>6
    <3>2. Closed
        BY <3>1 DEF Closed
    <3> QED BY <1>3, <2>1, <2>2, <3>1, <3>2 DEF Log
  <2>7. None("request")
      BY <2>3
  <2> HIDE DEF None
  <2>8. \A s \in Signal, h \in Log : Flushed(s, h) => None(h)
      BY <2>6, <2>7 DEF Log
  <2> QED BY <1>1, <2>2, <2>5, <2>8
<1>8. ASSUME NEW t \in Signal, FlushAudits(t) PROVE Left'
  <2>1. /\ Flush({"audit"}, buffer, t) /\ UNCHANGED <<recorded, waiting>>
        /\ stop[t] = "requests" /\ stop' = [stop EXCEPT ![t] = "audits"]
      BY <1>8 DEF FlushAudits, Goto, history
  <2>2. \A l \in Log : Len(buffer'[l]) < BatchSize /\ Items(buffer'[l]) \subseteq Items(buffer[l])
      BY <1>0, <2>1, FlushLeaves DEF Log
  <2>3. Items(buffer'["audit"]) = {}
    <3>1. Len(buffer["audit"]) <= BatchSize
        BY <1>0 DEF Log
    <3> QED BY <1>0, <2>1, <3>1, FlushEmpties DEF Log
  <2>4. AllItems' = AllItems
      BY <2>1 DEF AllItems
  <2>5. waiting' \subseteq AllItems'
      BY <2>1, <2>4 DEF Left
  <2>6. ASSUME NEW s \in Signal, Flushed(s, "request") PROVE None("request")
    <3>1. stop[s] \in {"requests", "audits", "ending"}
        BY <1>0, <2>1, <2>6
    <3> QED BY <1>2, <2>1, <2>2, <3>1 DEF Log
  <2>7. None("audit")
      BY <2>3
  <2> HIDE DEF None
  <2>8. \A s \in Signal, h \in Log : Flushed(s, h) => None(h)
      BY <2>6, <2>7 DEF Log
  <2> QED BY <1>1, <2>2, <2>5, <2>8
<1>9. ASSUME NEW t \in Signal, Terminate(t) \/ EndPool(t) PROVE Left'
  <2>1. PICK to \in {"closing", "ending"} :
            /\ stop' = [stop EXCEPT ![t] = to]
            /\ to = "ending" => stop[t] = "audits"
      BY <1>9 DEF Terminate, EndPool, Goto
  <2>2. UNCHANGED <<buffer, waiting, recorded>>
      BY <1>9 DEF Terminate, EndPool, history
  <2>3. \A s \in Signal, h \in Log : Flushed(s, h) => None(h)
    <3> SUFFICES ASSUME NEW s \in Signal, NEW h \in Log, Flushed(s, h) PROVE None(h)
        OBVIOUS
    <3>1. CASE h = "request"
      <4>1. stop[s] \in {"requests", "audits", "ending"}
          BY <1>0, <2>1, <3>1
      <4> QED BY <1>2, <2>2, <3>1, <4>1
    <3>2. CASE h = "audit"
      <4>1. stop[s] \in {"audits", "ending"}
          BY <1>0, <2>1, <3>2
      <4> QED BY <1>3, <2>2, <3>2, <4>1
    <3> QED BY <3>1, <3>2 DEF Log
  <2>4. waiting' \subseteq AllItems'
      BY <2>2 DEF Left, AllItems
  <2> HIDE DEF Flushed, None
  <2> QED BY <1>0, <1>1, <2>2, <2>3, <2>4
<1>10. CASE UNCHANGED <<stop, waiting, buffer, recorded>>
  <2>1. AllItems' = AllItems
      BY <1>10 DEF AllItems
  <2> QED BY <1>0, <1>4, <1>10, <2>1
<1>11. ASSUME NEW s \in Signal, Exit(s) \/ ForceExit(s)
       PROVE  UNCHANGED <<stop, waiting, buffer, recorded>>
    BY <1>11 DEF Exit, ForceExit, history
<1>12. ASSUME NEW f \in flights, InsertRow(f) \/ InsertFails(f)
       PROVE  UNCHANGED <<stop, waiting, buffer, recorded>>
    BY <1>12 DEF InsertRow, InsertFails, shutdown, history
<1> HIDE DEF Flushed, None
<1> QED BY <1>5, <1>6, <1>7, <1>8, <1>9, <1>10, <1>11, <1>12 DEF Next, Inserts, vars

\* What waited goes from its buffer to an awaited flush to the table.
LEMMA HandedOverStep ==
    ASSUME TypeOK, Tidy, InOnePlace, Stages, Left, [Next]_vars,
           NEW s \in Signal, HandedOver(s)
    PROVE  HandedOver(s)'
<1> SUFFICES ASSUME faults' = 0, Started' = {s}, NEW i \in waiting'
             PROVE  /\ i.log = "request" =>
                         /\ stop'[s] = "requests" => Carried(i, s)'
                         /\ stop'[s] \in {"audits", "ending"} => i \in stored'
                    /\ i.log = "audit" /\ late' = {} =>
                         /\ stop'[s] = "requests" => i \in Items(buffer'["audit"])
                         /\ stop'[s] = "audits" => Carried(i, s)'
                         /\ stop'[s] = "ending" => i \in stored'
    BY DEF HandedOver, Items
<1> DEFINE Goal == /\ i.log = "request" =>
                         /\ stop'[s] = "requests" => Carried(i, s)'
                         /\ stop'[s] \in {"audits", "ending"} => i \in stored'
                   /\ i.log = "audit" /\ late' = {} =>
                         /\ stop'[s] = "requests" => i \in Items(buffer'["audit"])
                         /\ stop'[s] = "audits" => Carried(i, s)'
                         /\ stop'[s] = "ending" => i \in stored'
<1> DEFINE Before == /\ i.log = "request" =>
                           /\ stop[s] = "requests" => Carried(i, s)
                           /\ stop[s] \in {"audits", "ending"} => i \in stored
                     /\ i.log = "audit" /\ late = {} =>
                           /\ stop[s] = "requests" => i \in Items(buffer["audit"])
                           /\ stop[s] = "audits" => Carried(i, s)
                           /\ stop[s] = "ending" => i \in stored
<1>0. /\ stop \in [Signal -> {"none", "closing", "requests", "audits", "ending"}]
      /\ buffer \in [Log -> Seq(Item)] /\ faults \in Nat
      /\ \A l \in Log : Len(buffer[l]) <= BatchSize
    BY QueueAssumption, LenProperties DEF TypeOK, Left
<1>1. faults = 0 /\ Started = {s} /\ i \in waiting => Before
    BY DEF HandedOver
<1>2. ASSUME NEW t \in Signal, stop[t] # "none", Started = {s} PROVE t = s
    BY <1>2 DEF Started
<1>3. UNCHANGED stop => Started = {s}
    BY DEF Started
<1>4. stored \subseteq stored' /\ flights \subseteq flights' /\ Carried(i, s) => Carried(i, s)'
    BY DEF Carried, Items
<1>5. ~Awaits(s) /\ Carried(i, s) => i \in stored
    BY DEF Awaits, Carried
<1>6. ASSUME NEW t, NEW h \in Log, Flush({h}, buffer, t)
       PROVE  \A j \in Items(buffer[h]) : \E f \in flights' : f.by = t /\ j \in Items(f.rows)
    BY <1>6, FlushCarries
<1>7. ASSUME NEW l \in Log, Record(l) PROVE Goal
  <2>1. /\ UNCHANGED <<stop, waiting, stored, faults>>
        /\ late' = {} => ~Closed
        /\ flights \subseteq flights'
      BY <1>7 DEF Record, shutdown, Flush
  <2>2. ~Closed => stop[s] \notin {"requests", "audits", "ending"}
      BY DEF Closed
  <2> QED BY <1>1, <1>3, <1>4, <2>1, <2>2
<1>8. ASSUME TimerFlush PROVE Goal
  <2>1. UNCHANGED stop /\ ~Closed
      BY <1>8 DEF TimerFlush, shutdown, Stages
  <2> QED BY <2>1 DEF Closed
<1>9. ASSUME NEW f \in flights, InsertRow(f) PROVE Goal
  <2>1. UNCHANGED <<stop, waiting, faults, late, buffer>> /\ stored \subseteq stored'
      BY <1>9 DEF InsertRow, shutdown, history
  <2>2. stop[s] \in {"requests", "audits"} /\ Carried(i, s) => Carried(i, s)'
    <3> SUFFICES ASSUME stop[s] \in {"requests", "audits"},
                        NEW g \in flights, g.by = s, i \in Items(g.rows)
                 PROVE  i \in stored' \/ \E h \in flights' : h.by = s /\ i \in Items(h.rows)
        BY <2>1 DEF Carried, Items
    <3>1. CASE g # f
        BY <1>9, <3>1 DEF InsertRow
    <3>2. CASE g = f /\ i = Head(f.rows)
        BY <1>9, <3>2 DEF InsertRow
    <3>3. CASE g = f /\ i \in Items(Tail(f.rows))
      <4>1. Tail(f.rows) # <<>>
        <5>1. Items(<<>>) = {}
            BY DEF Items
        <5> QED BY <3>3, <5>1
      <4>2. ~poolEnded
          BY <1>2, <1>3, <2>1 DEF Stages
      <4>3. f \in Flight
          BY DEF TypeOK
      <4> DEFINE next == [f EXCEPT !.rows = Tail(f.rows)]
      <4>4. next.rows = Tail(f.rows) /\ next.by = s
          BY <3>3, <4>3 DEF Flight
      <4>5. next \in flights'
          BY <1>9, <4>1, <4>2 DEF InsertRow
      <4> HIDE DEF next
      <4> QED BY <3>3, <4>4, <4>5
    <3> QED BY <3>1, <3>2, <3>3, InsertTypes
  <2> QED BY <1>1, <1>3, <2>1, <2>2
<1>10. ASSUME NEW f \in flights, InsertFails(f) PROVE Goal
    BY <1>0, <1>10 DEF InsertFails
<1>11. ASSUME NEW t \in Signal, Terminate(t) PROVE Goal
  <2>1. stop' = [stop EXCEPT ![t] = "closing"]
      BY <1>11 DEF Terminate, Goto
  <2>2. t \in Started'
      BY <1>0, <2>1 DEF Started
  <2> QED BY <1>0, <2>1, <2>2
<1>12. ASSUME NEW t \in Signal, Close(t) PROVE Goal
  <2>1. /\ stop[t] = "closing" /\ stop' = [stop EXCEPT ![t] = "requests"]
        /\ Flush({"request"}, buffer, t)
        /\ waiting' = IF Closed THEN waiting ELSE Buffered
      BY <1>12 DEF Close, Goto, Buffered, Contents
  <2>2. Started = {s} /\ t = s
      BY <1>0, <1>2, <2>1 DEF Started
  <2>3. ~Closed
      BY <1>2, <2>1, <2>2 DEF Closed
  <2>4. PICK l \in Log : i \in Items(buffer[l])
      BY <2>1, <2>3 DEF Buffered, Contents
  <2>5. i.log = l
      BY <2>4 DEF Tidy
  <2>6. CASE l = "request"
    <3>1. \A j \in Items(buffer["request"]) : \E f \in flights' : f.by = t /\ j \in Items(f.rows)
        BY <1>6, <2>1 DEF Log
    <3>2. Carried(i, s)'
      <4>1. \E f \in flights' : f.by = s /\ i \in Items(f.rows)
          BY <2>2, <2>4, <2>6, <3>1
      <4> QED BY <4>1 DEF Carried, Items
    <3>3. stop'[s] = "requests"
        BY <1>0, <2>1, <2>2
    <3> QED BY <2>5, <2>6, <3>2, <3>3
  <2>7. CASE l = "audit"
    <3>1. buffer'["audit"] = buffer["audit"]
        BY <2>1 DEF Flush, Log
    <3> QED BY <1>0, <2>1, <2>2, <2>4, <2>5, <2>7, <3>1
  <2> QED BY <2>6, <2>7 DEF Log
<1>13. ASSUME NEW t \in Signal, FlushAudits(t) PROVE Goal
  <2>1. /\ stop[t] = "requests" /\ stop' = [stop EXCEPT ![t] = "audits"]
        /\ Flush({"audit"}, buffer, t) /\ ~Awaits(t)
        /\ UNCHANGED <<stored, waiting, late, faults>>
      BY <1>13 DEF FlushAudits, Goto, history
  <2>2. Started = {s} /\ t = s
      BY <1>0, <1>2, <2>1 DEF Started
  <2>3. Before /\ stop'[s] = "audits"
      BY <1>0, <1>1, <2>1, <2>2
  <2>4. i \in Items(buffer["audit"]) => Carried(i, s)'
    <3> SUFFICES ASSUME i \in Items(buffer["audit"])
                 PROVE  \E f \in flights' : f.by = s /\ i \in Items(f.rows)
        BY DEF Carried, Items
    <3>1. \A j \in Items(buffer["audit"]) : \E f \in flights' : f.by = t /\ j \in Items(f.rows)
        BY <1>6, <2>1 DEF Log
    <3> QED BY <2>2, <3>1
  <2> QED BY <1>5, <2>1, <2>2, <2>3, <2>4
<1>14. ASSUME NEW t \in Signal, EndPool(t) PROVE Goal
  <2>1. /\ stop[t] = "audits" /\ stop' = [stop EXCEPT ![t] = "ending"] /\ ~Awaits(t)
        /\ UNCHANGED <<stored, waiting, late, faults>>
      BY <1>14 DEF EndPool, Goto, history
  <2>2. Started = {s} /\ t = s
      BY <1>0, <1>2, <2>1 DEF Started
  <2>3. Before /\ stop'[s] = "ending"
      BY <1>0, <1>1, <2>1, <2>2
  <2> QED BY <1>5, <2>1, <2>2, <2>3
<1>15. ASSUME UNCHANGED <<stop, waiting, faults, late, buffer, stored, flights>>
       PROVE  Goal
    BY <1>1, <1>3, <1>4, <1>15
<1>16. ASSUME NEW t \in Signal, Exit(t) \/ ForceExit(t)
       PROVE  UNCHANGED <<stop, waiting, faults, late, buffer, stored, flights>>
    BY <1>16 DEF Exit, ForceExit, history
<1>17. UNCHANGED vars => UNCHANGED <<stop, waiting, faults, late, buffer, stored, flights>>
    BY DEF vars
<1> HIDE DEF Goal
<1>18. Goal
    BY <1>7, <1>8, <1>9, <1>10, <1>11, <1>12, <1>13, <1>14, <1>15, <1>16, <1>17 DEF Next, Inserts
<1> QED BY <1>18 DEF Goal

-----------------------------------------------------------------------------
(* The theorems                                                            *)

LEMMA InductiveInit == Init => Inductive
<1> SUFFICES ASSUME Init PROVE Inductive
    OBVIOUS
<1>1. TypeOK
    BY TypeInit
<1>2. \A l \in Log : Len(buffer[l]) = 0 /\ Items(buffer[l]) = {}
    BY EmptySeq DEF Init, Items
<1>3. Tidy
    BY <1>2 DEF Init, Tidy, NoRepeat
<1>4. Buffered = {} /\ Flying = {}
    BY <1>2 DEF Init, Buffered, Contents, Flying
<1>5. AllItems = {}
    BY DEF Init, AllItems
<1>6. InOnePlace
    BY <1>4, <1>5, OnePlace DEF Init, Apart
<1>7. Started = {}
    BY DEF Init, Started
<1>8. Stages
    BY <1>7, FS_EmptySet DEF Init, Stages, Closed
<1>9. Left
    BY <1>2, QueueAssumption DEF Init, Left
<1>10. \A s \in Signal : HandedOver(s)
    BY DEF Init, HandedOver
<1> QED BY <1>1, <1>3, <1>6, <1>8, <1>9, <1>10 DEF Inductive

LEMMA InductiveStep == Inductive /\ [Next]_vars => Inductive'
<1> SUFFICES ASSUME Inductive, [Next]_vars PROVE Inductive'
    OBVIOUS
<1>1. TypeOK /\ Tidy /\ InOnePlace /\ Stages /\ Left
    BY DEF Inductive
<1>2. TypeOK' /\ Tidy' /\ InOnePlace' /\ Stages' /\ Left'
    BY <1>1, TypeStep, InOnePlaceStep, StagesStep, LeftStep
<1>3. ASSUME NEW s \in Signal PROVE HandedOver(s)'
    BY <1>1, HandedOverStep DEF Inductive
<1> QED BY <1>2, <1>3 DEF Inductive

\* What each stage of the queue and of its shutdown has done by then is as
\* Inductive says, in every state.
THEOREM InductiveInvariant == Spec => []Inductive
BY InductiveInit, InductiveStep, PTL DEF Spec

\* Every variable of the background queue keeps its type.
THEOREM TypeInvariant == Spec => []TypeOK
<1>1. Inductive => TypeOK
    BY DEF Inductive
<1> QED BY <1>1, InductiveInvariant, PTL

\* No item is inserted twice or vanishes while the process runs, whatever
\* flushes overlap.
THEOREM ItemsInOnePlace == Spec => []InOnePlace
<1>1. Inductive => InOnePlace
    BY DEF Inductive
<1> QED BY <1>1, InductiveInvariant, PTL

\* The one flush that the shutdown makes of each buffer leaves nothing behind.
THEOREM FlushIsEnough == Spec => []OneFlushIsEnough
<1>1. Inductive => OneFlushIsEnough
  <2> SUFFICES ASSUME Inductive PROVE OneFlushIsEnough
      OBVIOUS
  <2>1. \A s \in Signal : stop[s] \in {"audits", "ending"} =>
            /\ Items(buffer["request"]) \cap waiting = {}
            /\ Items(buffer["audit"]) \cap waiting = {}
      BY DEF Inductive, Left
  <2> QED BY <2>1 DEF Inductive, Left, OneFlushIsEnough, Log
<1> QED BY <1>1, InductiveInvariant, PTL

\* A clean stop after one signal, with no insert failed, has stored all that
\* waited, for every number of items and flushes under way.
THEOREM CleanStopsStore == Spec => []CleanStopStoresWaiting
<1>1. Inductive => CleanStopStoresWaiting
  <2> SUFFICES ASSUME Inductive, exit = "clean", faults = 0, Cardinality(Started) = 1,
                      NEW i \in waiting, i.log = "request" \/ late = {}
               PROVE  i \in stored
      BY DEF CleanStopStoresWaiting, Started
  <2>1. PICK s \in Signal : stop[s] = "ending"
      BY DEF Inductive, Stages
  <2>2. Started = {s}
    <3>1. IsFiniteSet(Started) /\ s \in Started
        BY <2>1 DEF Inductive, Stages, Started
    <3> QED BY <3>1, FS_Singleton
  <2>3. i.log \in Log
      BY DEF Inductive, TypeOK, Item
  <2>4. HandedOver(s)
      BY DEF Inductive
  <2> QED BY <2>1, <2>2, <2>3, <2>4 DEF HandedOver, Log
<1> QED BY <1>1, InductiveInvariant, PTL
=============================================================================
