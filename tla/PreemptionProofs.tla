-------------------------- MODULE PreemptionProofs --------------------------
(***************************************************************************)
(* Proofs about TraceBuffer and Preemption.  The ring keeps the last       *)
(* events in order, for every size.  When signals land only between        *)
(* primitives, the linked lists are FIFO queues and no wakeup is lost.     *)
(***************************************************************************)
EXTENDS Preemption, QueueLemmas, TLAPS

(* A sum of two places comes round at most once. *)
OnceRound == 0 .. TRACE_LOG_SIZE + TRACE_LOG_SIZE - 1
Turn(k)   == IF k < TRACE_LOG_SIZE THEN k ELSE k - TRACE_LOG_SIZE

LEMMA Wrap ==
  ASSUME NEW k \in OnceRound
  PROVE  k % TRACE_LOG_SIZE = Turn(k)
<1> USE DEF OnceRound, Turn
<1>1. CASE k < TRACE_LOG_SIZE
  BY <1>1, TraceLogSize
<1>2. CASE k >= TRACE_LOG_SIZE
  BY <1>2, TraceLogSize
<1> QED
  BY <1>1, <1>2, TraceLogSize

(* What the ring holds, oldest first. *)
Content(buf) == [i \in 1 .. buf.count |-> Row(buf, i)]

(* Once something is logged, as many rows are printed as there are events. *)
LEMMA RowsAreContent ==
  ASSUME NEW Entry, NEW buf \in TraceBuffers(Entry), buf.count # 0
  PROVE  k_get_trace_buffer(buf) = Content(buf)
<1>1. buf.head \in Places /\ buf.count \in 1 .. TRACE_LOG_SIZE
  BY DEF TraceBuffers
<1>2. \A n \in 1 .. TRACE_LOG_SIZE :
        (buf.head + n) % TRACE_LOG_SIZE = get_trace_tail(buf) <=> n = buf.count
  <2> TAKE n \in 1 .. TRACE_LOG_SIZE
  <2>1. /\ buf.head + n \in OnceRound
        /\ buf.head + buf.count \in OnceRound
    BY <1>1, TraceLogSize DEF Places, OnceRound
  <2>2. /\ (buf.head + n) % TRACE_LOG_SIZE = Turn(buf.head + n)
        /\ get_trace_tail(buf) = Turn(buf.head + buf.count)
    BY <2>1, Wrap DEF get_trace_tail
  <2>3. Turn(buf.head + n) = Turn(buf.head + buf.count) <=> n = buf.count
    BY <1>1, TraceLogSize DEF Places, Turn
  <2> QED
    BY <2>2, <2>3
<1>3. RowCount(buf) = buf.count
  BY <1>1, <1>2 DEF RowCount
<1> QED
  BY <1>3 DEF k_get_trace_buffer, Content

(* The place of a row. *)
PlaceOfRow(buf, i) == Turn(buf.head + i - 1)

LEMMA RowPlace ==
  ASSUME NEW Entry, NEW buf \in TraceBuffers(Entry), NEW i \in 1 .. TRACE_LOG_SIZE
  PROVE  /\ PlaceOfRow(buf, i) \in Places
         /\ Row(buf, i) = buf.trace_log[PlaceOfRow(buf, i)]
<1>1. buf.head \in Places
  BY DEF TraceBuffers
<1>2. buf.head + i - 1 \in OnceRound
  BY <1>1, TraceLogSize DEF Places, OnceRound
<1>3. (buf.head + i - 1) % TRACE_LOG_SIZE = PlaceOfRow(buf, i)
  BY <1>2, Wrap DEF PlaceOfRow
<1>4. PlaceOfRow(buf, i) \in Places
  BY <1>1, <1>2, TraceLogSize DEF PlaceOfRow, Turn, OnceRound, Places
<1> QED
  BY <1>3, <1>4 DEF Row

(* The tail is the place after the last row; in a full ring it is the head. *)
LEMMA TailPlace ==
  ASSUME NEW Entry, NEW buf \in TraceBuffers(Entry)
  PROVE  /\ get_trace_tail(buf) \in Places
         /\ buf.count < TRACE_LOG_SIZE => get_trace_tail(buf) = PlaceOfRow(buf, buf.count + 1)
         /\ buf.count = TRACE_LOG_SIZE => get_trace_tail(buf) = buf.head
<1>1. buf.head \in Places /\ buf.count \in 0 .. TRACE_LOG_SIZE
  BY DEF TraceBuffers
<1>2. buf.head + buf.count \in OnceRound
  BY <1>1, TraceLogSize DEF Places, OnceRound
<1>3. get_trace_tail(buf) = Turn(buf.head + buf.count)
  BY <1>2, Wrap DEF get_trace_tail
<1> QED
  BY <1>1, <1>3, TraceLogSize DEF Places, PlaceOfRow, Turn

(* An entry that is written at the tail changes no row of a ring that is not full, and only
   the oldest row of a full one. *)
LEMMA WriteKeepsRows ==
  ASSUME NEW Entry, NEW buf \in TraceBuffers(Entry), NEW e \in Entry
  PROVE  LET new == WriteEntry(buf, get_trace_tail(buf), e)
         IN  /\ new \in TraceBuffers(Entry)
             /\ new.head = buf.head /\ new.count = buf.count
             /\ new.trace_log[get_trace_tail(buf)] = e
             /\ \A i \in 1 .. buf.count :
                  i > 1 \/ buf.count < TRACE_LOG_SIZE => Row(new, i) = Row(buf, i)
<1> DEFINE t   == get_trace_tail(buf)
           new == WriteEntry(buf, t, e)
<1>1. t \in Places
  BY TailPlace
<1>2. /\ new \in TraceBuffers(Entry) /\ new.head = buf.head /\ new.count = buf.count
      /\ new.trace_log = [buf.trace_log EXCEPT ![t] = e] /\ new.trace_log[t] = e
  BY <1>1 DEF WriteEntry, TraceBuffers
<1>3. ASSUME NEW i \in 1 .. buf.count, i > 1 \/ buf.count < TRACE_LOG_SIZE
      PROVE  Row(new, i) = Row(buf, i)
  <2>1. buf.head \in Places /\ buf.count \in 0 .. TRACE_LOG_SIZE /\ i \in 1 .. TRACE_LOG_SIZE
    BY TraceLogSize DEF TraceBuffers
  <2>2. PlaceOfRow(new, i) = PlaceOfRow(buf, i)
    BY <1>2 DEF PlaceOfRow
  <2>3. PlaceOfRow(buf, i) # t
    <3> HIDE DEF t
    <3>1. /\ buf.count < TRACE_LOG_SIZE => t = PlaceOfRow(buf, buf.count + 1)
          /\ buf.count = TRACE_LOG_SIZE => t = buf.head
      BY TailPlace DEF t
    <3> QED
      BY <1>3, <2>1, <3>1, TraceLogSize DEF PlaceOfRow, Turn, Places
  <2>4. Row(new, i) = new.trace_log[PlaceOfRow(new, i)]
    BY <1>2, <2>1, RowPlace
  <2>5. Row(buf, i) = buf.trace_log[PlaceOfRow(buf, i)] /\ PlaceOfRow(buf, i) \in Places
    BY <2>1, RowPlace
  <2>6. buf.trace_log \in [Places -> Entry]
    BY DEF TraceBuffers
  <2> HIDE DEF new
  <2> QED
    BY <1>2, <2>2, <2>3, <2>4, <2>5, <2>6
<1> QED
  BY <1>2, <1>3

(* The content is a sequence. *)
LEMMA ContentSeq ==
  ASSUME NEW Entry, NEW buf \in TraceBuffers(Entry)
  PROVE  /\ Content(buf) \in Seq(Entry)
         /\ Len(Content(buf)) = buf.count
         /\ \A i \in 1 .. buf.count : Content(buf)[i] = Row(buf, i)
<1>1. buf.count \in Nat /\ buf.trace_log \in [Places -> Entry]
  BY TraceLogSize DEF TraceBuffers
<1>2. \A i \in 1 .. buf.count : Row(buf, i) \in Entry
  <2> TAKE i \in 1 .. buf.count
  <2>1. i \in 1 .. TRACE_LOG_SIZE
    BY TraceLogSize DEF TraceBuffers
  <2> QED
    BY <1>1, <2>1, RowPlace
<1> QED
  BY <1>1, <1>2 DEF Content

(* How a sequence is recognised as an extension of another. *)
LEMMA IsAppend ==
  ASSUME NEW S, NEW s \in Seq(S), NEW t \in Seq(S), NEW e \in S,
         Len(t) = Len(s) + 1, t[Len(t)] = e, \A i \in 1 .. Len(s) : t[i] = s[i]
  PROVE  t = Append(s, e)
<1>1. /\ Append(s, e) \in Seq(S) /\ Len(Append(s, e)) = Len(s) + 1
      /\ \A i \in 1 .. Len(s) + 1 : Append(s, e)[i] = IF i <= Len(s) THEN s[i] ELSE e
  BY LenProperties
<1>2. \A i \in 1 .. Len(t) : t[i] = Append(s, e)[i]
  BY <1>1, LenProperties
<1> QED
  BY <1>1, <1>2, SeqEqual

(* Counting the entry at the tail in appends it to the content, and drops the oldest event
   from a full ring. *)
Kept(buf) == IF buf.count < TRACE_LOG_SIZE THEN Content(buf) ELSE Tail(Content(buf))

LEMMA AdvanceContent ==
  ASSUME NEW Entry, NEW buf \in TraceBuffers(Entry)
  PROVE  /\ Advance(buf) \in TraceBuffers(Entry) /\ Advance(buf).count # 0
         /\ Content(Advance(buf)) = Append(Kept(buf), buf.trace_log[get_trace_tail(buf)])
<1> DEFINE new == Advance(buf)
           e   == buf.trace_log[get_trace_tail(buf)]
<1>1. buf.head \in Places /\ buf.count \in 0 .. TRACE_LOG_SIZE /\ buf.trace_log \in [Places -> Entry]
  BY DEF TraceBuffers
<1>2. /\ get_trace_tail(buf) \in Places /\ e \in Entry
      /\ buf.count < TRACE_LOG_SIZE => e = Row(buf, buf.count + 1)
      /\ buf.count = TRACE_LOG_SIZE => get_trace_tail(buf) = buf.head
  <2>1. buf.count < TRACE_LOG_SIZE => buf.count + 1 \in 1 .. TRACE_LOG_SIZE
    BY <1>1, TraceLogSize
  <2> QED
    BY <1>1, <2>1, TailPlace, RowPlace
<1>3. CASE buf.count < TRACE_LOG_SIZE
  <2>1. /\ new.head = buf.head /\ new.count = buf.count + 1 /\ new.trace_log = buf.trace_log
        /\ new \in TraceBuffers(Entry) /\ new.count # 0
    BY <1>1, <1>3, TraceLogSize DEF Advance, TraceBuffers
  <2>2. \A i \in 1 .. new.count : Row(new, i) = Row(buf, i)
    BY <2>1 DEF Row
  <2>3. Content(new) = Append(Content(buf), e)
    <3>1. /\ Content(new) \in Seq(Entry) /\ Len(Content(new)) = buf.count + 1
          /\ \A i \in 1 .. buf.count + 1 : Content(new)[i] = Row(buf, i)
      BY <2>1, <2>2, ContentSeq
    <3>2. /\ Content(buf) \in Seq(Entry) /\ Len(Content(buf)) = buf.count
          /\ \A i \in 1 .. buf.count : Content(buf)[i] = Row(buf, i)
      BY ContentSeq
    <3> HIDE DEF new, e
    <3>3. /\ Len(Content(new)) = Len(Content(buf)) + 1
          /\ Content(new)[Len(Content(new))] = e
          /\ \A i \in 1 .. Len(Content(buf)) : Content(new)[i] = Content(buf)[i]
      BY <1>1, <1>2, <1>3, <3>1, <3>2
    <3> QED
      BY <1>2, <3>1, <3>2, <3>3, IsAppend
  <2> QED
    BY <1>3, <2>1, <2>3 DEF Kept
<1>4. CASE buf.count = TRACE_LOG_SIZE
  <2>0. buf.head + 1 \in OnceRound
    BY <1>1, TraceLogSize DEF Places, OnceRound
  <2>1. /\ new.head = Turn(buf.head + 1) /\ new.head \in Places
        /\ new.count = TRACE_LOG_SIZE /\ new.trace_log = buf.trace_log
        /\ new \in TraceBuffers(Entry) /\ new.count # 0
    <3>1. new = [buf EXCEPT !.head = Turn(buf.head + 1)]
      BY <1>4, <2>0, Wrap DEF Advance
    <3>2. Turn(buf.head + 1) \in Places
      BY <1>1, TraceLogSize DEF Turn, Places
    <3> HIDE DEF new
    <3> QED
      BY <1>1, <1>4, <3>1, <3>2, TraceLogSize DEF TraceBuffers
  <2>2. ASSUME NEW i \in 1 .. TRACE_LOG_SIZE
        PROVE  Row(new, i) = IF i < TRACE_LOG_SIZE THEN Row(buf, i + 1) ELSE e
    <3>1. Row(new, i) = buf.trace_log[PlaceOfRow(new, i)]
      BY <2>1, RowPlace
    <3>2. i < TRACE_LOG_SIZE => i + 1 \in 1 .. TRACE_LOG_SIZE
      BY TraceLogSize
    <3>3. i < TRACE_LOG_SIZE => Row(buf, i + 1) = buf.trace_log[PlaceOfRow(buf, i + 1)]
      BY <3>2, RowPlace
    <3>4. i < TRACE_LOG_SIZE => PlaceOfRow(new, i) = PlaceOfRow(buf, i + 1)
      <4> HIDE DEF new
      <4> QED
        BY <1>1, <2>1, TraceLogSize, SMTT(30) DEF PlaceOfRow, Turn, Places
    <3>5. i = TRACE_LOG_SIZE => PlaceOfRow(new, i) = get_trace_tail(buf)
      <4>1. get_trace_tail(buf) = buf.head
        BY <1>2, <1>4
      <4> HIDE DEF new
      <4> QED
        BY <1>1, <2>1, <4>1, TraceLogSize DEF PlaceOfRow, Turn, Places
    <3> QED
      BY <3>1, <3>3, <3>4, <3>5, TraceLogSize
  <2>3. Content(new) = Append(Tail(Content(buf)), e)
    <3>1. /\ Content(new) \in Seq(Entry) /\ Len(Content(new)) = TRACE_LOG_SIZE
          /\ \A i \in 1 .. TRACE_LOG_SIZE : Content(new)[i] = Row(new, i)
      BY <2>1, ContentSeq
    <3>2. /\ Content(buf) \in Seq(Entry) /\ Len(Content(buf)) = TRACE_LOG_SIZE
          /\ \A i \in 1 .. TRACE_LOG_SIZE : Content(buf)[i] = Row(buf, i)
      BY <1>4, ContentSeq
    <3> HIDE DEF new, e
    <3>3. Content(buf) # <<>>
      BY <3>2, EmptySeq, TraceLogSize
    <3>4. /\ Tail(Content(buf)) \in Seq(Entry) /\ Len(Tail(Content(buf))) = TRACE_LOG_SIZE - 1
          /\ \A i \in 1 .. TRACE_LOG_SIZE - 1 : Tail(Content(buf))[i] = Content(buf)[i + 1]
      BY <3>2, <3>3, HeadTailProperties
    <3>5. /\ Len(Content(new)) = Len(Tail(Content(buf))) + 1
          /\ Content(new)[Len(Content(new))] = e
          /\ \A i \in 1 .. Len(Tail(Content(buf))) : Content(new)[i] = Tail(Content(buf))[i]
      BY <2>2, <3>1, <3>2, <3>4, TraceLogSize
    <3> QED
      BY <1>2, <3>1, <3>4, <3>5, IsAppend
  <2>4. Kept(buf) = Tail(Content(buf))
    BY <1>4, TraceLogSize DEF Kept
  <2> QED
    BY <2>1, <2>3, <2>4
<1>5. buf.count < TRACE_LOG_SIZE \/ buf.count = TRACE_LOG_SIZE
  BY <1>1, TraceLogSize
<1> QED
  BY <1>3, <1>4, <1>5

(* Writing the entry changes nothing that is kept. *)
LEMMA WriteKeeps ==
  ASSUME NEW Entry, NEW buf \in TraceBuffers(Entry), NEW e \in Entry
  PROVE  Kept(WriteEntry(buf, get_trace_tail(buf), e)) = Kept(buf)
<1> DEFINE new == WriteEntry(buf, get_trace_tail(buf), e)
<1>1. /\ new \in TraceBuffers(Entry) /\ new.count = buf.count
      /\ \A i \in 1 .. buf.count : i > 1 \/ buf.count < TRACE_LOG_SIZE => Row(new, i) = Row(buf, i)
  BY WriteKeepsRows
<1>2. /\ Content(buf) \in Seq(Entry) /\ Len(Content(buf)) = buf.count
      /\ \A i \in 1 .. buf.count : Content(buf)[i] = Row(buf, i)
  BY ContentSeq
<1>3. /\ Content(new) \in Seq(Entry) /\ Len(Content(new)) = buf.count
      /\ \A i \in 1 .. buf.count : Content(new)[i] = Row(new, i)
  BY <1>1, ContentSeq
<1>4. buf.count \in 0 .. TRACE_LOG_SIZE
  BY DEF TraceBuffers
<1> SUFFICES Kept(new) = Kept(buf)
  OBVIOUS
<1> HIDE DEF new
<1>5. CASE buf.count < TRACE_LOG_SIZE
  <2>1. Content(new) = Content(buf)
    BY <1>1, <1>2, <1>3, <1>5, SeqEqual
  <2> QED
    BY <1>1, <1>5, <2>1 DEF Kept
<1>6. CASE buf.count = TRACE_LOG_SIZE
  <2>1. Content(buf) # <<>> /\ Content(new) # <<>>
    BY <1>2, <1>3, <1>6, EmptySeq, TraceLogSize
  <2>2. /\ Tail(Content(buf)) \in Seq(Entry) /\ Len(Tail(Content(buf))) = TRACE_LOG_SIZE - 1
        /\ \A i \in 1 .. TRACE_LOG_SIZE - 1 : Tail(Content(buf))[i] = Content(buf)[i + 1]
    BY <1>2, <1>6, <2>1, HeadTailProperties
  <2>3. /\ Tail(Content(new)) \in Seq(Entry) /\ Len(Tail(Content(new))) = TRACE_LOG_SIZE - 1
        /\ \A i \in 1 .. TRACE_LOG_SIZE - 1 : Tail(Content(new))[i] = Content(new)[i + 1]
    BY <1>3, <1>6, <2>1, HeadTailProperties
  <2>4. \A i \in 1 .. TRACE_LOG_SIZE - 1 : Tail(Content(new))[i] = Tail(Content(buf))[i]
    <3> TAKE i \in 1 .. TRACE_LOG_SIZE - 1
    <3>1. i + 1 \in 1 .. buf.count /\ i + 1 > 1
      BY <1>6, TraceLogSize
    <3>2. Content(new)[i + 1] = Content(buf)[i + 1]
      BY <1>1, <1>2, <1>3, <3>1
    <3> QED
      BY <2>2, <2>3, <3>2
  <2>5. Tail(Content(new)) = Tail(Content(buf))
    BY <2>2, <2>3, <2>4, SeqEqual
  <2>6. ~ (buf.count < TRACE_LOG_SIZE) /\ ~ (new.count < TRACE_LOG_SIZE)
    BY <1>1, <1>6, TraceLogSize
  <2> QED
    BY <2>5, <2>6 DEF Kept
<1> QED
  BY <1>4, <1>5, <1>6, TraceLogSize

(* k_log_event appends the event to the ring's content, for every size of the ring; a full
   ring loses its oldest event and no other (kernal.c:284). *)
THEOREM LogAppends ==
  ASSUME NEW Entry, NEW buf \in TraceBuffers(Entry), NEW e \in Entry
  PROVE  /\ k_log_event(buf, e) \in TraceBuffers(Entry)
         /\ Content(k_log_event(buf, e)) = Recent(Content(buf), e)
<1> DEFINE new == WriteEntry(buf, get_trace_tail(buf), e)
<1>1. /\ new \in TraceBuffers(Entry) /\ get_trace_tail(new) = get_trace_tail(buf)
      /\ new.trace_log[get_trace_tail(buf)] = e
  BY WriteKeepsRows DEF get_trace_tail
<1>2. Kept(new) = Kept(buf)
  BY WriteKeeps
<1>3. Len(Content(buf)) = buf.count
  BY ContentSeq
<1>4. k_log_event(buf, e) = Advance(new)
  BY DEF k_log_event
<1> HIDE DEF new
<1>5. /\ Advance(new) \in TraceBuffers(Entry)
      /\ Content(Advance(new)) = Append(Kept(new), new.trace_log[get_trace_tail(new)])
  BY <1>1, AdvanceContent
<1> QED
  BY <1>1, <1>2, <1>3, <1>4, <1>5 DEF Kept, Recent

-----------------------------------------------------------------------------
(* The statements of Preemption. *)

Entries    == {"PROC", "KB", NULL}
Dest(b)    == IF b = "SEND" THEN "KB" ELSE "PROC"
Writing(b) == pc = IF b = "SEND" THEN "send_entry" ELSE "rcv_entry"
Written(b) == pc = IF b = "SEND" THEN "send_advance" ELSE "rcv_advance"

LastOf(events) == IF Len(events) < TRACE_LOG_SIZE THEN events ELSE Tail(events)

(* Before the entry is counted in, the ring no longer holds the oldest event. *)
TraceInv ==
  /\ running \/ pc = "suspended"
  /\ trace \in [Events -> TraceBuffers(Entries)]
  /\ DOMAIN logged = Events
  /\ \A b \in Events :
       /\ Writing(b) \/ Written(b) => tail = get_trace_tail(trace[b])
       /\ Written(b) => trace[b].trace_log[tail] = Dest(b)
       /\ IF Written(b) THEN LastOf(logged[b]) = Kept(trace[b])
                        ELSE logged[b] = Content(trace[b])

(* A statement that does not log. *)
NoLog ==
  /\ UNCHANGED traceVars /\ (running' \/ pc' = "suspended")
  /\ \A b \in Events : ~ Written(b) /\ ~ Written(b)' /\ ~ Writing(b)'

LEMMA InitTrace == Init => TraceInv
<1> SUFFICES ASSUME Init PROVE TraceInv
  OBVIOUS
<1>1. /\ trace = [b \in Events |-> EmptyTrace(NULL)] /\ logged = [b \in Events |-> <<>>]
      /\ pc = "user" /\ running
  BY DEF Init
<1>2. EmptyTrace(NULL) \in TraceBuffers(Entries)
  BY TraceLogSize DEF EmptyTrace, TraceBuffers, Places, Entries
<1>3. Content(EmptyTrace(NULL)) = <<>>
  BY <1>2, ContentSeq, EmptySeq DEF EmptyTrace
<1> QED
  BY <1>1, <1>2, <1>3 DEF TraceInv, Writing, Written

LEMMA NoLogKeepsTrace == TraceInv /\ NoLog => TraceInv'
  BY DEF TraceInv, NoLog, traceVars, Writing, Written

(* The three statements of k_log_event for the ring b, whatever their place in the program. *)
LEMMA TailComputed ==
  ASSUME TraceInv, running', NEW b \in Events, tail' = get_trace_tail(trace[b]), UNCHANGED <<trace, logged>>,
         \A c \in Events : ~ Written(c) /\ ~ Written(c)', \A c \in Events : Writing(c)' => c = b
  PROVE  TraceInv'
  BY DEF TraceInv, Writing, Written

LEMMA EntryWritten ==
  ASSUME TraceInv, running', NEW b \in Events, Writing(b),
         trace' = [trace EXCEPT ![b] = WriteEntry(@, tail, Dest(b))], UNCHANGED <<tail, logged>>,
         \A c \in Events : ~ Written(c) /\ ~ Writing(c)', \A c \in Events : Written(c)' <=> c = b
  PROVE  TraceInv'
<1>1. /\ trace \in [Events -> TraceBuffers(Entries)] /\ tail = get_trace_tail(trace[b])
      /\ DOMAIN logged = Events
      /\ \A c \in Events : logged[c] = Content(trace[c])
  BY DEF TraceInv
<1>2. trace[b] \in TraceBuffers(Entries) /\ Dest(b) \in Entries
  BY <1>1 DEF Dest, Entries
<1> DEFINE new == WriteEntry(trace[b], tail, Dest(b))
<1>3. /\ new \in TraceBuffers(Entries) /\ get_trace_tail(new) = tail
      /\ new.trace_log[tail] = Dest(b)
  BY <1>1, <1>2, WriteKeepsRows DEF get_trace_tail
<1>4. LastOf(logged[b]) = Kept(new)
  <2>1. Len(logged[b]) = trace[b].count
    BY <1>1, <1>2, ContentSeq
  <2>2. Kept(new) = Kept(trace[b])
    BY <1>1, <1>2, WriteKeeps
  <2> QED
    BY <1>1, <2>1, <2>2 DEF LastOf, Kept
<1>5. trace' = [trace EXCEPT ![b] = new]
  OBVIOUS
<1> HIDE DEF new
<1>6. trace' \in [Events -> TraceBuffers(Entries)]
  BY <1>1, <1>3, <1>5
<1>7. ASSUME NEW c \in Events
      PROVE  /\ Writing(c)' \/ Written(c)' => tail' = get_trace_tail(trace'[c])
             /\ Written(c)' => trace'[c].trace_log[tail'] = Dest(c)
             /\ IF Written(c)' THEN LastOf(logged'[c]) = Kept(trace'[c])
                               ELSE logged'[c] = Content(trace'[c])
  BY <1>1, <1>3, <1>4, <1>5
<1> QED
  BY <1>1, <1>6, <1>7 DEF TraceInv, Writing, Written

LEMMA EntryCounted ==
  ASSUME TraceInv, running', NEW b \in Events, Written(b),
         trace' = [trace EXCEPT ![b] = Advance(@)], logged' = [logged EXCEPT ![b] = Recent(@, Dest(b))],
         \A c \in Events : c # b => ~ Written(c), \A c \in Events : ~ Written(c)' /\ ~ Writing(c)'
  PROVE  TraceInv'
<1>1. /\ trace \in [Events -> TraceBuffers(Entries)] /\ tail = get_trace_tail(trace[b])
      /\ trace[b].trace_log[tail] = Dest(b) /\ LastOf(logged[b]) = Kept(trace[b])
      /\ \A c \in Events : c # b => logged[c] = Content(trace[c])
      /\ DOMAIN logged = Events
  BY DEF TraceInv
<1>2. trace[b] \in TraceBuffers(Entries)
  BY <1>1
<1>3. /\ Advance(trace[b]) \in TraceBuffers(Entries)
      /\ Content(Advance(trace[b])) = Append(LastOf(logged[b]), Dest(b))
  BY <1>1, <1>2, AdvanceContent
<1>4. Recent(logged[b], Dest(b)) = Append(LastOf(logged[b]), Dest(b))
  BY DEF Recent, LastOf
<1>5. trace' \in [Events -> TraceBuffers(Entries)]
  BY <1>1, <1>3
<1>6. \A c \in Events : logged'[c] = Content(trace'[c])
  BY <1>1, <1>3, <1>4
<1> QED
  BY <1>1, <1>5, <1>6 DEF TraceInv, Writing, Written

(* The handler logs in both rings at once. *)
LEMMA HandlerKeepsTrace == TraceInv /\ AtRest /\ kbd_i_proc => TraceInv'
<1> SUFFICES ASSUME TraceInv, AtRest, kbd_i_proc PROVE TraceInv'
  OBVIOUS
<1>1. /\ pc' = pc /\ running' = running
      /\ \A b \in Events : ~ Written(b) /\ ~ Written(b)' /\ ~ Writing(b)'
      /\ trace'  = [SEND    |-> k_log_event(trace["SEND"], "PROC"),
                    RECEIVE |-> k_log_event(trace["RECEIVE"], "KB")]
      /\ logged' = [SEND    |-> Recent(logged["SEND"], "PROC"),
                    RECEIVE |-> Recent(logged["RECEIVE"], "KB")]
  BY DEF AtRest, kbd_i_proc, SendsBack, Written, Writing
<1>2. /\ trace["SEND"] \in TraceBuffers(Entries) /\ trace["RECEIVE"] \in TraceBuffers(Entries)
      /\ logged["SEND"] = Content(trace["SEND"]) /\ logged["RECEIVE"] = Content(trace["RECEIVE"])
  BY <1>1 DEF TraceInv, Events
<1>3. "PROC" \in Entries /\ "KB" \in Entries
  BY DEF Entries
<1>4. /\ k_log_event(trace["SEND"], "PROC") \in TraceBuffers(Entries)
      /\ Content(k_log_event(trace["SEND"], "PROC")) = Recent(logged["SEND"], "PROC")
  BY <1>2, <1>3, LogAppends
<1>5. /\ k_log_event(trace["RECEIVE"], "KB") \in TraceBuffers(Entries)
      /\ Content(k_log_event(trace["RECEIVE"], "KB")) = Recent(logged["RECEIVE"], "KB")
  BY <1>2, <1>3, LogAppends
<1>6. trace' \in [Events -> TraceBuffers(Entries)] /\ DOMAIN logged' = Events
  BY <1>1, <1>4, <1>5 DEF Events
<1>7. \A b \in Events : logged'[b] = Content(trace'[b])
  BY <1>1, <1>4, <1>5 DEF Events
<1> QED
  BY <1>1, <1>6, <1>7 DEF TraceInv, Writing, Written

LEMMA StatementKeepsTrace == TraceInv /\ Statement => TraceInv'
<1> SUFFICES ASSUME TraceInv, Statement PROVE TraceInv'
  OBVIOUS
<1> USE DEF At, Goto
<1>1. ASSUME NEW e \in Envelopes, GetConsoleChars(e) PROVE TraceInv'
  BY <1>1, NoLogKeepsTrace DEF GetConsoleChars, Unmoved, NoLog, Writing, Written, Events
<1>2. CASE EnqueueTest \/ EnqueueFirst \/ EnqueueLink \/ EnqueueTail \/ EnqueueEnd
  <2>1. NoLog
    BY <1>2 DEF EnqueueTest, EnqueueFirst, EnqueueLink, EnqueueTail, EnqueueEnd, Unmoved, NoLog,
                Writing, Written, Events
  <2> QED
    BY <2>1, NoLogKeepsTrace
<1>3. CASE Receive \/ ReceiveTest \/ SwitchDequeue \/ SwitchBlock \/ SwitchGo
  <2>1. NoLog
    BY <1>3 DEF Receive, ReceiveTest, SwitchDequeue, SwitchBlock, SwitchGo, Unmoved, NoLog,
                Writing, Written, Events
  <2> QED
    BY <2>1, NoLogKeepsTrace
<1>4. CASE NullReleases
  <2>1. NoLog
    BY <1>4 DEF NullReleases, TraceInv, NoLog, Writing, Written, Events
  <2> QED
    BY <2>1, NoLogKeepsTrace
<1>5. CASE DequeueHead \/ DequeueLast \/ DequeueClearHead \/ DequeueClearTail
           \/ DequeueTest \/ DequeueAdvance \/ DequeueUnlink
  <2>1. NoLog
    BY <1>5 DEF DequeueHead, DequeueLast, DequeueClearHead, DequeueClearTail, DequeueTest,
                DequeueAdvance, DequeueUnlink, Unmoved, NoLog, Writing, Written, Events
  <2> QED
    BY <2>1, NoLogKeepsTrace
<1>6. CASE LogSend
  <2>1. CASE LogTail("SEND", "send_tail", "send_entry")
    BY <2>1, TailComputed DEF LogTail, Writing, Written, Events
  <2>2. CASE LogEntry("SEND", "send_entry", "send_advance", "KB")
    BY <2>2, EntryWritten DEF LogEntry, Writing, Written, Events, Dest
  <2>3. CASE LogAdvance("SEND", "send_advance", "KB")
    BY <2>3, EntryCounted DEF LogAdvance, Writing, Written, Events, Dest
  <2> QED
    BY <1>6, <2>1, <2>2, <2>3 DEF LogSend
<1>7. CASE LogReceive
  <2>1. CASE LogTail("RECEIVE", "rcv_tail", "rcv_entry")
    BY <2>1, TailComputed DEF LogTail, Writing, Written, Events
  <2>2. CASE LogEntry("RECEIVE", "rcv_entry", "rcv_advance", "PROC")
    BY <2>2, EntryWritten DEF LogEntry, Writing, Written, Events, Dest
  <2>3. CASE LogAdvance("RECEIVE", "rcv_advance", "PROC")
    BY <2>3, EntryCounted DEF LogAdvance, Writing, Written, Events, Dest
  <2> QED
    BY <1>7, <2>1, <2>2, <2>3 DEF LogReceive
<1> QED
  BY <1>1, <1>2, <1>3, <1>4, <1>5, <1>6, <1>7 DEF Statement

(* Between two primitives the table shows the last events in order, for every size of the
   ring and every number of envelopes (kernal.c:301). *)
THEOREM TraceShowsLastEvents == SpecUninterrupted => []TraceIsRecent
<1>1. TraceInv => TraceIsRecent
  <2> SUFFICES ASSUME TraceInv, AtRest, NEW b \in Events, logged[b] # <<>>
               PROVE  k_get_trace_buffer(trace[b]) = logged[b]
    BY DEF TraceIsRecent
  <2>1. trace[b] \in TraceBuffers(Entries) /\ logged[b] = Content(trace[b])
    BY DEF TraceInv, AtRest, Written
  <2>2. trace[b].count # 0
    BY <2>1, ContentSeq, EmptySeq
  <2> QED
    BY <2>1, <2>2, RowsAreContent
<1>2. TraceInv /\ UNCHANGED vars => TraceInv'
  BY DEF TraceInv, vars, traceVars, Writing, Written
<1> QED
  BY <1>1, <1>2, InitTrace, StatementKeepsTrace, HandlerKeepsTrace, PTL DEF SpecUninterrupted

-----------------------------------------------------------------------------
(* Linked lists. *)

Pointer == Envelopes \cup {NULL}

Lists == [head : [Queues -> Pointer], tail : [Queues -> Pointer], next : [Envelopes -> Pointer]]

(* The first element of a sequence is the first occurrence of it. *)
LEMMA FirstRemoved ==
  ASSUME NEW S, NEW s \in Seq(S), s # <<>>
  PROVE  RemoveFirst(s, s[1]) = Tail(s)
<1>1. 1 \in 1 .. Len(s) /\ Len(s) \in Nat
  BY EmptySeq
<1> DEFINE I == {i \in 1 .. Len(s) : s[i] = s[1]}
<1>2. 1 \in I /\ \A y \in I : 1 <= y
  BY <1>1
<1>3. \A x \in I : (\A y \in I : x <= y) => x = 1
  BY <1>1, <1>2
<1>4. Min(I) = 1
  BY <1>2, <1>3 DEF Min
<1>5. RemoveFirst(s, s[1]) = RemoveAt(s, Min(I))
  BY <1>1, <1>2 DEF RemoveFirst, SelectInSeq
<1>6. RemoveFirst(s, s[1]) = SubSeq(s, 1, 0) \o SubSeq(s, 2, Len(s))
  <2>1. RemoveFirst(s, s[1]) = RemoveAt(s, 1)
    BY <1>4, <1>5
  <2>2. 1 - 1 = 0 /\ 1 + 1 = 2
    OBVIOUS
  <2> QED
    BY <2>1, <2>2 DEF RemoveAt
<1> QED
  BY <1>1, <1>6

LEMMA OneElement ==
  ASSUME NEW S, NEW s \in Seq(S), Len(s) = 1
  PROVE  Tail(s) = <<>>
<1>1. s # <<>>
  BY EmptySeq
<1>2. Tail(s) \in Seq(S) /\ Len(Tail(s)) = 0
  BY <1>1, HeadTailProperties
<1> QED
  BY <1>2, EmptySeq

(* A list does not depend on the links of other envelopes, nor on that of its last one. *)
LEMMA LinkedFrame ==
  ASSUME NEW L \in Lists, NEW M \in Lists, NEW q \in Queues, NEW s \in Seq(Envelopes),
         Linked(L, q, s), M.head[q] = L.head[q], M.tail[q] = L.tail[q],
         \A i \in 1 .. Len(s) - 1 : M.next[s[i]] = L.next[s[i]]
  PROVE  Linked(M, q, s)
  BY DEF Linked

(* Which envelopes the head and the tail are. *)
LEMMA LinkedEnds ==
  ASSUME NEW L \in Lists, NEW q \in Queues, NEW s \in Seq(Envelopes), Linked(L, q, s)
  PROVE  /\ L.head[q] = NULL <=> s = <<>>
         /\ L.tail[q] = NULL <=> s = <<>>
         /\ s # <<>> => /\ L.head[q] = s[1] /\ L.tail[q] = Last(s)
                        /\ s[1] \in Range(s) /\ Last(s) \in Range(s)
                        /\ s[1] \in Envelopes /\ Last(s) \in Envelopes
                        /\ IsInjective(s) => (L.head[q] = L.tail[q] <=> Len(s) = 1)
<1>1. CASE s = <<>>
  BY <1>1 DEF Linked
<1>2. CASE s # <<>>
  <2>1. /\ 1 \in 1 .. Len(s) /\ Len(s) \in 1 .. Len(s) /\ DOMAIN s = 1 .. Len(s)
        /\ \A i \in 1 .. Len(s) : s[i] \in Envelopes
    BY <1>2, EmptySeq
  <2>2. L.head[q] = s[1] /\ L.tail[q] = s[Len(s)]
    BY <1>2 DEF Linked, Last
  <2>3. IsInjective(s) => (s[1] = s[Len(s)] <=> Len(s) = 1)
    BY <2>1 DEF IsInjective
  <2> QED
    BY <1>2, <2>1, <2>2, <2>3, EnvelopeTable DEF Range, Last
<1> QED
  BY <1>1, <1>2

(* The head steps on to the next envelope. *)
LEMMA LinkedAdvance ==
  ASSUME NEW L \in Lists, NEW M \in Lists, NEW q \in Queues, NEW s \in Seq(Envelopes),
         Linked(L, q, s), s # <<>>, Len(s) # 1,
         M.head[q] = L.next[L.head[q]], M.tail[q] = L.tail[q],
         \A i \in 2 .. Len(s) - 1 : M.next[s[i]] = L.next[s[i]]
  PROVE  Linked(M, q, Tail(s))
<1>1. Len(s) \in Nat /\ Len(s) >= 2
  <2> DEFINE n == Len(s)
  <2>1. n \in Nat /\ n # 0 /\ n # 1
    BY EmptySeq
  <2> HIDE DEF n
  <2>2. n \in Nat /\ n >= 2
    BY <2>1
  <2> QED
    BY <2>2 DEF n
<1>2. /\ Tail(s) \in Seq(Envelopes) /\ Len(Tail(s)) = Len(s) - 1
      /\ \A i \in 1 .. Len(s) - 1 : Tail(s)[i] = s[i + 1]
  OBVIOUS
<1>3. Tail(s) # <<>>
  <2>1. Len(Tail(s)) # 0
    BY <1>1, <1>2
  <2> QED
    BY <2>1, EmptySeq
<1>4. /\ L.head[q] = s[1] /\ L.tail[q] = s[Len(s)]
      /\ \A i \in 1 .. Len(s) - 1 : L.next[s[i]] = s[i + 1]
  BY DEF Linked, Last
<1>5. M.head[q] = Tail(s)[1] /\ M.tail[q] = Last(Tail(s))
  BY <1>1, <1>2, <1>4 DEF Last
<1>6. \A i \in 1 .. Len(Tail(s)) - 1 : M.next[Tail(s)[i]] = Tail(s)[i + 1]
  <2> TAKE i \in 1 .. Len(Tail(s)) - 1
  <2>1. i + 1 \in 2 .. Len(s) - 1 /\ i \in 1 .. Len(s) - 1 /\ i + 1 \in 1 .. Len(s) - 1
    BY <1>1, <1>2
  <2>2. M.next[s[i + 1]] = s[(i + 1) + 1]
    BY <1>4, <2>1
  <2> QED
    BY <1>2, <2>1, <2>2
<1> QED
  BY <1>3, <1>5, <1>6 DEF Linked

(* An envelope is linked behind the last one. *)
LEMMA LinkedAppend ==
  ASSUME NEW L \in Lists, NEW M \in Lists, NEW q \in Queues, NEW s \in Seq(Envelopes),
         NEW e \in Envelopes, Linked(L, q, s), M.tail[q] = e,
         IF s = <<>> THEN M.head[q] = e
         ELSE /\ M.head[q] = L.head[q] /\ M.next[Last(s)] = e
              /\ \A i \in 1 .. Len(s) - 1 : M.next[s[i]] = L.next[s[i]]
  PROVE  Linked(M, q, Append(s, e))
<1> DEFINE t == Append(s, e)
<1>1. /\ t \in Seq(Envelopes) /\ t # <<>> /\ Len(t) = Len(s) + 1 /\ t[Len(t)] = e
      /\ Len(s) \in Nat /\ \A i \in 1 .. Len(s) : t[i] = s[i]
  BY Enqueued, AppendProperties
<1>2. CASE s = <<>>
  <2>1. Len(s) = 0
    BY <1>2
  <2> HIDE DEF t
  <2> QED
    BY <1>1, <1>2, <2>1 DEF Linked, Last, t
<1>3. CASE s # <<>>
  <2>1. Len(s) # 0 /\ 1 \in 1 .. Len(s)
    BY <1>1, <1>3, EmptySeq
  <2>2. M.head[q] = t[1] /\ M.tail[q] = Last(t)
    BY <1>1, <1>3, <2>1 DEF Linked, Last
  <2>3. \A i \in 1 .. Len(t) - 1 : M.next[t[i]] = t[i + 1]
    <3> HIDE DEF t
    <3> TAKE i \in 1 .. Len(t) - 1
    <3>1. CASE i = Len(s)
      BY <1>1, <1>3, <2>1, <3>1 DEF Last
    <3>2. CASE i # Len(s)
      <4>1. i \in 1 .. Len(s) - 1 /\ i + 1 \in 1 .. Len(s) /\ i \in 1 .. Len(s)
        BY <1>1, <3>2
      <4>2. M.next[s[i]] = s[i + 1]
        BY <1>3, <4>1 DEF Linked
      <4> QED
        BY <1>1, <4>1, <4>2
    <3> QED
      BY <3>1, <3>2
  <2> HIDE DEF t
  <2> QED
    BY <1>1, <2>2, <2>3 DEF Linked, t
<1> QED
  BY <1>2, <1>3

-----------------------------------------------------------------------------
(* The statements of Preemption that use the lists. *)

(* While the process puts env on the queue of KB, ... *)
Sending == pc \in {"enq_test", "enq_first", "enq_link", "enq_tail", "enq_end"}

KbLinked ==
  LET q == fifo["KB"]
  IN  /\ pc \notin {"enq_tail", "enq_end"} => Linked(lists, "KB", q)
      /\ pc = "enq_first" => q = <<>>
      /\ pc = "enq_link"  => q # <<>>
      /\ pc = "enq_tail"  => IF q = <<>> THEN lists.head["KB"] = env
                             ELSE Linked(lists, "KB", q) /\ lists.next[Last(q)] = env
      /\ pc = "enq_end"   => Linked(lists, "KB", Append(q, env))

(* ... and while it takes env from its own. *)
Taking == pc \in {"deq_last", "deq_clear_head", "deq_clear_tail", "deq_test", "deq_advance"}
Taken  == pc \in {"deq_unlink", "rcv_tail", "rcv_entry", "rcv_advance"}

ProcLinked ==
  LET q == fifo["PROC"]
  IN  /\ pc \notin {"deq_clear_tail", "deq_test"} =>
           Linked(lists, "PROC", IF Taken THEN Tail(q) ELSE q)
      /\ pc = "deq_clear_head" => Len(q) = 1
      /\ pc = "deq_clear_tail" => Len(q) = 1 /\ lists.head["PROC"] = NULL
      /\ pc = "deq_test"       => Linked(lists, "PROC", IF Len(q) = 1 THEN <<>> ELSE q)
      /\ pc = "deq_advance"    => Len(q) # 1

InList == Range(fifo["PROC"]) \cup Range(fifo["KB"])

(* No envelope is in two places. *)
OnePlace ==
  /\ \A q \in Queues : IsInjective(fifo[q])
  /\ Range(fifo["PROC"]) \cap Range(fifo["KB"]) = {}
  /\ Sending => env \in Envelopes \ InList
  /\ hand = Envelopes \ IF Sending THEN InList \cup {env} ELSE InList
  /\ Taking \/ Taken \/ pc = "deq_head" => fifo["PROC"] # <<>>
  /\ Taking \/ Taken => env = fifo["PROC"][1]

MailTypes ==
  /\ lists \in Lists
  /\ fifo \in [Queues -> Seq(Envelopes)]
  /\ env \in Pointer
  /\ running \/ pc = "suspended"

(* A process that blocks has found its queue empty, and nothing has come since. *)
Blocking == pc \in {"switch_dequeue", "switch_block", "switch_go"}
BlockedEmpty ==
  /\ Blocking => fifo["PROC"] = <<>>
  /\ state = "BLOCKED_ON_RCV" => pc \in {"switch_go", "suspended"} /\ fifo["PROC"] = <<>>

MailInv == MailTypes /\ OnePlace /\ KbLinked /\ ProcLinked /\ BlockedEmpty

LEMMA InitMail == Init => MailInv
<1> SUFFICES ASSUME Init PROVE MailInv
  OBVIOUS
<1>1. /\ lists \in Lists
      /\ \A q \in Queues : Linked(lists, q, <<>>) /\ fifo[q] = <<>>
      /\ fifo \in [Queues -> Seq(Envelopes)]
      /\ env \in Pointer
  <2>1. <<>> \in Seq(Envelopes)
    BY EmptyQueue
  <2> QED
    BY <2>1 DEF Init, Lists, Pointer, Linked
<1>2. /\ InList = {} /\ Range(fifo["PROC"]) \cap Range(fifo["KB"]) = {}
      /\ \A q \in Queues : IsInjective(fifo[q])
  BY <1>1, EmptyQueue DEF InList, Queues
<1>3. hand = Envelopes /\ pc = "user" /\ running /\ state = "EXECUTING"
  BY DEF Init
<1>4. MailTypes /\ OnePlace
  BY <1>1, <1>2, <1>3 DEF MailTypes, OnePlace, Sending, Taking, Taken
<1>5. KbLinked /\ ProcLinked /\ BlockedEmpty
  BY <1>1, <1>3 DEF KbLinked, ProcLinked, BlockedEmpty, Blocking, Taken, Queues
<1> QED
  BY <1>4, <1>5 DEF MailInv

(* What the invariant says of the ends of the two queues. *)
LEMMA Ends ==
  ASSUME MailTypes, OnePlace, NEW q \in Queues, NEW s \in Seq(Envelopes), Linked(lists, q, s)
  PROVE  /\ lists.head[q] = NULL <=> s = <<>>
         /\ s # <<>> => /\ lists.head[q] = s[1] /\ lists.tail[q] = Last(s)
                        /\ lists.tail[q] # NULL
                        /\ {s[1], Last(s)} \subseteq Range(s) /\ {s[1], Last(s)} \subseteq Envelopes
                        /\ IsInjective(s) => (lists.head[q] = lists.tail[q] <=> Len(s) = 1)
  BY LinkedEnds DEF MailTypes

(* Tests and jumps: nothing of the lists changes. *)
Test ==
  \/ EnqueueTest \/ Receive \/ ReceiveTest \/ SwitchDequeue \/ SwitchBlock \/ SwitchGo
  \/ NullReleases \/ DequeueLast \/ DequeueTest

LEMMA TestStep ==
  ASSUME MailInv, Test PROVE MailInv'
<1>1. /\ MailTypes /\ OnePlace /\ KbLinked /\ ProcLinked /\ BlockedEmpty
      /\ UNCHANGED mailVars
      /\ fifo["KB"] \in Seq(Envelopes) /\ fifo["PROC"] \in Seq(Envelopes) /\ "KB" \in Queues /\ "PROC" \in Queues
  BY DEF MailInv, Test, MailTypes, Queues, EnqueueTest, Receive, ReceiveTest, SwitchDequeue, SwitchBlock, SwitchGo,
         NullReleases, DequeueLast, DequeueTest, mailVars
<1>2. UNCHANGED <<lists, env, hand, fifo>> /\ UNCHANGED InList
  BY <1>1 DEF mailVars, InList
<1> USE DEF At, Goto
<1>3. CASE EnqueueTest
  <2>1. lists.head["KB"] = NULL <=> fifo["KB"] = <<>>
    BY <1>1, <1>3, Ends DEF EnqueueTest, KbLinked
  <2>2. MailTypes' /\ OnePlace'
    BY <1>1, <1>2, <1>3 DEF EnqueueTest, MailTypes, OnePlace, Sending, Taking, Taken, Unmoved
  <2>3. KbLinked' /\ ProcLinked' /\ BlockedEmpty'
    BY <1>1, <1>2, <1>3, <2>1 DEF EnqueueTest, KbLinked, ProcLinked, BlockedEmpty, Blocking, Taken, Unmoved
  <2> QED
    BY <2>2, <2>3 DEF MailInv
<1>4. CASE ReceiveTest
  <2>1. lists.head["PROC"] = NULL <=> fifo["PROC"] = <<>>
    BY <1>1, <1>4, Ends DEF ReceiveTest, ProcLinked, Taken
  <2>2. MailTypes' /\ OnePlace'
    BY <1>1, <1>2, <1>4, <2>1 DEF ReceiveTest, MailTypes, OnePlace, Sending, Taking, Taken, Unmoved
  <2>3. KbLinked' /\ ProcLinked' /\ BlockedEmpty'
    BY <1>1, <1>2, <1>4, <2>1 DEF ReceiveTest, KbLinked, ProcLinked, BlockedEmpty, Blocking, Taken, Unmoved
  <2> QED
    BY <2>2, <2>3 DEF MailInv
<1>5. CASE DequeueLast
  <2>1. fifo["PROC"] # <<>> /\ IsInjective(fifo["PROC"]) /\ Linked(lists, "PROC", fifo["PROC"])
    BY <1>1, <1>5 DEF DequeueLast, OnePlace, ProcLinked, Taking, Taken
  <2>2. lists.head["PROC"] = lists.tail["PROC"] <=> Len(fifo["PROC"]) = 1
    BY <1>1, <2>1, Ends
  <2>3. MailTypes' /\ OnePlace'
    BY <1>1, <1>2, <1>5 DEF DequeueLast, MailTypes, OnePlace, Sending, Taking, Taken, Unmoved
  <2>4. KbLinked' /\ ProcLinked' /\ BlockedEmpty'
    BY <1>1, <1>2, <1>5, <2>1, <2>2 DEF DequeueLast, KbLinked, ProcLinked, BlockedEmpty, Blocking, Taken, Unmoved
  <2> QED
    BY <2>3, <2>4 DEF MailInv
<1>6. CASE DequeueTest
  <2>1. fifo["PROC"] # <<>> /\ Linked(lists, "PROC", IF Len(fifo["PROC"]) = 1 THEN <<>> ELSE fifo["PROC"])
    BY <1>1, <1>6 DEF DequeueTest, OnePlace, ProcLinked, Taking
  <2>2. lists.head["PROC"] = NULL <=> Len(fifo["PROC"]) = 1
    <3>1. <<>> \in Seq(Envelopes)
      BY EmptyQueue
    <3>2. CASE Len(fifo["PROC"]) = 1
      BY <1>1, <2>1, <3>1, <3>2, Ends
    <3>3. CASE Len(fifo["PROC"]) # 1
      BY <1>1, <2>1, <3>3, Ends
    <3> QED
      BY <3>2, <3>3
  <2>3. Len(fifo["PROC"]) = 1 => Tail(fifo["PROC"]) = <<>>
    BY <1>1, OneElement
  <2>4. MailTypes' /\ OnePlace'
    BY <1>1, <1>2, <1>6 DEF DequeueTest, MailTypes, OnePlace, Sending, Taking, Taken, Unmoved
  <2>5. KbLinked' /\ ProcLinked' /\ BlockedEmpty'
    BY <1>1, <1>2, <1>6, <2>1, <2>2, <2>3 DEF DequeueTest, KbLinked, ProcLinked, BlockedEmpty, Blocking, Taken, Unmoved
  <2> QED
    BY <2>4, <2>5 DEF MailInv
<1>7. CASE Receive \/ SwitchDequeue \/ SwitchBlock \/ SwitchGo \/ NullReleases
  <2> USE DEF Receive, SwitchDequeue, SwitchBlock, SwitchGo, NullReleases, Unmoved
  <2>1. MailTypes' /\ OnePlace'
    BY <1>1, <1>2, <1>7 DEF MailTypes, OnePlace, Sending, Taking, Taken
  <2>2. KbLinked' /\ ProcLinked' /\ BlockedEmpty'
    BY <1>1, <1>2, <1>7 DEF KbLinked, ProcLinked, BlockedEmpty, Blocking, Taken, MailTypes
  <2> QED
    BY <2>1, <2>2 DEF MailInv
<1> QED
  BY <1>3, <1>4, <1>5, <1>6, <1>7 DEF Test

(* A list stays as it is when only links of envelopes outside it change. *)
SameEnds(q) == lists'.head[q] = lists.head[q] /\ lists'.tail[q] = lists.tail[q]
SameLinks(S) == \A e \in S : lists'.next[e] = lists.next[e]

LEMMA ListStays ==
  ASSUME MailTypes, lists' \in Lists, NEW q \in Queues, NEW s \in Seq(Envelopes),
         Linked(lists, q, s), SameEnds(q), SameLinks(Range(s))
  PROVE  Linked(lists, q, s)'
<1>1. \A i \in 1 .. Len(s) - 1 : s[i] \in Range(s)
  BY LenProperties DEF Range
<1> QED
  BY <1>1, LinkedFrame DEF MailTypes, SameEnds, SameLinks

LEMMA KbStays ==
  ASSUME MailTypes, KbLinked, lists' \in Lists, fifo'["KB"] = fifo["KB"],
         SameEnds("KB"), SameLinks(Range(fifo["KB"])), ~ Sending, ~ Sending'
  PROVE  KbLinked'
<1>1. fifo["KB"] \in Seq(Envelopes) /\ "KB" \in Queues /\ Linked(lists, "KB", fifo["KB"])
  BY DEF MailTypes, KbLinked, Sending, Queues
<1>2. Linked(lists, "KB", fifo["KB"])'
  BY <1>1, ListStays
<1> QED
  BY <1>2 DEF KbLinked, Sending

LEMMA ProcStays ==
  ASSUME MailTypes, ProcLinked, lists' \in Lists, fifo'["PROC"] = fifo["PROC"],
         SameEnds("PROC"), SameLinks(Range(fifo["PROC"])), ~ Taking, ~ Taken, ~ Taking', ~ Taken'
  PROVE  ProcLinked'
<1>1. fifo["PROC"] \in Seq(Envelopes) /\ "PROC" \in Queues /\ Linked(lists, "PROC", fifo["PROC"])
  BY DEF MailTypes, ProcLinked, Taking, Taken, Queues
<1>2. Linked(lists, "PROC", fifo["PROC"])'
  BY <1>1, ListStays
<1> QED
  BY <1>2 DEF ProcLinked, Taking, Taken

LEMMA MailFacts ==
  ASSUME MailInv
  PROVE  /\ MailTypes /\ OnePlace /\ KbLinked /\ ProcLinked /\ BlockedEmpty
         /\ "KB" \in Queues /\ "PROC" \in Queues
         /\ lists \in Lists
         /\ fifo["KB"] \in Seq(Envelopes) /\ fifo["PROC"] \in Seq(Envelopes)
         /\ Range(fifo["KB"]) \subseteq Envelopes /\ Range(fifo["PROC"]) \subseteq Envelopes
<1>1. /\ MailTypes /\ OnePlace /\ KbLinked /\ ProcLinked /\ BlockedEmpty
      /\ "KB" \in Queues /\ "PROC" \in Queues
      /\ lists \in Lists
      /\ fifo["KB"] \in Seq(Envelopes) /\ fifo["PROC"] \in Seq(Envelopes)
  BY DEF MailInv, MailTypes, Queues
<1>2. \A q \in Seq(Envelopes) : Range(q) \subseteq Envelopes
  BY DEF Range
<1> QED
  BY <1>1, <1>2

(* The statements of MsgEnvQ_enqueue. *)
LEMMA SendStep ==
  ASSUME MailInv, NEW e \in Envelopes, GetConsoleChars(e) PROVE MailInv'
<1>1. /\ MailTypes /\ OnePlace /\ KbLinked /\ ProcLinked /\ BlockedEmpty
      /\ pc = "user" /\ pc' = "enq_test" /\ running /\ running' = running /\ state' = state
      /\ e \in hand /\ env' = e /\ hand' = hand \ {e} /\ lists' = lists /\ fifo' = fifo
  BY MailFacts DEF GetConsoleChars, At, Goto, Unmoved
<1>2. MailTypes'
  BY <1>1 DEF MailTypes, Pointer
<1>3. OnePlace'
  BY <1>1 DEF OnePlace, InList, Sending, Taking, Taken
<1>4. KbLinked' /\ ProcLinked' /\ BlockedEmpty'
  BY <1>1 DEF KbLinked, ProcLinked, Taken, BlockedEmpty, Blocking
<1> QED
  BY <1>2, <1>3, <1>4 DEF MailInv

LEMMA EnqueueStep ==
  ASSUME MailInv, EnqueueFirst \/ EnqueueLink \/ EnqueueTail PROVE MailInv'
<1> DEFINE q == fifo["KB"]
<1>1. /\ MailTypes /\ OnePlace /\ KbLinked /\ ProcLinked /\ BlockedEmpty
      /\ "KB" \in Queues /\ "PROC" \in Queues /\ lists \in Lists
      /\ q \in Seq(Envelopes) /\ fifo["PROC"] \in Seq(Envelopes)
      /\ pc \in {"enq_first", "enq_link", "enq_tail"}
      /\ fifo' = fifo /\ env' = env /\ hand' = hand /\ running' = running /\ state' = state
      /\ running
  BY MailFacts DEF EnqueueFirst, EnqueueLink, EnqueueTail, At, Unmoved
<1>2. /\ env \in Envelopes /\ env \notin Range(q) /\ env \notin Range(fifo["PROC"])
      /\ Range(q) \cap Range(fifo["PROC"]) = {} /\ IsInjective(q)
  BY <1>1 DEF OnePlace, InList, Sending
<1>3. /\ q # <<>> /\ Linked(lists, "KB", q) =>
           Last(q) \in Envelopes /\ Last(q) \in Range(q) /\ lists.tail["KB"] = Last(q) /\ Last(q) # NULL
      /\ q = <<>> /\ Linked(lists, "KB", q) => lists.tail["KB"] = NULL
  BY <1>1, Ends, EnvelopeTable DEF Linked
<1>4. /\ lists' \in Lists /\ SameEnds("PROC") /\ SameLinks(Range(fifo["PROC"]))
      /\ pc' \in {"enq_tail", "enq_end"} /\ KbLinked'
  <2>1. CASE EnqueueFirst
    <3>1. /\ pc = "enq_first" /\ pc' = "enq_tail" /\ lists' = [lists EXCEPT !.head["KB"] = env]
          /\ q = <<>> /\ Linked(lists, "KB", q)
      BY <1>1, <2>1 DEF EnqueueFirst, At, Goto, KbLinked
    <3>2. lists' \in Lists /\ SameEnds("PROC") /\ lists'.next = lists.next /\ lists'.head["KB"] = env
      BY <1>1, <1>2, <3>1 DEF Lists, SameEnds, Queues, Pointer
    <3> QED
      BY <1>1, <3>1, <3>2 DEF SameLinks, KbLinked
  <2>2. CASE EnqueueLink
    <3>1. pc = "enq_link" /\ q # <<>> /\ Linked(lists, "KB", q)
      BY <1>1, <2>2 DEF EnqueueLink, At, KbLinked
    <3>2. pc' = "enq_tail" /\ lists' = [lists EXCEPT !.next[Last(q)] = env]
      BY <1>3, <2>2, <3>1 DEF EnqueueLink, Goto
    <3>3. /\ lists' \in Lists /\ SameEnds("PROC") /\ SameEnds("KB")
          /\ \A e \in Envelopes : lists'.next[e] = IF e = Last(q) THEN env ELSE lists.next[e]
      BY <1>1, <1>2, <1>3, <3>1, <3>2 DEF Lists, SameEnds, Queues, Pointer
    <3>4. SameLinks(Range(fifo["PROC"]))
      BY <1>2, <1>3, <3>1, <3>3, MailFacts DEF SameLinks
    <3>5. Linked(lists, "KB", q)'
      <4>1. \A i \in 1 .. Len(q) - 1 : q[i] \in Envelopes /\ q[i] # Last(q)
        BY <1>1, <1>2 DEF IsInjective, Last
      <4>2. \A i \in 1 .. Len(q) - 1 : lists'.next[q[i]] = lists.next[q[i]]
        BY <3>3, <4>1
      <4> QED
        BY <1>1, <3>1, <3>3, <4>2, LinkedFrame DEF SameEnds
    <3>6. lists'.next[Last(q)] = env
      BY <1>3, <3>1, <3>3
    <3> QED
      BY <1>1, <3>1, <3>2, <3>3, <3>4, <3>5, <3>6 DEF KbLinked
  <2>3. CASE EnqueueTail
    <3>1. /\ pc = "enq_tail" /\ pc' = "enq_end" /\ lists' = [lists EXCEPT !.tail["KB"] = env]
          /\ IF q = <<>> THEN lists.head["KB"] = env
             ELSE Linked(lists, "KB", q) /\ lists.next[Last(q)] = env
      BY <1>1, <2>3 DEF EnqueueTail, At, Goto, KbLinked
    <3>2. /\ lists' \in Lists /\ SameEnds("PROC") /\ lists'.next = lists.next
          /\ lists'.head = lists.head /\ lists'.tail["KB"] = env
      BY <1>1, <1>2, <3>1 DEF Lists, SameEnds, Queues, Pointer
    <3>3. Linked(lists, "KB", Append(q, env))'
      <4>1. CASE q = <<>>
        <5>1. Append(q, env) = <<env>> /\ <<env>> # <<>> /\ Len(<<env>>) = 1 /\ <<env>>[1] = env
          BY <4>1
        <5>2. \A i \in 1 .. Len(<<env>>) - 1 : FALSE
          BY <5>1
        <5> QED
          BY <1>1, <3>1, <3>2, <4>1, <5>1, <5>2 DEF Linked, Last
      <4>2. CASE q # <<>>
        BY <1>1, <1>2, <3>1, <3>2, <4>2, LinkedAppend
      <4> QED
        BY <4>1, <4>2
    <3> QED
      BY <1>1, <3>1, <3>2, <3>3 DEF SameLinks, KbLinked
  <2> QED
    BY <2>1, <2>2, <2>3
<1>5. MailTypes' /\ OnePlace' /\ BlockedEmpty'
  BY <1>1, <1>4 DEF MailTypes, OnePlace, InList, Sending, Taking, Taken, BlockedEmpty, Blocking
<1>6. ProcLinked'
  BY <1>1, <1>4, ProcStays DEF Taking, Taken
<1> QED
  BY <1>4, <1>5, <1>6 DEF MailInv

LEMMA EnqueueEndStep ==
  ASSUME MailInv, EnqueueEnd PROVE MailInv'
<1> DEFINE q == fifo["KB"]
           t == Append(q, env)
<1>1. /\ MailTypes /\ OnePlace /\ KbLinked /\ ProcLinked /\ BlockedEmpty
      /\ "KB" \in Queues /\ "PROC" \in Queues /\ lists \in Lists
      /\ q \in Seq(Envelopes) /\ fifo["PROC"] \in Seq(Envelopes)
      /\ pc = "enq_end" /\ running /\ hand' = hand /\ running' = running /\ state' = state
      /\ Linked(lists, "KB", t)
  BY MailFacts DEF EnqueueEnd, At, Unmoved, KbLinked
<1>2. /\ env \in Envelopes /\ env \notin Range(q) /\ env \notin Range(fifo["PROC"])
      /\ Range(q) \cap Range(fifo["PROC"]) = {} /\ IsInjective(q) /\ IsInjective(fifo["PROC"])
      /\ hand = Envelopes \ (InList \cup {env})
  BY <1>1 DEF OnePlace, InList, Sending
<1>3. /\ t \in Seq(Envelopes) /\ t # <<>> /\ IsInjective(t) /\ Range(t) = Range(q) \cup {env}
      /\ Last(t) = env /\ \A i \in 1 .. Len(t) - 1 : t[i] \in Envelopes /\ t[i] # env
  <2>1. t \in Seq(Envelopes) /\ t # <<>> /\ IsInjective(t) /\ Range(t) = Range(q) \cup {env}
    BY <1>1, <1>2, Enqueued
  <2>2. Last(t) = env
    BY <1>1, <1>2, AppendProperties DEF Last
  <2> HIDE DEF t, q
  <2>3. \A i \in 1 .. Len(t) - 1 : t[i] \in Envelopes /\ t[i] # t[Len(t)]
    BY <2>1 DEF IsInjective
  <2> QED
    BY <2>1, <2>2, <2>3 DEF Last
<1>4. lists.tail["KB"] = env /\ env # NULL
  BY <1>1, <1>2, <1>3, Ends, EnvelopeTable
<1>5. /\ pc' = "send_tail" /\ lists' = [lists EXCEPT !.next[env] = NULL] /\ env' = NULL
      /\ fifo' = [fifo EXCEPT !["KB"] = t]
  BY <1>4 DEF EnqueueEnd, Goto
<1> HIDE DEF t
<1>6. /\ lists' \in Lists /\ SameEnds("PROC") /\ SameEnds("KB")
      /\ \A e \in Envelopes : e # env => lists'.next[e] = lists.next[e]
  BY <1>1, <1>2, <1>5 DEF Lists, SameEnds, Queues, Pointer
<1>7. fifo'["KB"] = t /\ fifo'["PROC"] = fifo["PROC"] /\ fifo' \in [Queues -> Seq(Envelopes)]
  BY <1>1, <1>3, <1>5 DEF MailTypes, Queues
<1>8. Linked(lists', "KB", t)
  BY <1>1, <1>3, <1>6, LinkedFrame DEF SameEnds
<1>9. MailTypes' /\ BlockedEmpty'
  BY <1>1, <1>5, <1>6, <1>7 DEF MailTypes, Pointer, BlockedEmpty, Blocking
<1>10. OnePlace'
  <2>1. InList' = InList \cup {env}
    BY <1>3, <1>7 DEF InList
  <2>2. \A x \in Queues : IsInjective(fifo'[x])
    BY <1>2, <1>3, <1>7 DEF Queues
  <2> QED
    BY <1>1, <1>2, <1>3, <1>5, <1>7, <2>1, <2>2 DEF OnePlace, Sending, Taking, Taken
<1>11. KbLinked'
  BY <1>5, <1>7, <1>8 DEF KbLinked
<1>12. ProcLinked'
  <2>1. SameLinks(Range(fifo["PROC"]))
    BY <1>2, <1>6, MailFacts DEF SameLinks
  <2> QED
    BY <1>1, <1>5, <1>6, <1>7, <2>1, ProcStays DEF Taking, Taken
<1> QED
  BY <1>9, <1>10, <1>11, <1>12 DEF MailInv

(* The statements of MsgEnvQ_dequeue.  The history changes when the receive returns. *)
LEMMA DequeueStep ==
  ASSUME MailInv, DequeueHead \/ DequeueClearHead \/ DequeueClearTail \/ DequeueAdvance \/ DequeueUnlink
  PROVE  MailInv'
<1> DEFINE q == fifo["PROC"]
<1>1. /\ MailTypes /\ OnePlace /\ KbLinked /\ ProcLinked /\ BlockedEmpty
      /\ "KB" \in Queues /\ "PROC" \in Queues /\ lists \in Lists
      /\ q \in Seq(Envelopes) /\ fifo["KB"] \in Seq(Envelopes)
      /\ pc \in {"deq_head", "deq_clear_head", "deq_clear_tail", "deq_advance", "deq_unlink"}
      /\ running /\ fifo' = fifo /\ hand' = hand /\ running' = running /\ state' = state
      /\ pc' \in {"deq_last", "deq_clear_tail", "deq_test", "deq_unlink", "rcv_tail"}
  BY MailFacts DEF DequeueHead, DequeueClearHead, DequeueClearTail, DequeueAdvance, DequeueUnlink,
                   At, Goto, Unmoved
<1>2. /\ q # <<>> /\ IsInjective(q) /\ Range(q) \cap Range(fifo["KB"]) = {}
      /\ pc # "deq_head" => env = q[1]
  BY <1>1 DEF OnePlace, Taking, Taken
<1>3. /\ q[1] \in Envelopes /\ q[1] \in Range(q) /\ \A i \in 2 .. Len(q) : q[i] \in Envelopes /\ q[i] # q[1]
      /\ Len(q) \in Nat /\ Len(q) # 0
  <2>1. 1 \in 1 .. Len(q) /\ DOMAIN q = 1 .. Len(q) /\ \A i \in 1 .. Len(q) : q[i] \in Envelopes
    BY <1>1, <1>2, EmptySeq
  <2>2. q[1] \in Range(q)
    BY <2>1 DEF Range
  <2>3. \A i \in 2 .. Len(q) : i \in 1 .. Len(q) /\ i # 1
    OBVIOUS
  <2> QED
    BY <1>2, <2>1, <2>2, <2>3 DEF IsInjective
<1>4. /\ lists' \in Lists /\ SameEnds("KB") /\ SameLinks(Range(fifo["KB"]))
      /\ env' = q[1] /\ ProcLinked'
  <2>1. CASE DequeueHead
    <3>1. Linked(lists, "PROC", q) /\ pc' = "deq_last" /\ env' = lists.head["PROC"] /\ lists' = lists
      BY <1>1, <2>1 DEF DequeueHead, ProcLinked, Taken, At, Goto
    <3>2. env' = q[1]
      BY <1>1, <1>2, <3>1, Ends
    <3> QED
      BY <1>1, <3>1, <3>2 DEF SameEnds, SameLinks, ProcLinked, Taken
  <2>2. CASE DequeueClearHead
    <3>1. /\ pc = "deq_clear_head" /\ pc' = "deq_clear_tail" /\ env' = env
          /\ lists' = [lists EXCEPT !.head["PROC"] = NULL] /\ Len(q) = 1
      BY <1>1, <2>2 DEF DequeueClearHead, ProcLinked, At, Goto
    <3>2. lists' \in Lists /\ SameEnds("KB") /\ lists'.next = lists.next /\ lists'.head["PROC"] = NULL
      BY <1>1, <3>1 DEF Lists, SameEnds, Queues, Pointer
    <3> QED
      BY <1>1, <1>2, <3>1, <3>2 DEF SameLinks, ProcLinked
  <2>3. CASE DequeueClearTail
    <3>1. /\ pc = "deq_clear_tail" /\ pc' = "deq_test" /\ env' = env
          /\ lists' = [lists EXCEPT !.tail["PROC"] = NULL] /\ Len(q) = 1 /\ lists.head["PROC"] = NULL
      BY <1>1, <2>3 DEF DequeueClearTail, ProcLinked, At, Goto
    <3>2. /\ lists' \in Lists /\ SameEnds("KB") /\ lists'.next = lists.next
          /\ lists'.head["PROC"] = NULL /\ lists'.tail["PROC"] = NULL
      BY <1>1, <3>1 DEF Lists, SameEnds, Queues, Pointer
    <3> QED
      BY <1>1, <1>2, <3>1, <3>2 DEF SameLinks, ProcLinked, Linked, Taken
  <2>4. CASE DequeueAdvance
    <3>1. /\ pc = "deq_advance" /\ pc' = "deq_unlink" /\ env' = env
          /\ lists' = [lists EXCEPT !.head["PROC"] = lists.next[lists.head["PROC"]]]
          /\ Linked(lists, "PROC", q) /\ Len(q) # 1
      BY <1>1, <2>4 DEF DequeueAdvance, ProcLinked, Taken, At, Goto
    <3>2. lists.head["PROC"] = q[1]
      BY <1>1, <1>2, <3>1, Ends
    <3>3. /\ lists' \in Lists /\ SameEnds("KB") /\ lists'.next = lists.next
          /\ lists'.head["PROC"] = lists.next[lists.head["PROC"]] /\ lists'.tail["PROC"] = lists.tail["PROC"]
      BY <1>1, <1>3, <3>1, <3>2 DEF Lists, SameEnds, Queues, Pointer
    <3>4. Linked(lists', "PROC", Tail(q))
      BY <1>1, <1>2, <3>1, <3>3, LinkedAdvance
    <3> QED
      BY <1>1, <1>2, <3>1, <3>3, <3>4 DEF SameLinks, ProcLinked, Taken
  <2>5. CASE DequeueUnlink
    <3>1. /\ pc = "deq_unlink" /\ pc' = "rcv_tail" /\ env' = env /\ env = q[1]
          /\ lists' = [lists EXCEPT !.next[env] = NULL]
          /\ Linked(lists, "PROC", Tail(q))
      BY <1>1, <1>2, <2>5 DEF DequeueUnlink, ProcLinked, Taken, At, Goto
    <3>2. /\ lists' \in Lists /\ SameEnds("KB") /\ SameEnds("PROC")
          /\ \A e \in Envelopes : e # q[1] => lists'.next[e] = lists.next[e]
      BY <1>1, <1>3, <3>1 DEF Lists, SameEnds, Queues, Pointer
    <3>3. SameLinks(Range(fifo["KB"]))
      BY <1>2, <1>3, <3>2, MailFacts DEF SameLinks
    <3>4. SameLinks(Range(Tail(q))) /\ Tail(q) \in Seq(Envelopes)
      <4>1. Range(Tail(q)) = Range(q) \ {Head(q)} /\ Tail(q) \in Seq(Envelopes) /\ Head(q) = q[1]
        BY <1>1, <1>2, Dequeued
      <4> QED
        BY <3>2, <4>1, MailFacts DEF SameLinks
    <3>5. Linked(lists, "PROC", Tail(q))'
      BY <1>1, <3>1, <3>2, <3>4, ListStays
    <3> QED
      BY <1>1, <3>1, <3>2, <3>3, <3>5 DEF ProcLinked, Taken
  <2> QED
    BY <2>1, <2>2, <2>3, <2>4, <2>5
<1>5. MailTypes' /\ BlockedEmpty'
  BY <1>1, <1>3, <1>4 DEF MailTypes, Pointer, BlockedEmpty, Blocking
<1>6. OnePlace'
  BY <1>1, <1>2, <1>4 DEF OnePlace, InList, Sending, Taking, Taken
<1>7. KbLinked'
  BY <1>1, <1>4, KbStays DEF Sending
<1> QED
  BY <1>4, <1>5, <1>6, <1>7 DEF MailInv

(* The statements of k_log_event; after the last, k_receive_message returns env. *)
LEMMA LogStep ==
  ASSUME MailInv, LogSend \/ LogReceive PROVE MailInv'
<1> DEFINE q == fifo["PROC"]
<1>1. /\ MailTypes /\ OnePlace /\ KbLinked /\ ProcLinked /\ BlockedEmpty
      /\ "KB" \in Queues /\ "PROC" \in Queues /\ lists \in Lists
      /\ fifo["KB"] \in Seq(Envelopes) /\ q \in Seq(Envelopes) /\ fifo \in [Queues -> Seq(Envelopes)]
      /\ running /\ running' = running /\ state' = state /\ lists' = lists
  BY MailFacts DEF MailTypes, LogSend, LogReceive, LogTail, LogEntry, LogAdvance, At, mailVars
<1>2. CASE LogSend
  <2>1. UNCHANGED <<env, hand, fifo>>
    BY <1>2 DEF LogSend, LogTail, LogEntry, LogAdvance, mailVars
  <2>2. pc \in {"send_tail", "send_entry", "send_advance"} /\ pc' \in {"send_entry", "send_advance", "user"}
    BY <1>2 DEF LogSend, LogTail, LogEntry, LogAdvance, At, Goto
  <2>3. MailTypes' /\ OnePlace' /\ BlockedEmpty'
    BY <1>1, <2>1, <2>2 DEF MailTypes, OnePlace, InList, Sending, Taking, Taken, BlockedEmpty, Blocking
  <2>4. KbLinked' /\ ProcLinked'
    BY <1>1, <2>1, <2>2 DEF KbLinked, ProcLinked, Taken
  <2> QED
    BY <2>3, <2>4 DEF MailInv
<1>3. CASE pc # "rcv_advance" /\ LogReceive
  <2>1. UNCHANGED <<env, hand, fifo>>
    BY <1>3 DEF LogReceive, LogTail, LogEntry, LogAdvance, At, mailVars
  <2>2. pc \in {"rcv_tail", "rcv_entry"} /\ pc' \in {"rcv_entry", "rcv_advance"}
    BY <1>3 DEF LogReceive, LogTail, LogEntry, LogAdvance, At, Goto
  <2>3. MailTypes' /\ OnePlace' /\ BlockedEmpty'
    BY <1>1, <2>1, <2>2 DEF MailTypes, OnePlace, InList, Sending, Taking, Taken, BlockedEmpty, Blocking
  <2>4. KbLinked' /\ ProcLinked'
    BY <1>1, <2>1, <2>2 DEF KbLinked, ProcLinked, Taken
  <2> QED
    BY <2>3, <2>4 DEF MailInv
<1>4. CASE pc = "rcv_advance" /\ LogReceive
  <2>1. /\ pc' = "user" /\ env' = NULL /\ hand' = hand \cup {env}
        /\ fifo' = [fifo EXCEPT !["PROC"] = RemoveFirst(q, env)]
    BY <1>4 DEF LogReceive, LogTail, LogEntry, LogAdvance, At, Goto
  <2>2. /\ q # <<>> /\ env = q[1] /\ IsInjective(q) /\ IsInjective(fifo["KB"])
        /\ Range(q) \cap Range(fifo["KB"]) = {} /\ hand = Envelopes \ InList
        /\ Linked(lists, "PROC", Tail(q)) /\ Linked(lists, "KB", fifo["KB"])
    BY <1>1, <1>4 DEF OnePlace, KbLinked, ProcLinked, Sending, Taking, Taken, Queues
  <2>3. /\ RemoveFirst(q, env) = Tail(q) /\ Tail(q) \in Seq(Envelopes) /\ env \in Range(q)
        /\ IsInjective(Tail(q)) /\ Range(Tail(q)) = Range(q) \ {env}
    <3>1. Head(q) = q[1]
      BY <1>1, <2>2
    <3> QED
      BY <1>1, <2>2, <3>1, FirstRemoved, Dequeued
  <2>4. fifo'["PROC"] = Tail(q) /\ fifo'["KB"] = fifo["KB"] /\ fifo' \in [Queues -> Seq(Envelopes)]
    BY <1>1, <2>1, <2>3 DEF Queues
  <2>5. hand' = Envelopes \ InList'
    BY <2>1, <2>2, <2>3, <2>4, MailFacts DEF InList
  <2>6. MailTypes' /\ BlockedEmpty'
    BY <1>1, <1>4, <2>1, <2>4 DEF MailTypes, Pointer, BlockedEmpty, Blocking
  <2>7. OnePlace'
    <3>1. \A x \in Queues : IsInjective(fifo'[x])
      BY <2>2, <2>3, <2>4 DEF Queues
    <3> QED
      BY <2>1, <2>2, <2>3, <2>4, <2>5, <3>1 DEF OnePlace, Sending, Taking, Taken
  <2>8. KbLinked' /\ ProcLinked'
    BY <1>1, <2>1, <2>2, <2>4 DEF KbLinked, ProcLinked, Taken
  <2> QED
    BY <2>6, <2>7, <2>8 DEF MailInv
<1> QED
  BY <1>2, <1>3, <1>4

(* The functions of MsgEnvQueue.c as the handler executes them. *)
LEMMA DequeueLinked ==
  ASSUME NEW L \in Lists, NEW q \in Queues, NEW s \in Seq(Envelopes), s # <<>>, IsInjective(s),
         Linked(L, q, s)
  PROVE  LET M == MsgEnvQ_dequeue(L, q)
         IN  /\ M \in Lists /\ Linked(M, q, Tail(s))
             /\ \A r \in Queues \ {q} : M.head[r] = L.head[r] /\ M.tail[r] = L.tail[r]
             /\ \A e \in Envelopes : e # s[1] => M.next[e] = L.next[e]
<1> DEFINE M == MsgEnvQ_dequeue(L, q)
<1>1. L.head[q] = s[1] /\ s[1] \in Envelopes /\ (L.head[q] = L.tail[q] <=> Len(s) = 1)
  BY LinkedEnds
<1>2. CASE Len(s) = 1
  <2>1. M = [L EXCEPT !.head[q] = NULL, !.tail[q] = NULL]
    BY <1>1, <1>2 DEF MsgEnvQ_dequeue
  <2>2. Tail(s) = <<>>
    BY <1>2, OneElement
  <2> HIDE DEF M
  <2>3. /\ M \in Lists /\ M.head[q] = NULL /\ M.tail[q] = NULL /\ M.next = L.next
        /\ \A r \in Queues \ {q} : M.head[r] = L.head[r] /\ M.tail[r] = L.tail[r]
    BY <2>1 DEF Lists, Pointer
  <2> QED
    BY <2>2, <2>3 DEF M, Linked
<1>3. CASE Len(s) # 1
  <2>1. M = [L EXCEPT !.head[q] = L.next[s[1]], !.next[s[1]] = NULL]
    BY <1>1, <1>3 DEF MsgEnvQ_dequeue
  <2> HIDE DEF M
  <2>2. /\ M \in Lists /\ M.head[q] = L.next[L.head[q]] /\ M.tail = L.tail
        /\ \A r \in Queues \ {q} : M.head[r] = L.head[r]
        /\ \A e \in Envelopes : e # s[1] => M.next[e] = L.next[e]
    BY <1>1, <2>1 DEF Lists, Pointer
  <2>3. \A i \in 2 .. Len(s) - 1 : s[i] \in Envelopes /\ s[i] # s[1]
    <3>1. \A i \in 2 .. Len(s) - 1 : i \in 1 .. Len(s) /\ 1 \in 1 .. Len(s) /\ i # 1
      BY LenProperties
    <3> QED
      BY <3>1 DEF IsInjective
  <2>4. \A i \in 2 .. Len(s) - 1 : M.next[s[i]] = L.next[s[i]]
    BY <2>2, <2>3
  <2>5. Linked(M, q, Tail(s))
    BY <1>3, <2>2, <2>4, LinkedAdvance
  <2> QED
    BY <2>2, <2>5 DEF M
<1> QED
  BY <1>2, <1>3

LEMMA EnqueueLinked ==
  ASSUME NEW L \in Lists, NEW q \in Queues, NEW s \in Seq(Envelopes), NEW e \in Envelopes, e \notin Range(s),
         IsInjective(s), Linked(L, q, s)
  PROVE  LET M == MsgEnvQ_enqueue(L, q, e)
         IN  /\ M \in Lists /\ Linked(M, q, Append(s, e))
             /\ \A r \in Queues \ {q} : M.head[r] = L.head[r] /\ M.tail[r] = L.tail[r]
             /\ \A x \in Envelopes : x # e /\ x \notin Range(s) => M.next[x] = L.next[x]
<1> DEFINE M == MsgEnvQ_enqueue(L, q, e)
<1>1. CASE s = <<>>
  <2>1. M = [L EXCEPT !.head[q] = e, !.tail[q] = e, !.next[e] = NULL]
    BY <1>1 DEF MsgEnvQ_enqueue, Linked
  <2> HIDE DEF M
  <2>2. /\ M \in Lists /\ M.head[q] = e /\ M.tail[q] = e
        /\ \A r \in Queues \ {q} : M.head[r] = L.head[r] /\ M.tail[r] = L.tail[r]
        /\ \A x \in Envelopes : x # e => M.next[x] = L.next[x]
    BY <2>1 DEF Lists, Pointer
  <2>3. Linked(M, q, Append(s, e))
    BY <1>1, <2>2, LinkedAppend
  <2> QED
    BY <2>2, <2>3 DEF M
<1>2. CASE s # <<>>
  <2>1. L.head[q] # NULL /\ L.tail[q] = Last(s) /\ Last(s) \in Envelopes /\ Last(s) \in Range(s)
    BY <1>2, LinkedEnds
  <2>2. M = [L EXCEPT !.next[Last(s)] = e, !.tail[q] = e, !.next[e] = NULL]
    BY <2>1 DEF MsgEnvQ_enqueue
  <2> HIDE DEF M
  <2>3. /\ M \in Lists /\ M.head = L.head /\ M.tail[q] = e /\ M.next[Last(s)] = e
        /\ \A r \in Queues \ {q} : M.tail[r] = L.tail[r]
        /\ \A x \in Envelopes : x # e /\ x # Last(s) => M.next[x] = L.next[x]
    BY <2>1, <2>2 DEF Lists, Pointer
  <2>4. \A i \in 1 .. Len(s) - 1 : s[i] \in Envelopes /\ s[i] # Last(s) /\ s[i] # e
    <3>1. \A i \in 1 .. Len(s) - 1 : i \in 1 .. Len(s) /\ Len(s) \in 1 .. Len(s) /\ i # Len(s)
      BY LenProperties
    <3> QED
      BY <3>1 DEF IsInjective, Range, Last
  <2>5. Linked(M, q, Append(s, e))
    BY <1>2, <2>3, <2>4, LinkedAppend
  <2> QED
    BY <2>1, <2>3, <2>5 DEF M
<1> QED
  BY <1>1, <1>2

(* The handler finds both lists whole, for it runs between two primitives. *)
LEMMA HandlerStep ==
  ASSUME MailInv, AtRest, kbd_i_proc PROVE MailInv'
<1> DEFINE k == fifo["KB"]
           q == fifo["PROC"]
           e == lists.head["KB"]
           M == MsgEnvQ_dequeue(lists, "KB")
<1>1. /\ MailTypes /\ OnePlace /\ KbLinked /\ ProcLinked /\ BlockedEmpty
      /\ "KB" \in Queues /\ "PROC" \in Queues /\ lists \in Lists
      /\ k \in Seq(Envelopes) /\ q \in Seq(Envelopes)
      /\ fifo \in [Queues -> Seq(Envelopes)]
      /\ pc \in {"user", "suspended"} /\ pc' = pc /\ env' = env /\ hand' = hand /\ running' = running
      /\ e # NULL /\ SendsBack(e)
      /\ state' = IF state = "BLOCKED_ON_RCV" THEN "READY" ELSE state
  BY MailFacts DEF AtRest, kbd_i_proc, MailTypes
<1>2. /\ Linked(lists, "KB", k) /\ Linked(lists, "PROC", q) /\ IsInjective(k) /\ IsInjective(q)
      /\ Range(q) \cap Range(k) = {} /\ hand = Envelopes \ InList
  BY <1>1 DEF KbLinked, ProcLinked, OnePlace, Sending, Taken, Queues
<1>3. k # <<>> /\ e = k[1] /\ e \in Range(k) /\ e \in Envelopes
  BY <1>1, <1>2, Ends
<1>4. /\ RemoveFirst(k, e) = Tail(k) /\ Tail(k) \in Seq(Envelopes)
      /\ IsInjective(Tail(k)) /\ Range(Tail(k)) = Range(k) \ {e}
  <2>1. Head(k) = k[1]
    BY <1>1, <1>3
  <2> QED
    BY <1>1, <1>2, <1>3, <2>1, FirstRemoved, Dequeued
<1>5. /\ Append(q, e) \in Seq(Envelopes) /\ Range(Append(q, e)) = Range(q) \cup {e}
      /\ IsInjective(Append(q, e))
  BY <1>1, <1>2, <1>3, Enqueued
<1>6. /\ fifo'["KB"] = Tail(k) /\ fifo'["PROC"] = Append(q, e) /\ fifo' \in [Queues -> Seq(Envelopes)]
      /\ lists' = MsgEnvQ_enqueue(M, "PROC", e)
  BY <1>1, <1>4, <1>5 DEF SendsBack, Queues
<1> HIDE DEF e
<1>7. /\ M \in Lists /\ Linked(M, "KB", Tail(k))
      /\ M.head["PROC"] = lists.head["PROC"] /\ M.tail["PROC"] = lists.tail["PROC"]
      /\ \A x \in Envelopes : x # k[1] => M.next[x] = lists.next[x]
  BY <1>1, <1>2, <1>3, DequeueLinked DEF Queues
<1> HIDE DEF M
<1>8. \A x \in Range(q) : x \in Envelopes /\ x # k[1]
  BY <1>2, <1>3, MailFacts
<1>9. Linked(M, "PROC", q)
  <2>1. \A i \in 1 .. Len(q) - 1 : q[i] \in Range(q)
    BY <1>1, LenProperties DEF Range
  <2>2. \A i \in 1 .. Len(q) - 1 : M.next[q[i]] = lists.next[q[i]]
    BY <1>7, <1>8, <2>1
  <2> QED
    BY <1>1, <1>2, <1>7, <2>2, LinkedFrame
<1>10. /\ lists' \in Lists /\ Linked(lists', "PROC", Append(q, e))
       /\ lists'.head["KB"] = M.head["KB"] /\ lists'.tail["KB"] = M.tail["KB"]
       /\ \A x \in Envelopes : x # e /\ x \notin Range(q) => lists'.next[x] = M.next[x]
  <2>1. e \notin Range(q)
    BY <1>2, <1>3
  <2> QED
    BY <1>1, <1>2, <1>3, <1>6, <1>7, <1>9, <2>1, EnqueueLinked DEF Queues
<1>11. Linked(lists', "KB", Tail(k))
  <2>1. \A x \in Range(Tail(k)) : x \in Envelopes /\ x # e /\ x \notin Range(q)
    BY <1>2, <1>4, MailFacts
  <2>2. \A i \in 1 .. Len(Tail(k)) - 1 : Tail(k)[i] \in Range(Tail(k))
    <3> DEFINE t == Tail(k)
    <3>1. t \in Seq(Envelopes)
      BY <1>4
    <3> HIDE DEF t
    <3>2. \A i \in 1 .. Len(t) - 1 : t[i] \in Range(t)
      BY <3>1, LenProperties DEF Range
    <3> QED
      BY <3>2 DEF t
  <2>3. \A i \in 1 .. Len(Tail(k)) - 1 : lists'.next[Tail(k)[i]] = M.next[Tail(k)[i]]
    BY <1>10, <2>1, <2>2
  <2> QED
    BY <1>1, <1>4, <1>7, <1>10, <2>3, LinkedFrame
<1>12. MailTypes' /\ BlockedEmpty'
  BY <1>1, <1>6, <1>10 DEF MailTypes, BlockedEmpty, Blocking
<1>13. OnePlace'
  <2>1. InList' = InList
    BY <1>3, <1>4, <1>5, <1>6 DEF InList
  <2>2. \A x \in Queues : IsInjective(fifo'[x])
    BY <1>4, <1>5, <1>6 DEF Queues
  <2>3. Range(fifo'["PROC"]) \cap Range(fifo'["KB"]) = {}
    BY <1>2, <1>4, <1>5, <1>6
  <2> QED
    BY <1>1, <1>2, <2>1, <2>2, <2>3 DEF OnePlace, Sending, Taking, Taken
<1>14. KbLinked' /\ ProcLinked'
  BY <1>1, <1>6, <1>10, <1>11 DEF KbLinked, ProcLinked, Taken
<1> QED
  BY <1>12, <1>13, <1>14 DEF MailInv

LEMMA NextMail ==
  ASSUME MailInv, [Statement \/ (AtRest /\ kbd_i_proc)]_vars PROVE MailInv'
<1>1. ASSUME NEW e \in Envelopes, GetConsoleChars(e) PROVE MailInv'
  BY <1>1, SendStep
<1>2. CASE Test
  BY <1>2, TestStep
<1>3. CASE EnqueueFirst \/ EnqueueLink \/ EnqueueTail
  BY <1>3, EnqueueStep
<1>4. CASE EnqueueEnd
  BY <1>4, EnqueueEndStep
<1>5. CASE DequeueHead \/ DequeueClearHead \/ DequeueClearTail \/ DequeueAdvance \/ DequeueUnlink
  BY <1>5, DequeueStep
<1>6. CASE LogSend \/ LogReceive
  BY <1>6, LogStep
<1>7. CASE AtRest /\ kbd_i_proc
  BY <1>7, HandlerStep
<1>8. CASE UNCHANGED vars
  <2>1. /\ MailTypes /\ OnePlace /\ KbLinked /\ ProcLinked /\ BlockedEmpty
        /\ UNCHANGED <<lists, env, hand, fifo, pc, state, running>>
    BY <1>8 DEF vars, mailVars, MailInv
  <2>2. MailTypes' /\ OnePlace' /\ BlockedEmpty'
    BY <2>1 DEF MailTypes, OnePlace, InList, Sending, Taking, Taken, BlockedEmpty, Blocking
  <2>3. KbLinked' /\ ProcLinked'
    BY <2>1 DEF KbLinked, ProcLinked, Taken
  <2> QED
    BY <2>2, <2>3 DEF MailInv
<1> QED
  BY <1>1, <1>2, <1>3, <1>4, <1>5, <1>6, <1>7, <1>8 DEF Statement, Test

LEMMA MailInvariance == SpecUninterrupted => []MailInv
<1>1. MailInv /\ [Statement \/ (AtRest /\ kbd_i_proc)]_vars => MailInv'
  BY NextMail
<1> QED
  BY <1>1, InitMail, PTL DEF SpecUninterrupted

(* When signals land only between primitives, the statements of MsgEnvQueue.c keep each list
   as a FIFO queue and lose no envelope, for every set of envelopes. *)
THEOREM ListsAreFifo == SpecUninterrupted => []QueuesAreFifo
<1>1. MailInv => QueuesAreFifo
  <2> SUFFICES ASSUME MailInv, AtRest PROVE QueuesAreFifo
    BY DEF QueuesAreFifo
  <2>1. OnePlace /\ KbLinked /\ ProcLinked /\ pc \in {"user", "suspended"}
    BY DEF MailInv, AtRest
  <2>2. \A q \in Queues : Linked(lists, q, fifo[q]) /\ IsInjective(fifo[q])
    BY <2>1 DEF OnePlace, KbLinked, ProcLinked, Taken, Queues
  <2> QED
    BY <2>1, <2>2 DEF OnePlace, InList, Sending, QueuesAreFifo
<1> QED
  BY <1>1, MailInvariance, PTL

(* Nor is a wakeup lost then: a process that waits to receive has no message, which is what
   masking the signals is for (kernal.c:137). *)
THEOREM WakeupsKept == SpecUninterrupted => []NoLostWakeup
<1>1. MailInv => NoLostWakeup
  <2> SUFFICES ASSUME MailInv, state = "BLOCKED_ON_RCV" PROVE lists.head["PROC"] = NULL
    BY DEF NoLostWakeup
  <2>1. pc \in {"switch_go", "suspended"} /\ fifo["PROC"] = <<>> /\ ProcLinked
    BY DEF MailInv, BlockedEmpty
  <2> QED
    BY <2>1 DEF ProcLinked, Linked, Taken
<1> QED
  BY <1>1, MailInvariance, PTL
=============================================================================
