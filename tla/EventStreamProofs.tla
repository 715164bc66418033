------------------------- MODULE EventStreamProofs -------------------------
(***************************************************************************)
(* What a write does to the events a client has, for the proofs about the  *)
(* handlers that stream.                                                   *)
(***************************************************************************)
EXTENDS EventStream, Integers, SequenceTheorems, TLAPS

LEMMA EventFields ==
  ASSUME NEW type, NEW item, NEW index
  PROVE  /\ Event(type, item, index).type = type
         /\ Event(type, item, index).item = item
         /\ Event(type, item, index).index = index
PROOF BY DEF Event

LEMMA PairOfConcat ==
  ASSUME NEW a, NEW b
  PROVE  <<a>> \o <<b>> = <<a, b>>
PROOF
<1> DEFINE c == <<a>> \o <<b>>
           d == <<a, b>>
<1>1. <<a>> \in Seq({a, b}) /\ <<b>> \in Seq({a, b})
  OBVIOUS
<1>2. c \in Seq({a, b}) /\ Len(c) = 2 /\ c[1] = a /\ c[2] = b
  BY <1>1, ConcatProperties
<1>3. d \in Seq({a, b}) /\ Len(d) = 2 /\ d[1] = a /\ d[2] = b
  OBVIOUS
<1> HIDE DEF c, d
<1>4. \A i \in 1 .. Len(c) : c[i] = d[i]
  BY <1>2, <1>3
<1>5. c = d
  BY <1>2, <1>3, <1>4, SeqEqual
<1> QED BY <1>5 DEF c, d

\* A write keeps what has been sent and adds the first n of the events.
LEMMA WriteExtends ==
  ASSUME NEW S, sent \in Seq(S), gone \in BOOLEAN,
         NEW events \in Seq(S), NEW n \in 0 .. Len(events), Write(events, n)
  PROVE  /\ sent' \in Seq(S) /\ gone' \in BOOLEAN
         /\ Len(sent') = Len(sent) + n
         /\ \A k \in 1 .. Len(sent) : sent'[k] = sent[k]
         /\ \A k \in 1 .. n : sent'[Len(sent) + k] = events[k]
         /\ \A k \in 1 .. Len(sent') :
              \/ k \in 1 .. Len(sent) /\ sent'[k] = sent[k]
              \/ /\ k - Len(sent) \in 1 .. n
                 /\ sent'[k] = events[k - Len(sent)]
         /\ gone => gone' /\ n = 0
         /\ ~gone' => ~gone /\ n = Len(events)
PROOF
<1>1. Len(events) \in Nat /\ Len(sent) \in Nat /\ n \in Nat /\ n <= Len(events)
  BY LenProperties
<1>2. SubSeq(events, 1, n) \in Seq(S) /\ Len(SubSeq(events, 1, n)) = n
  BY <1>1, SubSeqProperties
<1>3. \A k \in 1 .. n : SubSeq(events, 1, n)[k] = events[k]
  BY <1>1, SubSeqProperties
<1>4. sent' = sent \o SubSeq(events, 1, n) /\ gone' = (gone \/ n < Len(events))
  BY DEF Write
<1>5. sent' \in Seq(S) /\ Len(sent') = Len(sent) + n
  BY <1>1, <1>2, <1>4, ConcatProperties
<1>6. \A k \in 1 .. Len(sent) : sent'[k] = sent[k]
  BY <1>1, <1>2, <1>4, ConcatProperties
<1>7. ASSUME NEW k \in 1 .. n PROVE sent'[Len(sent) + k] = events[k]
  BY <1>1, <1>2, <1>3, <1>4, ConcatProperties
<1>8. ASSUME NEW k \in 1 .. Len(sent')
      PROVE  \/ k \in 1 .. Len(sent) /\ sent'[k] = sent[k]
             \/ k - Len(sent) \in 1 .. n /\ sent'[k] = events[k - Len(sent)]
  <2>1. CASE k <= Len(sent)
    BY <1>1, <1>6, <2>1
  <2>2. CASE k > Len(sent)
    <3>1. k - Len(sent) \in 1 .. n /\ Len(sent) + (k - Len(sent)) = k
      BY <1>1, <1>5, <2>2
    <3> QED BY <1>7, <3>1
  <2> QED BY <1>1, <1>5, <2>1, <2>2
<1>9. gone' \in BOOLEAN /\ (gone => gone' /\ n = 0) /\ (~gone' => ~gone /\ n = Len(events))
  <2>1. ~(n < Len(events)) => n = Len(events)
    BY <1>1
  <2>2. (gone => n = 0) /\ (n < Len(events)) \in BOOLEAN
    BY <1>1 DEF Write
  <2> QED BY <1>4, <2>1, <2>2, Zenon
<1> QED BY <1>5, <1>6, <1>7, <1>8, <1>9


\* The set of the events a client has after a write.
LEMMA WriteSent ==
  ASSUME NEW S, sent \in Seq(S), gone \in BOOLEAN,
         NEW events \in Seq(S), NEW n \in 0 .. Len(events), Write(events, n)
  PROVE  Sent \subseteq Sent' /\ Sent' = Sent \cup {events[k] : k \in 1 .. n}
PROOF
<1>1. /\ Len(sent) \in Nat /\ n \in Nat /\ Len(sent') = Len(sent) + n
      /\ \A k \in 1 .. Len(sent) : sent'[k] = sent[k]
      /\ \A k \in 1 .. n : sent'[Len(sent) + k] = events[k]
      /\ \A k \in 1 .. Len(sent') :
           \/ k \in 1 .. Len(sent) /\ sent'[k] = sent[k]
           \/ k - Len(sent) \in 1 .. n /\ sent'[k] = events[k - Len(sent)]
  BY WriteExtends, LenProperties
<1>2. Sent' \subseteq Sent \cup {events[k] : k \in 1 .. n}
  BY <1>1 DEF Sent
<1>3. ASSUME NEW k \in 1 .. Len(sent) PROVE sent[k] \in Sent'
  <2>1. k \in 1 .. Len(sent') /\ sent[k] = sent'[k]
    BY <1>1
  <2> QED BY <2>1 DEF Sent
<1>4. ASSUME NEW k \in 1 .. n PROVE events[k] \in Sent'
  <2>1. Len(sent) + k \in 1 .. Len(sent') /\ events[k] = sent'[Len(sent) + k]
    BY <1>1
  <2> QED BY <2>1 DEF Sent
<1>5. Sent \subseteq Sent'
  BY <1>3 DEF Sent
<1>6. {events[k] : k \in 1 .. n} \subseteq Sent'
  BY <1>4
<1> QED BY <1>2, <1>5, <1>6

------------------------------------------------------------------------------

\* The events before one of a concatenation.
LEMMA ConcatBefore ==
  ASSUME NEW S, NEW s \in Seq(S), NEW t \in Seq(S)
  PROVE  /\ Len(s) \in Nat /\ Len(t) \in Nat /\ Len(s \o t) = Len(s) + Len(t)
         /\ \A k \in 1 .. Len(s) :
              (s \o t)[k] = s[k] /\ Before(s \o t, k) = Before(s, k)
         /\ \A k \in 1 .. Len(t) :
              /\ (s \o t)[Len(s) + k] = t[k]
              /\ Before(s \o t, Len(s) + k) = {s[j] : j \in 1 .. Len(s)} \cup Before(t, k)
PROOF
<1> DEFINE st == s \o t
           m == Len(s)
<1>1. /\ m \in Nat /\ Len(t) \in Nat /\ Len(st) = m + Len(t)
      /\ \A k \in 1 .. m : st[k] = s[k]
      /\ \A k \in 1 .. Len(t) : st[m + k] = t[k]
  BY ConcatProperties, LenProperties
<1> HIDE DEF st, m
<1>2. ASSUME NEW k \in 1 .. m PROVE Before(st, k) = Before(s, k)
  <2>1. \A j \in 1 .. (k - 1) : st[j] = s[j]
    BY <1>1
  <2> QED BY <2>1, Zenon DEF Before
<1>3. ASSUME NEW k \in 1 .. Len(t)
      PROVE  Before(st, m + k) = {s[j] : j \in 1 .. m} \cup Before(t, k)
  <2>1. ASSUME NEW j \in 1 .. ((m + k) - 1)
        PROVE  st[j] \in {s[i] : i \in 1 .. m} \cup Before(t, k)
    <3>1. CASE j <= m
      BY <1>1, <3>1
    <3>2. CASE j > m
      <4>1. j - m \in 1 .. (k - 1) /\ j - m \in 1 .. Len(t) /\ m + (j - m) = j
        BY <1>1, <3>2
      <4>2. st[j] = t[j - m]
        BY <1>1, <4>1
      <4> QED BY <4>1, <4>2 DEF Before
    <3> QED BY <1>1, <3>1, <3>2
  <2>2. ASSUME NEW j \in 1 .. m PROVE s[j] \in Before(st, m + k)
    <3>1. j \in 1 .. ((m + k) - 1) /\ s[j] = st[j]
      BY <1>1
    <3> QED BY <3>1 DEF Before
  <2>3. ASSUME NEW j \in 1 .. (k - 1) PROVE t[j] \in Before(st, m + k)
    <3>1. m + j \in 1 .. ((m + k) - 1) /\ t[j] = st[m + j]
      BY <1>1
    <3> QED BY <3>1 DEF Before
  <2>4. Before(st, m + k) \subseteq {s[j] : j \in 1 .. m} \cup Before(t, k)
    <3> SUFFICES ASSUME NEW x, x \in Before(st, m + k)
                 PROVE  x \in {s[j] : j \in 1 .. m} \cup Before(t, k)
      OBVIOUS
    <3>1. PICK j \in 1 .. ((m + k) - 1) : x = st[j]
      BY DEF Before
    <3> QED BY <2>1, <3>1
  <2>5. {s[j] : j \in 1 .. m} \subseteq Before(st, m + k)
    BY <2>2
  <2>6. Before(t, k) \subseteq Before(st, m + k)
    BY <2>3 DEF Before
  <2> QED BY <2>4, <2>5, <2>6, Zenon
<1> QED BY <1>1, <1>2, <1>3 DEF st, m

\* Events in order, after events with which they are in order.
LEMMA ConcatInOrder ==
  ASSUME NEW S, NEW s \in Seq(S), NEW t \in Seq(S), NEW B, NEW opening, NEW closing,
         InOrder(s, B, opening, closing),
         InOrder(t, B \cup {s[j] : j \in 1 .. Len(s)}, opening, closing)
  PROVE  InOrder(s \o t, B, opening, closing)
PROOF
<1> DEFINE st == s \o t
           m == Len(s)
<1>1. /\ m \in Nat /\ Len(t) \in Nat /\ Len(st) = m + Len(t)
      /\ \A k \in 1 .. m : st[k] = s[k] /\ Before(st, k) = Before(s, k)
      /\ \A k \in 1 .. Len(t) :
           /\ st[m + k] = t[k]
           /\ Before(st, m + k) = {s[j] : j \in 1 .. m} \cup Before(t, k)
  BY ConcatBefore
<1> HIDE DEF st
<1>2. SUFFICES ASSUME NEW k \in 1 .. Len(st)
               PROVE  Follows(st[k], B \cup Before(st, k), opening, closing)
  BY DEF InOrder, st
<1>3. CASE k <= m
  <2>1. k \in 1 .. m
    BY <1>1, <1>3
  <2> QED BY <1>1, <2>1 DEF InOrder
<1>4. CASE k > m
  <2>1. k - m \in 1 .. Len(t) /\ m + (k - m) = k
    BY <1>1, <1>4
  <2>2. Follows(t[k - m], (B \cup {s[j] : j \in 1 .. m}) \cup Before(t, k - m),
                opening, closing)
    BY <2>1 DEF InOrder
  <2>3. st[k] = t[k - m] /\ Before(st, k) = {s[j] : j \in 1 .. m} \cup Before(t, k - m)
    BY <1>1, <2>1
  <2>4. (B \cup {s[j] : j \in 1 .. m}) \cup Before(t, k - m) = B \cup Before(st, k)
    BY <2>3
  <2> QED BY <2>2, <2>3, <2>4
<1> QED BY <1>1, <1>3, <1>4

\* A write that is cut short keeps the order too.
LEMMA PrefixInOrder ==
  ASSUME NEW S, NEW s \in Seq(S), NEW n \in 0 .. Len(s), NEW B, NEW opening, NEW closing,
         InOrder(s, B, opening, closing)
  PROVE  /\ SubSeq(s, 1, n) \in Seq(S)
         /\ InOrder(SubSeq(s, 1, n), B, opening, closing)
PROOF
<1> DEFINE p == SubSeq(s, 1, n)
<1>1. Len(s) \in Nat /\ n \in Nat /\ n <= Len(s)
  BY LenProperties
<1>2. p \in Seq(S) /\ Len(p) = n /\ \A k \in 1 .. n : p[k] = s[k]
  BY <1>1, SubSeqProperties
<1> HIDE DEF p
<1>3. ASSUME NEW k \in 1 .. n PROVE Before(p, k) = Before(s, k)
  <2>1. \A j \in 1 .. (k - 1) : p[j] = s[j]
    BY <1>1, <1>2
  <2> QED BY <2>1, Zenon DEF Before
<1>4. \A k \in 1 .. n : k \in 1 .. Len(s)
  BY <1>1
<1>5. InOrder(p, B, opening, closing)
  BY <1>2, <1>3, <1>4 DEF InOrder
<1> QED BY <1>2, <1>5 DEF p

LEMMA WriteInOrder ==
  ASSUME NEW S, sent \in Seq(S), NEW opening, NEW closing, EventsFollow(opening, closing),
         NEW events \in Seq(S), NEW n \in 0 .. Len(events), Write(events, n),
         InOrder(events, Sent, opening, closing)
  PROVE  EventsFollow(opening, closing)'
PROOF
<1>1. SubSeq(events, 1, n) \in Seq(S) /\ InOrder(SubSeq(events, 1, n), Sent, opening, closing)
  BY PrefixInOrder
<1>2. {} \cup {sent[j] : j \in 1 .. Len(sent)} = Sent
  BY DEF Sent
<1>3. InOrder(sent \o SubSeq(events, 1, n), {}, opening, closing)
  BY <1>1, <1>2, ConcatInOrder DEF EventsFollow
<1> QED BY <1>3 DEF Write, EventsFollow

\* A delta is in order if its item is open.
LEMMA DeltaInOrder ==
  ASSUME NEW opening, NEW closing, opening # "delta", closing # "delta", opening # closing,
         NEW item, NEW index, NEW B,
         Event(closing, item, index) \notin B, Event(opening, item, index) \in B
  PROVE  InOrder(<<Event("delta", item, index)>>, B, opening, closing)
PROOF
<1> DEFINE delta == Event("delta", item, index)
<1>1. Before(<<delta>>, 1) = {}
  BY DEF Before
<1>2. Follows(delta, B \cup Before(<<delta>>, 1), opening, closing)
  BY <1>1 DEF Follows, Event
<1> QED BY <1>2 DEF InOrder

\* An item can be opened if it is new and so is its index.
LEMMA OpeningInOrder ==
  ASSUME NEW opening, NEW closing, opening # "delta", closing # "delta", opening # closing,
         NEW item, NEW index, NEW B,
         Event(closing, item, index) \notin B,
         \A b \in B : b.type = opening => b.item # item /\ b.index # index,
         NEW type \in {"delta", closing}
  PROVE  InOrder(<<Event(opening, item, index), Event(type, item, index)>>, B, opening, closing)
PROOF
<1> DEFINE open == Event(opening, item, index)
           next == Event(type, item, index)
<1>1. Before(<<open, next>>, 1) = {} /\ Before(<<open, next>>, 2) = {open}
  BY DEF Before
<1>2. Follows(open, B \cup Before(<<open, next>>, 1), opening, closing)
  BY <1>1 DEF Follows, Event
<1>3. Follows(next, B \cup Before(<<open, next>>, 2), opening, closing)
  BY <1>1 DEF Follows, Event
<1> QED BY <1>2, <1>3 DEF InOrder

\* Items that are open can be closed, one or two of them.
LEMMA ClosingInOrder ==
  ASSUME NEW opening, NEW closing, opening # closing,
         NEW item, NEW index, NEW B,
         Event(closing, item, index) \notin B, Event(opening, item, index) \in B
  PROVE  InOrder(<<Event(closing, item, index)>>, B, opening, closing)
PROOF
<1> DEFINE close == Event(closing, item, index)
<1>1. Before(<<close>>, 1) = {}
  BY DEF Before
<1>2. Follows(close, B \cup Before(<<close>>, 1), opening, closing)
  BY <1>1 DEF Follows, Event
<1> QED BY <1>2 DEF InOrder

LEMMA DeltaEventsShape ==
  ASSUME NEW present \in BOOLEAN, NEW started \in BOOLEAN, NEW opening, NEW item, NEW index,
         NEW d, d = DeltaEvents(present, started, opening, item, index)
  PROVE  /\ d \in Seq({Event(opening, item, index), Event("delta", item, index)})
         /\ \A k \in 1 .. Len(d) :
              /\ present
              /\ \/ d[k] = Event("delta", item, index)
                 \/ ~started /\ d[k] = Event(opening, item, index)
         /\ present /\ ~started => 1 \in 1 .. Len(d) /\ d[1] = Event(opening, item, index)
         /\ present => Len(d) \in 1 .. Len(d) /\ d[Len(d)] = Event("delta", item, index)
         /\ \A k \in 1 .. Len(d) : k # Len(d) => d[k] = Event(opening, item, index)
PROOF
<1> DEFINE open == Event(opening, item, index)
           delta == Event("delta", item, index)
<1>1. d = IF ~present THEN <<>> ELSE IF started THEN <<delta>> ELSE <<open, delta>>
  BY DEF DeltaEvents
<1> HIDE DEF open, delta
<1>2. /\ <<delta>> \in Seq({open, delta}) /\ Len(<<delta>>) = 1 /\ <<delta>>[1] = delta
      /\ <<open, delta>> \in Seq({open, delta}) /\ Len(<<open, delta>>) = 2
      /\ <<open, delta>>[1] = open /\ <<open, delta>>[2] = delta
  OBVIOUS
<1>3. CASE ~present
  <2>1. d = <<>> /\ Len(d) = 0
    BY <1>1, <1>3
  <2> QED BY <1>3, <2>1
<1>4. CASE present /\ started
  <2>1. d = <<delta>>
    BY <1>1, <1>4
  <2>2. d \in Seq({open, delta}) /\ Len(d) = 1 /\ d[1] = delta
    BY <1>2, <2>1, Zenon
  <2>3. 1 \in 1 .. Len(d) /\ \A k \in 1 .. Len(d) : d[k] = delta /\ k = Len(d)
    BY <2>2
  <2> QED BY <1>4, <2>2, <2>3, Zenon DEF open, delta
<1>5. CASE present /\ ~started
  <2>1. d = <<open, delta>>
    BY <1>1, <1>5
  <2>2. d \in Seq({open, delta}) /\ Len(d) = 2 /\ d[1] = open /\ d[2] = delta
    BY <1>2, <2>1, Zenon
  <2>3. /\ 1 \in 1 .. Len(d) /\ 2 \in 1 .. Len(d)
        /\ \A k \in 1 .. Len(d) : (d[k] = open \/ d[k] = delta) /\ (k # Len(d) => d[k] = open)
    BY <2>2
  <2> QED BY <1>5, <2>2, <2>3, Zenon DEF open, delta
<1> QED BY <1>3, <1>4, <1>5

\* What a delta sends is in order if its item is open, or new as its index is.
LEMMA DeltaEventsInOrder ==
  ASSUME NEW opening, NEW closing, opening # "delta", closing # "delta", opening # closing,
         NEW present \in BOOLEAN, NEW started \in BOOLEAN, NEW item, NEW index, NEW B,
         Event(closing, item, index) \notin B,
         started => Event(opening, item, index) \in B,
         present /\ ~started =>
           \A b \in B : b.type = opening => b.item # item /\ b.index # index
  PROVE  InOrder(DeltaEvents(present, started, opening, item, index), B, opening, closing)
PROOF
<1> DEFINE d == DeltaEvents(present, started, opening, item, index)
<1>1. CASE ~present
  <2>1. d = <<>>
    BY <1>1 DEF DeltaEvents
  <2> QED BY <2>1 DEF InOrder
<1>2. CASE present /\ started
  <2>1. d = <<Event("delta", item, index)>>
    BY <1>2 DEF DeltaEvents
  <2> QED BY <1>2, <2>1, DeltaInOrder
<1>3. CASE present /\ ~started
  <2>1. d = <<Event(opening, item, index), Event("delta", item, index)>>
    BY <1>3 DEF DeltaEvents
  <2> QED BY <1>3, <2>1, OpeningInOrder
<1> QED BY <1>1, <1>2, <1>3

\* The events of a concatenation are those of its parts.
LEMMA ConcatElements ==
  ASSUME NEW S, NEW s \in Seq(S), NEW t \in Seq(S)
  PROVE  /\ s \o t \in Seq(S)
         /\ Len(s) \in Nat /\ Len(t) \in Nat /\ Len(s \o t) = Len(s) + Len(t)
         /\ \A k \in 1 .. Len(s) : k \in 1 .. Len(s \o t) /\ (s \o t)[k] = s[k]
         /\ \A k \in 1 .. Len(t) :
              Len(s) + k \in 1 .. Len(s \o t) /\ (s \o t)[Len(s) + k] = t[k]
         /\ \A k \in 1 .. Len(s \o t) :
              \/ k \in 1 .. Len(s) /\ (s \o t)[k] = s[k]
              \/ k - Len(s) \in 1 .. Len(t) /\ (s \o t)[k] = t[k - Len(s)]
PROOF
<1> DEFINE st == s \o t
<1>1. /\ st \in Seq(S) /\ Len(s) \in Nat /\ Len(t) \in Nat /\ Len(st) = Len(s) + Len(t)
      /\ \A k \in 1 .. Len(s) : st[k] = s[k]
      /\ \A k \in 1 .. Len(t) : st[Len(s) + k] = t[k]
  BY ConcatProperties, LenProperties
<1> HIDE DEF st
<1>2. ASSUME NEW k \in 1 .. Len(st)
      PROVE  \/ k \in 1 .. Len(s) /\ st[k] = s[k]
             \/ k - Len(s) \in 1 .. Len(t) /\ st[k] = t[k - Len(s)]
  <2>1. CASE k <= Len(s)
    BY <1>1, <2>1
  <2>2. CASE k > Len(s)
    <3>1. k - Len(s) \in 1 .. Len(t) /\ Len(s) + (k - Len(s)) = k
      BY <1>1, <2>2
    <3> QED BY <1>1, <3>1
  <2> QED BY <1>1, <2>1, <2>2
<1>3. /\ \A k \in 1 .. Len(s) : k \in 1 .. Len(st)
      /\ \A k \in 1 .. Len(t) : Len(s) + k \in 1 .. Len(st)
  BY <1>1
<1> QED BY <1>1, <1>2, <1>3 DEF st

\* Each event a client has after a write was there before or is one of those written.
LEMMA WriteAdds ==
  ASSUME NEW S, sent \in Seq(S), gone \in BOOLEAN,
         NEW events \in Seq(S), NEW n \in 0 .. Len(events), Write(events, n)
  PROVE  /\ sent' \in Seq(S) /\ gone' \in BOOLEAN /\ Sent \subseteq Sent'
         /\ \A event \in Sent' :
              event \in Sent \/ \E k \in 1 .. Len(events) : k <= n /\ event = events[k]
         /\ \A k \in 1 .. n : events[k] \in Sent'
         /\ n = 0 => sent' = sent /\ Sent' = Sent
         /\ gone => gone' /\ n = 0
         /\ ~gone' => ~gone /\ n = Len(events)
         /\ ~gone /\ n = Len(events) => ~gone'
PROOF
<1>1. /\ sent' \in Seq(S) /\ gone' \in BOOLEAN /\ Len(sent') = Len(sent) + n
      /\ \A k \in 1 .. Len(sent) : sent'[k] = sent[k]
      /\ gone => gone' /\ n = 0
      /\ ~gone' => ~gone /\ n = Len(events)
  BY WriteExtends, Zenon
<1>2. Sent \subseteq Sent' /\ Sent' = Sent \cup {events[k] : k \in 1 .. n}
  BY WriteSent, Zenon
<1>3. Len(events) \in Nat /\ n \in Nat /\ n <= Len(events) /\ Len(sent) \in Nat
  BY LenProperties
<1>4. \A k \in 1 .. n : k \in 1 .. Len(events) /\ k <= n
  BY <1>3
<1>5. \A event \in Sent' :
        event \in Sent \/ \E k \in 1 .. Len(events) : k <= n /\ event = events[k]
  BY <1>2, <1>4
<1>6. n = 0 => sent' = sent /\ Sent' = Sent
  <2>1. SUFFICES ASSUME n = 0 PROVE sent' = sent
    BY DEF Sent
  <2>2. Len(sent') = Len(sent) /\ \A k \in 1 .. Len(sent) : sent'[k] = sent[k]
    BY <1>1, <1>3, <2>1
  <2> QED BY <1>1, <2>2, SeqEqual
<1>7. ~gone /\ n = Len(events) => ~gone'
  <2>1. n = Len(events) => ~(n < Len(events))
    BY <1>3
  <2> QED BY <2>1, Zenon DEF Write
<1> QED BY <1>1, <1>2, <1>5, <1>6, <1>7

LEMMA NoneIsLast ==
  ASSUME NEW types, \A event \in Sent : event.type \notin types
  PROVE  LastOf(types)
PROOF BY DEF LastOf, Sent

=============================================================================
