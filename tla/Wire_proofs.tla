----------------------------- MODULE Wire_proofs -----------------------------
(***************************************************************************)
(* Proofs about the two services of ble_link.c.  Of Wire: its types, that  *)
(* the fragments implement the stream of frames of FrameStream, and that a *)
(* frame to which nothing happened is delivered, for every length of a     *)
(* frame, modulus, timeout and number of connections, foreign fragments    *)
(* and failures.  Of CodexLink: that messages never mix in a line and that *)
(* a request is answered, for every length of the queue and of the buffer. *)
(***************************************************************************)
EXTENDS Wire, CodexLink, TLAPS

------------------------------------------------------------------------------
(* Sequences                                                                *)

LEMMA AppendElements ==
  ASSUME NEW S, NEW q \in Seq(S), NEW e \in S
  PROVE  /\ Append(q, e) \in Seq(S)
         /\ Len(Append(q, e)) = Len(q) + 1
         /\ DOMAIN Append(q, e) = 1 .. Len(q) + 1
         /\ \A i \in 1 .. Len(q) : Append(q, e)[i] = q[i]
         /\ Append(q, e)[Len(q) + 1] = e
  OBVIOUS

LEMMA TailElements ==
  ASSUME NEW S, NEW q \in Seq(S), q # << >>
  PROVE  /\ Head(q) \in S /\ Head(q) = q[1] /\ Len(q) >= 1
         /\ Tail(q) \in Seq(S)
         /\ Len(Tail(q)) = Len(q) - 1
         /\ \A i \in 1 .. Len(Tail(q)) : Tail(q)[i] = q[i + 1]
  OBVIOUS

LEMMA ConcatElements ==
  ASSUME NEW S, NEW q \in Seq(S), NEW r \in Seq(S)
  PROVE  /\ q \o r \in Seq(S)
         /\ Len(q \o r) = Len(q) + Len(r)
         /\ \A i \in 1 .. Len(q) : (q \o r)[i] = q[i]
         /\ \A i \in Len(q) + 1 .. Len(q) + Len(r) : (q \o r)[i] = r[i - Len(q)]
  OBVIOUS

------------------------------------------------------------------------------
(* The order of the fragments                                               *)

\* One fragment is sent before another.
Before(a, b) ==
  a.frame < b.frame \/ (a.frame = b.frame /\ a.index < b.index /\ a.count = b.count)

Own(q, i) == i \in 1 .. Len(q) /\ q[i].frame # Foreign

Ordered(q) == \A i, j \in 1 .. Len(q) : i < j /\ Own(q, i) /\ Own(q, j) => Before(q[i], q[j])

AllBefore(q, f) == \A i \in 1 .. Len(q) : Own(q, i) => Before(q[i], f)

\* Fragments of frames that are sent, each with an index of its frame.
Proper(q, n) ==
  \A i \in 1 .. Len(q) : q[i].frame <= n /\ (Own(q, i) => q[i].index < q[i].count)

\* What is on its way belongs to frames after those that were delivered.
Later(q, D) == \A i \in 1 .. Len(q) : Own(q, i) => \A d \in D : d < q[i].frame

Types ==
  /\ direction \in {"device", "mac"}
  /\ channel \in Seq(Fragment)
  /\ begun \in Nat
  /\ nextId \in Id
  /\ sending \in Fragment
  /\ assembly \in Assembly

SendingOrder ==
  sending # NotSending =>
    /\ direction = "mac"
    /\ sending.frame \in 1 .. begun
    /\ sending.index < sending.count
    /\ AllBefore(channel, sending)
    /\ \A d \in delivered : d < sending.frame

StreamInv ==
  /\ Types
  /\ Ordered(channel)
  /\ Proper(channel, begun)
  /\ Later(channel, delivered)
  /\ delivered \subseteq 1 .. begun
  /\ SendingOrder

LEMMA LastIsBefore ==
  ASSUME NEW a \in Fragment, NEW b \in Fragment, Before(a, b),
         a.index = a.count - 1, b.index < b.count
  PROVE  a.frame < b.frame
  BY DEF Before, Fragment

LEMMA NextFragment ==
  ASSUME NEW a \in Fragment
  PROVE  LET b == [a EXCEPT !.index = a.index + 1]
         IN  b \in Fragment /\ b.frame = a.frame /\ b.index = a.index + 1 /\ b.count = a.count
  BY DEF Fragment

LEMMA Older ==
  ASSUME NEW a \in Assembly PROVE [a EXCEPT !.age = a.age + 1] \in Assembly
  BY DEF Assembly

LEMMA AppendOrder ==
  ASSUME NEW q \in Seq(Fragment), NEW f \in Fragment, NEW n \in Nat, NEW D \in SUBSET Nat,
         Ordered(q), Proper(q, n), Later(q, D),
         f.frame <= n,
         f.frame # Foreign =>
           f.index < f.count /\ AllBefore(q, f) /\ \A d \in D : d < f.frame
  PROVE  /\ Append(q, f) \in Seq(Fragment)
         /\ Ordered(Append(q, f)) /\ Proper(Append(q, f), n) /\ Later(Append(q, f), D)
<1>1. Append(q, f) \in Seq(Fragment) /\ Len(Append(q, f)) = Len(q) + 1
      /\ (\A i \in 1 .. Len(q) : Append(q, f)[i] = q[i]) /\ Append(q, f)[Len(q) + 1] = f
  BY AppendElements
<1>2. \A i \in 1 .. Len(q) + 1 : i \in 1 .. Len(q) \/ i = Len(q) + 1
  OBVIOUS
<1>3. Len(q) \in Nat
  OBVIOUS
<1>4. Proper(Append(q, f), n) /\ Later(Append(q, f), D)
  BY <1>1, <1>2, <1>3 DEF Proper, Later, Own
<1>5. ASSUME NEW i \in 1 .. Len(q) + 1, NEW j \in 1 .. Len(q) + 1, i < j,
             Own(Append(q, f), i), Own(Append(q, f), j)
      PROVE  Before(Append(q, f)[i], Append(q, f)[j])
  <2>1. i \in 1 .. Len(q)
    BY <1>2, <1>3, <1>5
  <2>2. Append(q, f)[i] = q[i] /\ Own(q, i)
    BY <1>1, <1>5, <2>1 DEF Own
  <2>3. CASE j \in 1 .. Len(q)
    BY <1>1, <1>5, <2>1, <2>2, <2>3 DEF Ordered, Own
  <2>4. CASE j = Len(q) + 1
    BY <1>1, <1>5, <2>1, <2>2, <2>4 DEF AllBefore, Own
  <2> QED
    BY <1>2, <2>3, <2>4
<1> QED
  BY <1>1, <1>4, <1>5 DEF Ordered

LEMMA TailOrder ==
  ASSUME NEW q \in Seq(Fragment), q # << >>, NEW n \in Nat, NEW D,
         Ordered(q), Proper(q, n), Later(q, D)
  PROVE  /\ Tail(q) \in Seq(Fragment)
         /\ Ordered(Tail(q)) /\ Proper(Tail(q), n) /\ Later(Tail(q), D)
         /\ Head(q) \in Fragment /\ Head(q).frame <= n
         /\ Head(q).frame # Foreign =>
              /\ Head(q).index < Head(q).count
              /\ \A d \in D : d < Head(q).frame
              /\ \A i \in 1 .. Len(Tail(q)) : Own(Tail(q), i) => Before(Head(q), Tail(q)[i])
<1>1. /\ Head(q) \in Fragment /\ Head(q) = q[1] /\ Len(q) >= 1
      /\ Tail(q) \in Seq(Fragment)
      /\ Len(Tail(q)) = Len(q) - 1
      /\ \A i \in 1 .. Len(Tail(q)) : Tail(q)[i] = q[i + 1]
  BY TailElements
<1>2. Len(q) \in Nat /\ 1 \in 1 .. Len(q)
  BY <1>1
<1>3. \A i \in 1 .. Len(Tail(q)) : i + 1 \in 1 .. Len(q) /\ (Own(Tail(q), i) => Own(q, i + 1))
  BY <1>1, <1>2 DEF Own
<1>4. Proper(Tail(q), n) /\ Later(Tail(q), D)
  BY <1>1, <1>3 DEF Proper, Later
<1>5. Ordered(Tail(q))
  <2> SUFFICES ASSUME NEW i \in 1 .. Len(Tail(q)), NEW j \in 1 .. Len(Tail(q)), i < j,
                      Own(Tail(q), i), Own(Tail(q), j)
               PROVE  Before(Tail(q)[i], Tail(q)[j])
    BY DEF Ordered
  <2>1. i + 1 < j + 1 /\ Own(q, i + 1) /\ Own(q, j + 1)
    BY <1>1, <1>3
  <2> QED
    BY <1>1, <1>3, <2>1 DEF Ordered
<1>6. ASSUME Head(q).frame # Foreign
      PROVE  /\ Head(q).index < Head(q).count
             /\ \A d \in D : d < Head(q).frame
             /\ \A i \in 1 .. Len(Tail(q)) :
                  Own(Tail(q), i) => Before(Head(q), Tail(q)[i])
  <2>1. Own(q, 1)
    BY <1>1, <1>2, <1>6 DEF Own
  <2>2. \A i \in 1 .. Len(Tail(q)) : 1 < i + 1
    BY <1>1, <1>2
  <2> QED
    BY <1>1, <1>2, <1>3, <2>1, <2>2 DEF Proper, Later, Ordered
<1> QED
  BY <1>1, <1>2, <1>4, <1>5, <1>6 DEF Proper

\* All fragments of the next frame at once.
LEMMA FragmentsOrder ==
  ASSUME NEW q \in Seq(Fragment), NEW n \in Nat, NEW D \in SUBSET (1 .. n), NEW id \in Id,
         NEW count \in Nat, Ordered(q), Proper(q, n), Later(q, D)
  PROVE  LET r == q \o Fragments(n + 1, id, count)
         IN  r \in Seq(Fragment) /\ Ordered(r) /\ Proper(r, n + 1) /\ Later(r, D)
<1> DEFINE s == Fragments(n + 1, id, count)
           r == q \o s
<1>1. s \in Seq(Fragment) /\ Len(s) = count
  BY DEF Fragments, Fragment, FragmentOf
<1>2. \A i \in 1 .. count : s[i].frame = n + 1 /\ s[i].index = i - 1 /\ s[i].count = count
  BY DEF Fragments, FragmentOf
<1> HIDE DEF s
<1>3. r \in Seq(Fragment) /\ Len(r) = Len(q) + count
      /\ (\A i \in 1 .. Len(q) : r[i] = q[i])
      /\ \A i \in Len(q) + 1 .. Len(q) + count : r[i] = s[i - Len(q)]
  BY <1>1, ConcatElements
<1> HIDE DEF r
<1>4. Len(q) \in Nat
  OBVIOUS
<1>5. \A i \in 1 .. Len(r) :
        \/ i \in 1 .. Len(q) /\ r[i] = q[i] /\ (Own(r, i) => Own(q, i))
        \/ /\ i \in Len(q) + 1 .. Len(q) + count
           /\ r[i].frame = n + 1 /\ r[i].index = i - Len(q) - 1 /\ r[i].count = count
  <2> TAKE i \in 1 .. Len(r)
  <2>1. CASE i \in 1 .. Len(q)
    BY <1>3, <2>1 DEF Own
  <2>2. CASE i \notin 1 .. Len(q)
    <3>1. i \in Len(q) + 1 .. Len(q) + count /\ i - Len(q) \in 1 .. count
      BY <1>3, <1>4, <2>2
    <3> QED
      BY <1>2, <1>3, <3>1
  <2> QED
    BY <2>1, <2>2
<1>6. \A i \in 1 .. Len(q) : q[i] \in Fragment
  OBVIOUS
<1>7. Proper(r, n + 1)
  <2> SUFFICES ASSUME NEW i \in 1 .. Len(r)
               PROVE  r[i].frame <= n + 1 /\ (Own(r, i) => r[i].index < r[i].count)
    BY DEF Proper
  <2>1. CASE i \in 1 .. Len(q) /\ r[i] = q[i] /\ (Own(r, i) => Own(q, i))
    BY <1>6, <2>1, SMTT(30) DEF Proper, Fragment
  <2>2. CASE i \in Len(q) + 1 .. Len(q) + count
             /\ r[i].frame = n + 1 /\ r[i].index = i - Len(q) - 1 /\ r[i].count = count
    BY <1>4, <2>2
  <2> QED
    BY <1>5, <2>1, <2>2
<1>8. Later(r, D)
  BY <1>5 DEF Later
<1>9. Ordered(r)
  <2> SUFFICES ASSUME NEW i \in 1 .. Len(r), NEW j \in 1 .. Len(r), i < j,
                      Own(r, i), Own(r, j)
               PROVE  Before(r[i], r[j])
    BY DEF Ordered
  <2>1. CASE i \in 1 .. Len(q) /\ j \in 1 .. Len(q)
    BY <1>5, <1>4, <2>1 DEF Ordered
  <2>2. CASE i \in 1 .. Len(q) /\ j \notin 1 .. Len(q)
    <3>1. r[j].frame = n + 1
      BY <1>5, <2>2
    <3>2. r[i] = q[i] /\ q[i].frame <= n /\ q[i].frame \in Nat
      BY <1>3, <1>6, <2>2 DEF Proper, Fragment
    <3> QED
      BY <3>1, <3>2 DEF Before
  <2>3. CASE i \notin 1 .. Len(q)
    <3>1. j \notin 1 .. Len(q)
      BY <1>3, <1>4, <2>3
    <3>2. /\ r[i].frame = n + 1 /\ r[i].index = i - Len(q) - 1 /\ r[i].count = count
          /\ r[j].frame = n + 1 /\ r[j].index = j - Len(q) - 1 /\ r[j].count = count
      BY <1>5, <2>3, <3>1
    <3> QED
      BY <1>3, <1>4, <3>2 DEF Before
  <2> QED
    BY <2>1, <2>2, <2>3
<1> QED
  BY <1>3, <1>7, <1>8, <1>9 DEF r, s

------------------------------------------------------------------------------
(* Receiving                                                                *)

LEMMA HeldType ==
  ASSUME NEW a \in Assembly, NEW f \in Fragment
  PROVE  HeldFor(a, f) \in Assembly
         /\ (HeldFor(a, f).pieces = a.pieces \/ HeldFor(a, f).pieces = << >>)
<1>1. NoAssembly \in Assembly /\ NoAssembly.pieces = << >>
  BY WireAssumption DEF NoAssembly, Assembly, Id
<1>2. Unexpired(a) \in {a, NoAssembly}
  BY DEF Unexpired
<1>3. CASE f.index = 0
  BY <1>3 DEF HeldFor, Assembly, Fragment
<1>4. CASE f.index # 0
  BY <1>1, <1>2, <1>4 DEF HeldFor
<1> QED
  BY <1>3, <1>4

\* The receiver delivers nothing but the frame whose last fragment it has got,
\* and the frame is its sender's.
LEMMA AcceptResult ==
  ASSUME assembly \in Assembly, NEW f \in Fragment, Accepts(f)
  PROVE  /\ assembly' \in Assembly
         /\ \/ delivered' = delivered
            \/ /\ f.frame # Foreign
               /\ f.index = f.count - 1
               /\ delivered' = delivered \union {f.frame}
<1> DEFINE held == HeldFor(assembly, f)
           extended == Extended(held, f)
<1>1. held \in Assembly
  BY HeldType
<1>2. PieceOf(f) \in Piece
  BY DEF PieceOf, Piece, Fragment
<1>3. /\ Append(held.pieces, PieceOf(f)) \in Seq(Piece)
      /\ Len(Append(held.pieces, PieceOf(f))) = Len(held.pieces) + 1
      /\ DOMAIN Append(held.pieces, PieceOf(f)) = 1 .. Len(held.pieces) + 1
      /\ Append(held.pieces, PieceOf(f))[Len(held.pieces) + 1] = PieceOf(f)
  <2>1. held.pieces \in Seq(Piece)
    BY <1>1 DEF Assembly
  <2> QED
    BY <1>2, <2>1, AppendElements
<1>4. /\ extended \in Assembly
      /\ extended.pieces = Append(held.pieces, PieceOf(f))
      /\ extended.count = held.count
  BY <1>1, <1>3 DEF Extended, Assembly
<1>5. NoAssembly \in Assembly
  BY WireAssumption DEF NoAssembly, Assembly, Id
<1>6. CASE Malformed(f) \/ ~Continues(held, f)
  BY <1>5, <1>6 DEF Accepts, Refuses
<1>7. CASE ~(Malformed(f) \/ ~Continues(held, f))
  <2> HIDE DEF held, extended
  <2>1. CASE /\ assembly' = extended
             /\ UNCHANGED <<delivered, failing>>
    BY <1>4, <2>1
  <2>2. CASE Refuses(f)
    BY <1>5, <2>2 DEF Refuses
  <2>3. CASE /\ Len(extended.pieces) = extended.count
             /\ Decodes(extended.pieces)
             /\ assembly' = NoAssembly
             /\ delivered' = delivered \union {WholeFrame(extended.pieces)}
    <3> DEFINE n == Len(held.pieces) + 1
    <3>1. Len(held.pieces) = f.index /\ held.count = f.count
      BY <1>7 DEF Continues
    <3>2. f.index = f.count - 1 /\ n \in Nat
      BY <1>3, <1>4, <2>3, <3>1 DEF Fragment
    <3>3. extended.pieces[n].frame = f.frame /\ n \in DOMAIN extended.pieces
      BY <1>3, <1>4, <3>1, <3>2 DEF PieceOf, Fragment
    <3> HIDE DEF n
    <3>4. \A i \in DOMAIN extended.pieces :
            extended.pieces[i].frame = extended.pieces[1].frame
      <4>1. \A i \in DOMAIN extended.pieces :
              extended.pieces[i] = [frame |-> extended.pieces[1].frame, index |-> i - 1]
        BY <2>3 DEF Decodes, WholeFrame
      <4> TAKE i \in DOMAIN extended.pieces
      <4>2. extended.pieces[i] =
              [frame |-> extended.pieces[1].frame, index |-> i - 1]
        BY <4>1
      <4> QED
        BY <4>2
    <3>5. WholeFrame(extended.pieces) = f.frame /\ f.frame # Foreign
      BY <2>3, <3>3, <3>4 DEF Decodes, WholeFrame
    <3> QED
      BY <1>5, <2>3, <3>2, <3>5
  <2> QED
    BY <1>7, <2>1, <2>2, <2>3 DEF Accepts, held, extended
<1> QED
  BY <1>6, <1>7

------------------------------------------------------------------------------
(* Every step                                                               *)

LEMMA ChannelRest ==
  ASSUME StreamInv, channel # << >>, channel' = Tail(channel),
         UNCHANGED <<direction, begun, nextId, sending, delivered>>, assembly' \in Assembly
  PROVE  StreamInv'
<1>1. /\ Tail(channel) \in Seq(Fragment)
      /\ Ordered(Tail(channel)) /\ Proper(Tail(channel), begun)
      /\ Later(Tail(channel), delivered)
  BY TailOrder DEF StreamInv, Types
<1>2. AllBefore(channel, sending) => AllBefore(Tail(channel), sending)
  <2>1. Len(Tail(channel)) = Len(channel) - 1 /\ Len(channel) \in Nat
        /\ \A i \in 1 .. Len(Tail(channel)) : Tail(channel)[i] = channel[i + 1]
    BY TailElements DEF StreamInv, Types
  <2> QED
    BY <2>1 DEF AllBefore, Own
<1> QED
  BY <1>1, <1>2 DEF StreamInv, Types, SendingOrder

\* A frame is delivered with its last fragment, so that nothing of it, and
\* nothing before it, comes after it.
LEMMA DeliverStep ==
  ASSUME StreamInv, channel # << >>, channel' = Tail(channel),
         UNCHANGED <<direction, begun, nextId, sending>>, assembly' \in Assembly,
         Head(channel).frame # Foreign, Head(channel).index = Head(channel).count - 1,
         delivered' = delivered \union {Head(channel).frame}
  PROVE  StreamInv' /\ Stream!Deliver(Head(channel).frame)
<1> DEFINE f == Head(channel)
           rest == Tail(channel)
<1>1. /\ rest \in Seq(Fragment)
      /\ Ordered(rest) /\ Proper(rest, begun) /\ Later(rest, delivered)
      /\ f \in Fragment /\ f.frame <= begun
      /\ f.index < f.count
      /\ \A d \in delivered : d < f.frame
      /\ \A i \in 1 .. Len(rest) : Own(rest, i) => Before(f, rest[i])
  BY TailOrder DEF StreamInv, Types
<1>2. begun \in Nat /\ f.frame \in 1 .. begun
  BY <1>1, SMTT(30) DEF Fragment, Foreign, StreamInv, Types
<1>3. \A i \in 1 .. Len(rest) : Own(rest, i) => f.frame < rest[i].frame
  <2> SUFFICES ASSUME NEW i \in 1 .. Len(rest), Own(rest, i) PROVE f.frame < rest[i].frame
    OBVIOUS
  <2>1. Before(f, rest[i]) /\ rest[i] \in Fragment /\ rest[i].index < rest[i].count
    BY <1>1 DEF Proper
  <2>2. f.index = f.count - 1
    OBVIOUS
  <2> HIDE DEF f, rest
  <2> QED
    BY <1>1, <2>1, <2>2, LastIsBefore
<1>4. sending # NotSending => Before(f, sending) /\ sending.index < sending.count
  <2>1. f = channel[1] /\ 1 \in 1 .. Len(channel)
    BY TailElements DEF StreamInv, Types
  <2>2. Own(channel, 1)
    BY <2>1 DEF Own
  <2> HIDE DEF f
  <2> QED
    BY <2>1, <2>2 DEF StreamInv, SendingOrder, AllBefore
<1>5. sending # NotSending => f.frame < sending.frame
  BY <1>1, <1>4, SMTT(30) DEF Before, Fragment, StreamInv, Types
<1>6. AllBefore(channel, sending) => AllBefore(rest, sending)
  <2>1. Len(rest) = Len(channel) - 1 /\ Len(channel) \in Nat
        /\ \A i \in 1 .. Len(rest) : rest[i] = channel[i + 1]
    BY TailElements DEF StreamInv, Types
  <2> QED
    BY <2>1 DEF AllBefore, Own
<1> HIDE DEF f, rest
<1>7. channel' = rest /\ delivered' = delivered \union {f.frame}
  BY DEF f, rest
<1>8. Later(rest, delivered \union {f.frame})
  BY <1>1, <1>3 DEF Later
<1>9. SendingOrder'
  BY <1>5, <1>6, <1>7 DEF SendingOrder, StreamInv
<1>10. StreamInv'
  BY <1>1, <1>2, <1>7, <1>8, <1>9 DEF StreamInv, Types
<1>11. Stream!Deliver(f.frame)
  BY <1>1, <1>2, <1>7 DEF Stream!Deliver
<1> QED
  BY <1>10, <1>11 DEF f

\* A step that leaves the fragments and the receiver's frames alone.
LEMMA StreamStill ==
  ASSUME StreamInv, UNCHANGED <<direction, channel, begun, delivered>>,
         nextId' \in Id, assembly' \in Assembly, sending' \in {sending, NotSending}
  PROVE  StreamInv'
<1>1. NotSending \in Fragment
  BY WireAssumption DEF NotSending, Fragment, Id
<1> QED
  BY <1>1 DEF StreamInv, Types, SendingOrder

LEMMA NotifyStep == ASSUME StreamInv, DeviceNotifies PROVE StreamInv'
<1>1. /\ sending # NotSending /\ channel' = Append(channel, sending)
      /\ UNCHANGED <<direction, begun, nextId, assembly, delivered>>
  BY DEF DeviceNotifies
<1>2. /\ channel \in Seq(Fragment) /\ sending \in Fragment /\ begun \in Nat
      /\ delivered \in SUBSET Nat /\ sending.frame <= begun
      /\ sending.index < sending.count /\ AllBefore(channel, sending)
      /\ \A d \in delivered : d < sending.frame
      /\ direction = "mac" /\ sending.frame \in 1 .. begun
  BY <1>1 DEF StreamInv, Types, SendingOrder
<1>3. /\ channel' \in Seq(Fragment)
      /\ Ordered(channel') /\ Proper(channel', begun) /\ Later(channel', delivered)
  <2>1. Ordered(channel) /\ Proper(channel, begun) /\ Later(channel, delivered)
    BY DEF StreamInv
  <2> QED
    BY <1>1, <1>2, <2>1, AppendOrder
<1>4. CASE sending.index + 1 = sending.count
  <2>1. sending' = NotSending
    BY <1>4 DEF DeviceNotifies
  <2>2. NotSending \in Fragment
    BY WireAssumption DEF NotSending, Fragment, Id
  <2> QED
    BY <1>1, <1>3, <2>1, <2>2 DEF StreamInv, Types, SendingOrder
<1>5. CASE sending.index + 1 # sending.count
  <2>1. sending' = [sending EXCEPT !.index = sending.index + 1]
    BY <1>5 DEF DeviceNotifies
  <2>2. /\ sending' \in Fragment /\ sending'.frame = sending.frame
        /\ sending'.index = sending.index + 1 /\ sending'.count = sending.count
    BY <1>2, <2>1, NextFragment
  <2>3. sending'.index < sending'.count
    BY <1>2, <1>5, <2>2 DEF Fragment
  <2>4. AllBefore(channel', sending')
    <3> SUFFICES ASSUME NEW i \in 1 .. Len(channel'), Own(channel', i)
                 PROVE  Before(channel'[i], sending')
      BY DEF AllBefore
    <3>1. Len(channel) \in Nat /\ Len(channel') = Len(channel) + 1
          /\ (\A k \in 1 .. Len(channel) : channel'[k] = channel[k])
          /\ channel'[Len(channel) + 1] = sending
      BY <1>1, <1>2, AppendElements
    <3>2. CASE i \in 1 .. Len(channel)
      <4>1. channel'[i] = channel[i] /\ Own(channel, i)
        BY <3>1, <3>2 DEF Own
      <4>2. channel[i] \in Fragment /\ Before(channel[i], sending)
        BY <1>2, <3>2, <4>1 DEF AllBefore
      <4> QED
        BY <1>2, <2>2, <4>1, <4>2 DEF Before, Fragment
    <3>3. CASE i = Len(channel) + 1
      BY <1>2, <2>2, <3>1, <3>3 DEF Before, Fragment
    <3> QED
      BY <3>1, <3>2, <3>3
  <2>5. SendingOrder'
    BY <1>1, <1>2, <2>2, <2>3, <2>4 DEF SendingOrder
  <2> QED
    BY <1>1, <1>3, <2>2, <2>5 DEF StreamInv, Types
<1> QED
  BY <1>4, <1>5

LEMMA NextIdType == ASSUME NEW id \in Id PROVE NextIdAfter(id) \in Id
  BY WireAssumption DEF NextIdAfter, Id

\* The types and the order are kept, and every step is one of the stream's or
\* leaves what it is about alone.
LEMMA StreamStep ==
  ASSUME StreamInv, [Next]_vars
  PROVE  StreamInv' /\ [Stream!StreamNext]_<<begun, delivered>>
<1> DEFINE Goal == StreamInv' /\ [Stream!StreamNext]_<<begun, delivered>>
<1>0. /\ begun \in Nat /\ channel \in Seq(Fragment) /\ sending \in Fragment
      /\ assembly \in Assembly /\ nextId \in Id /\ delivered \in SUBSET Nat
      /\ delivered \in SUBSET (1 .. begun)
      /\ NoAssembly \in Assembly
  BY WireAssumption DEF StreamInv, Types, NoAssembly, Assembly, Id
<1>1. ASSUME NEW count \in 1 .. MaxFragments, MacSends(count) PROVE Goal
  <2>1. /\ direction = "device" /\ begun' = begun + 1
        /\ channel' = channel \o Fragments(begun + 1, nextId, count)
        /\ nextId' = NextIdAfter(nextId)
        /\ UNCHANGED <<direction, sending, assembly, delivered>>
    BY <1>1 DEF MacSends
  <2>2. /\ channel' \in Seq(Fragment)
        /\ Ordered(channel') /\ Proper(channel', begun') /\ Later(channel', delivered)
    <3>1. Ordered(channel) /\ Proper(channel, begun) /\ Later(channel, delivered)
          /\ count \in Nat
      BY WireAssumption DEF StreamInv
    <3> QED
      BY <1>0, <2>1, <3>1, FragmentsOrder
  <2>3. sending = NotSending
    BY <2>1 DEF StreamInv, SendingOrder
  <2>4. Stream!Send
    BY <2>1 DEF Stream!Send
  <2> QED
    BY <1>0, <2>1, <2>2, <2>3, <2>4, NextIdType DEF StreamInv, Types, SendingOrder, Stream!StreamNext
<1>2. ASSUME NEW count \in 1 .. MaxFragments, DeviceSends(count) PROVE Goal
  <2>1. /\ direction = "mac" /\ begun' = begun + 1
        /\ sending' = FragmentOf(begun + 1, nextId, 0, count)
        /\ nextId' = NextIdAfter(nextId)
        /\ UNCHANGED <<direction, channel, assembly, delivered>>
    BY <1>2 DEF DeviceSends
  <2>2. /\ sending' \in Fragment /\ sending'.frame = begun + 1 /\ sending'.index = 0
        /\ sending'.count = count
    BY <1>0, <2>1, WireAssumption DEF FragmentOf, Fragment
  <2>3. AllBefore(channel, sending')
    <3>1. \A i \in 1 .. Len(channel) : channel[i] \in Fragment /\ channel[i].frame <= begun
      BY <1>0 DEF StreamInv, Proper
    <3> QED
      BY <1>0, <2>2, <3>1, SMTT(30) DEF AllBefore, Before, Fragment
  <2>4. SendingOrder'
    BY <1>0, <2>1, <2>2, <2>3 DEF SendingOrder
  <2>5. Proper(channel, begun + 1)
    <3> SUFFICES ASSUME NEW i \in 1 .. Len(channel)
                 PROVE  /\ channel[i].frame <= begun + 1
                        /\ Own(channel, i) => channel[i].index < channel[i].count
      BY DEF Proper
    <3>0. channel[i] \in Fragment
      BY <1>0
    <3>1. channel[i].frame \in Int /\ begun \in Int
      BY <1>0, <3>0 DEF Fragment
    <3>2. /\ channel[i].frame <= begun
          /\ Own(channel, i) => channel[i].index < channel[i].count
      BY DEF StreamInv, Proper
    <3> QED
      BY <3>1, <3>2
  <2>6. Stream!Send
    BY <2>1 DEF Stream!Send
  <2> QED
    BY <1>0, <2>1, <2>2, <2>4, <2>5, <2>6, NextIdType DEF StreamInv, Types, Stream!StreamNext
<1>3. CASE DeviceSendRefused
  BY <1>0, <1>3, StreamStill, NextIdType DEF DeviceSendRefused
<1>4. CASE DeviceNotifies
  BY <1>4, NotifyStep DEF DeviceNotifies
<1>5. CASE DeviceNotifyFails
  BY <1>0, <1>5, StreamStill DEF DeviceNotifyFails
<1>6. ASSUME NEW id \in Id, NEW index \in 0 .. MaxFragments, ForeignWrite(id, index)
      PROVE  Goal
  <2> DEFINE f == FragmentOf(Foreign, id, index, MaxFragments)
  <2>1. direction = "device" /\ channel' = Append(channel, f)
        /\ UNCHANGED <<direction, begun, nextId, sending, assembly, delivered>>
    BY <1>6 DEF ForeignWrite
  <2>2. f \in Fragment /\ f.frame = Foreign /\ f.frame <= begun
    BY <1>0, WireAssumption DEF FragmentOf, Fragment, Foreign
  <2> HIDE DEF f
  <2>3. /\ channel' \in Seq(Fragment)
        /\ Ordered(channel') /\ Proper(channel', begun) /\ Later(channel', delivered)
    <3>1. Ordered(channel) /\ Proper(channel, begun) /\ Later(channel, delivered)
      BY DEF StreamInv
    <3> QED
      BY <1>0, <2>1, <2>2, <3>1, AppendOrder
  <2>4. sending = NotSending
    BY <2>1 DEF StreamInv, SendingOrder
  <2> QED
    BY <2>1, <2>3, <2>4 DEF StreamInv, Types, SendingOrder
<1>7. CASE Receive
  <2>1. /\ channel # << >> /\ channel' = Tail(channel) /\ Accepts(Head(channel))
        /\ UNCHANGED <<direction, begun, nextId, sending>>
    BY <1>7 DEF Receive
  <2>2. Head(channel) \in Fragment
    BY <1>0, <2>1, TailElements
  <2>3. /\ assembly' \in Assembly
        /\ \/ delivered' = delivered
           \/ /\ Head(channel).frame # Foreign
              /\ Head(channel).index = Head(channel).count - 1
              /\ delivered' = delivered \union {Head(channel).frame}
    BY <1>0, <2>1, <2>2, AcceptResult
  <2>4. CASE delivered' = delivered
    BY <2>1, <2>3, <2>4, ChannelRest
  <2>5. CASE delivered' # delivered
    <3>1. StreamInv' /\ Stream!Deliver(Head(channel).frame)
      BY <2>1, <2>3, <2>5, DeliverStep
    <3> QED
      BY <3>1 DEF Stream!StreamNext, Stream!Deliver
  <2> QED
    BY <2>4, <2>5
<1>8. CASE ReceiveFails
  BY <1>0, <1>8, ChannelRest DEF ReceiveFails
<1>9. CASE Tick
  <2>1. assembly' \in Assembly
    BY <1>0, <1>9, Older DEF Tick
  <2> QED
    BY <1>0, <1>9, <2>1, StreamStill DEF Tick
<1>10. CASE Connect
  <2>1. nextId' \in Id
    BY <1>0, <1>10, WireAssumption DEF Connect, Id
  <2> QED
    BY <1>0, <1>10, <2>1, StreamStill DEF Connect
<1>11. CASE Disconnect
  <2>1. channel' = << >> /\ assembly' = NoAssembly
        /\ UNCHANGED <<direction, begun, nextId, sending, delivered>>
    BY <1>11 DEF Disconnect
  <2>2. << >> \in Seq(Fragment) /\ Len(<< >>) = 0
    OBVIOUS
  <2> QED
    BY <1>0, <2>1, <2>2 DEF StreamInv, Types, SendingOrder, Ordered, Proper, Later, AllBefore
<1>12. CASE UNCHANGED vars
  BY <1>0, <1>12, StreamStill DEF vars
<1> QED
  BY <1>1, <1>2, <1>3, <1>4, <1>5, <1>6, <1>7, <1>8, <1>9, <1>10, <1>11, <1>12 DEF Next

LEMMA StreamStarts == Init => StreamInv /\ Stream!StreamInit
<1> SUFFICES ASSUME Init PROVE StreamInv /\ Stream!StreamInit
  OBVIOUS
<1>1. << >> \in Seq(Fragment) /\ Len(<< >>) = 0
  OBVIOUS
<1>2. NotSending \in Fragment /\ NoAssembly \in Assembly /\ 0 \in Id
  BY WireAssumption DEF NotSending, Fragment, NoAssembly, Assembly, Id
<1>3. QED BY <1>1, <1>2 DEF Init, StreamInv, Types, SendingOrder, Ordered, Proper, Later,
                            Stream!StreamInit

\* The fragments implement the stream of frames: nothing is delivered in part,
\* twice or out of order, whatever is cut short, mixed in, expires or is carried
\* over a reconnection.
THEOREM WireImplementsStream == Spec => FramesAreAStream
<1>1. Init => StreamInv /\ Stream!StreamInit
  BY StreamStarts
<1>2. StreamInv /\ [Next]_vars => StreamInv' /\ [Stream!StreamNext]_<<begun, delivered>>
  BY StreamStep
<1> QED
  BY <1>1, <1>2, PTL DEF Spec, FramesAreAStream, Stream!StreamSpec, Stream!streamVars

------------------------------------------------------------------------------
(* A frame to which nothing happened                                        *)

\* The second is the fragment that comes after the first in its frame.
Follows(a, b) ==
  b.frame = a.frame /\ b.id = a.id /\ b.count = a.count /\ b.index = a.index + 1

\* A fragment of a frame that nothing has happened to.
Whole(f, D) == f.frame # Foreign /\ f.frame \notin D

\* The receiver holds exactly what came before the fragment.
HeldIs(a, f) ==
  /\ a.active /\ a.age <= ReassemblyTimeout
  /\ a.id = f.id /\ a.count = f.count
  /\ Len(a.pieces) = f.index
  /\ \A j \in 1 .. f.index : a.pieces[j] = [frame |-> f.frame, index |-> j - 1]

\* Behind each fragment but the last of its frame comes the next one, on its way
\* or about to be sent ...
RunsOn(q, s, D) ==
  \A i \in 1 .. Len(q) : Whole(q[i], D) /\ q[i].index + 1 # q[i].count =>
    IF i < Len(q) THEN Follows(q[i], q[i + 1]) ELSE Follows(q[i], s)

\* ... and before each but the first comes the one before it, or the receiver
\* holds all of them.
Continued(q, s, a, D) ==
  /\ \A i \in 1 .. Len(q) : Whole(q[i], D) /\ q[i].index # 0 =>
       IF i = 1 THEN HeldIs(a, q[1]) ELSE Follows(q[i - 1], q[i])
  /\ s # NotSending /\ Whole(s, D) /\ s.index # 0 =>
       IF Len(q) = 0 THEN HeldIs(a, s) ELSE Follows(q[Len(q)], s)

Unbroken(q, s, a, D) == RunsOn(q, s, D) /\ Continued(q, s, a, D)

\* Nothing is on its way while there is no connection, and what the device still
\* wants to send is part of a frame that is lost.
Quiet ==
  ~connected => /\ channel = << >> /\ assembly = NoAssembly
                /\ sending # NotSending => sending.frame \in damaged

IntactInv ==
  /\ StreamInv
  /\ Unbroken(channel, sending, assembly, damaged)
  /\ Quiet
  /\ IntactDelivered

\* More damage, or a receiver that holds the same of what is not damaged.
LEMMA UnbrokenStill ==
  ASSUME NEW q, NEW s, NEW a, NEW b, NEW D, NEW E, D \subseteq E, Unbroken(q, s, a, D),
         \A f : Whole(f, E) /\ f.index # 0 /\ HeldIs(a, f) => HeldIs(b, f)
  PROVE  Unbroken(q, s, b, E)
<1>1. \A f : Whole(f, E) => Whole(f, D)
  BY DEF Whole
<1>2. RunsOn(q, s, E)
  BY <1>1 DEF Unbroken, RunsOn
<1>3. Continued(q, s, b, E)
  BY <1>1 DEF Unbroken, Continued
<1>4. QED BY <1>2, <1>3 DEF Unbroken

LEMMA NotFollowed ==
  ASSUME NEW f, NEW D, Whole(f, D) PROVE ~Follows(f, NotSending)
BY DEF Whole, Follows, NotSending, Foreign

\* The device begins to send, or gives up.
LEMMA SenderChanges ==
  ASSUME NEW q \in Seq(Fragment), NEW s, NEW t, NEW a, NEW D, NEW E, D \subseteq E,
         Unbroken(q, s, a, D),
         \/ s = NotSending /\ t.index = 0
         \/ s.frame \in E /\ t = NotSending
  PROVE  Unbroken(q, t, a, E)
<1>1. \A f : Whole(f, E) => Whole(f, D)
  BY DEF Whole
<1>2. Len(q) \in Nat
  OBVIOUS
<1>3. \A f : Whole(f, E) => ~Follows(f, s)
  <2>1. CASE s = NotSending
    BY <1>1, <2>1, NotFollowed
  <2>2. CASE s.frame \in E
    BY <2>2 DEF Whole, Follows
  <2>3. QED BY <2>1, <2>2
<1>4. RunsOn(q, t, E)
  BY <1>1, <1>2, <1>3 DEF Unbroken, RunsOn
<1>5. Continued(q, t, a, E)
  BY <1>1, <1>2 DEF Unbroken, Continued
<1>6. QED BY <1>4, <1>5 DEF Unbroken

\* A fragment goes out: the one that the device was about to send, or a foreign
\* one.
LEMMA AppendUnbroken ==
  ASSUME NEW q \in Seq(Fragment), NEW f \in Fragment, NEW s, NEW t, NEW a, NEW D,
         Unbroken(q, s, a, D),
         f = s \/ (s = NotSending /\ f.frame = Foreign),
         f # NotSending,
         Whole(f, D) /\ f.index + 1 # f.count => Follows(f, t),
         t # NotSending => Follows(f, t)
  PROVE  Unbroken(Append(q, f), t, a, D)
<1> DEFINE r == Append(q, f)
           n == Len(q)
<1>1. /\ r \in Seq(Fragment) /\ n \in Nat /\ Len(r) = n + 1
      /\ \A i \in 1 .. n : r[i] = q[i]
      /\ r[n + 1] = f
  BY AppendElements
<1>2. \A i \in 1 .. n + 1 : i \in 1 .. n \/ i = n + 1
  BY <1>1
<1>3. n = Len(q)
  OBVIOUS
<1> HIDE DEF r, n
<1>4. RunsOn(r, t, D)
  <2> SUFFICES ASSUME NEW i \in 1 .. n + 1, Whole(r[i], D), r[i].index + 1 # r[i].count
               PROVE  IF i < n + 1 THEN Follows(r[i], r[i + 1]) ELSE Follows(r[i], t)
    BY <1>1 DEF RunsOn
  <2>1. CASE i = n + 1
    BY <1>1, <2>1
  <2>2. CASE i \in 1 .. n /\ i < n
    <3>1. i + 1 \in 1 .. n
      BY <1>1, <2>2
    <3>2. Follows(q[i], q[i + 1])
      BY <1>1, <1>3, <2>2 DEF Unbroken, RunsOn
    <3>3. QED BY <1>1, <2>2, <3>1, <3>2
  <2>3. CASE i = n /\ i \in 1 .. n
    <3>1. Follows(q[n], s)
      BY <1>1, <1>3, <2>3 DEF Unbroken, RunsOn
    <3>2. s # NotSending
      BY <1>1, <2>3, <3>1, NotFollowed
    <3>3. f = s
      BY <3>2
    <3>4. QED BY <1>1, <2>3, <3>1, <3>3
  <2>4. QED BY <1>1, <1>2, <2>1, <2>2, <2>3
<1>5. Continued(r, t, a, D)
  <2>1. ASSUME NEW i \in 1 .. n + 1, Whole(r[i], D), r[i].index # 0
        PROVE  IF i = 1 THEN HeldIs(a, r[1]) ELSE Follows(r[i - 1], r[i])
    <3>1. CASE i \in 1 .. n
      <4>1. IF i = 1 THEN HeldIs(a, q[1]) ELSE Follows(q[i - 1], q[i])
        BY <1>1, <1>3, <2>1, <3>1 DEF Unbroken, Continued
      <4>2. i # 1 => i - 1 \in 1 .. n
        BY <1>1, <3>1
      <4>3. QED BY <1>1, <3>1, <4>1, <4>2
    <3>2. CASE i = n + 1
      <4>1. f = s
        BY <1>1, <2>1, <3>2 DEF Whole
      <4>2. IF n = 0 THEN HeldIs(a, f) ELSE Follows(q[n], f)
        BY <1>1, <1>3, <2>1, <3>2, <4>1 DEF Unbroken, Continued
      <4>3. n # 0 => n \in 1 .. n
        BY <1>1
      <4>4. QED BY <1>1, <3>2, <4>2, <4>3
    <3>3. QED BY <1>2, <3>1, <3>2
  <2>2. QED BY <1>1, <2>1 DEF Continued
<1>6. QED BY <1>4, <1>5 DEF Unbroken, r

\* The first fragment arrives: if it is whole and not its frame's last, the
\* receiver then holds what comes before the next one.
LEMMA TailUnbroken ==
  ASSUME NEW q \in Seq(Fragment), NEW s, NEW a, NEW b, NEW D, NEW E, D \subseteq E,
         q # << >>, Unbroken(q, s, a, D),
         \A i \in 1 .. Len(q) : Whole(q[i], D) => q[i].index < q[i].count,
         s # NotSending => s.index < s.count,
         Whole(Head(q), E) /\ Head(q).index + 1 # Head(q).count =>
           \A f : Follows(Head(q), f) => HeldIs(b, f)
  PROVE  Unbroken(Tail(q), s, b, E)
<1> DEFINE r == Tail(q)
           n == Len(Tail(q))
           h == Head(q)
<1>1. /\ h \in Fragment /\ h = q[1] /\ r \in Seq(Fragment)
      /\ n \in Nat /\ Len(r) = n /\ Len(q) = n + 1
      /\ \A i \in 1 .. n : r[i] = q[i + 1]
      /\ \A i \in 1 .. n + 1 : q[i] \in Fragment
  BY TailElements
<1>2. \A f : Whole(f, E) => Whole(f, D)
  BY DEF Whole
<1>3. ASSUME NEW f, Follows(h, f), Whole(f, E), f.index < f.count
      PROVE  HeldIs(b, f)
  <2>1. Whole(h, E) /\ h.index + 1 # h.count
    BY <1>1, <1>3 DEF Whole, Follows, Fragment
  <2>2. QED BY <1>3, <2>1
<1> HIDE DEF r, n, h
<1>4. RunsOn(r, s, E)
  <2> SUFFICES ASSUME NEW i \in 1 .. n, Whole(r[i], E), r[i].index + 1 # r[i].count
               PROVE  IF i < n THEN Follows(r[i], r[i + 1]) ELSE Follows(r[i], s)
    BY <1>1 DEF RunsOn
  <2>1. i + 1 \in 1 .. n + 1 /\ r[i] = q[i + 1] /\ Whole(q[i + 1], D)
    BY <1>1, <1>2
  <2>2. IF i + 1 < n + 1 THEN Follows(q[i + 1], q[i + 1 + 1]) ELSE Follows(q[i + 1], s)
    BY <1>1, <2>1 DEF Unbroken, RunsOn
  <2>3. i < n => i + 1 \in 1 .. n
    BY <1>1
  <2>4. QED BY <1>1, <2>1, <2>2, <2>3
<1>5. ASSUME NEW i \in 1 .. n, Whole(r[i], E), r[i].index # 0
      PROVE  IF i = 1 THEN HeldIs(b, r[1]) ELSE Follows(r[i - 1], r[i])
  <2>1. i + 1 \in 1 .. n + 1 /\ r[i] = q[i + 1] /\ Whole(q[i + 1], D) /\ i + 1 # 1
    BY <1>1, <1>2, <1>5
  <2>2. Follows(q[i + 1 - 1], q[i + 1])
    BY <1>1, <1>5, <2>1 DEF Unbroken, Continued
  <2>3. i + 1 - 1 = i
    BY <1>1
  <2>4. CASE i = 1
    <3>1. Follows(h, r[1]) /\ r[1].index < r[1].count
      BY <1>1, <2>1, <2>2, <2>3, <2>4
    <3>2. QED BY <1>3, <1>5, <2>4, <3>1
  <2>5. CASE i # 1
    <3>1. i - 1 \in 1 .. n /\ i - 1 + 1 = i
      BY <1>1, <2>5
    <3>2. r[i - 1] = q[i]
      BY <1>1, <3>1
    <3>3. QED BY <2>1, <2>2, <2>3, <2>5, <3>2
  <2>6. QED BY <2>4, <2>5
<1>6. ASSUME s # NotSending, Whole(s, E), s.index # 0
      PROVE  IF n = 0 THEN HeldIs(b, s) ELSE Follows(r[n], s)
  <2>1. Follows(q[n + 1], s)
    BY <1>1, <1>2, <1>6 DEF Unbroken, Continued
  <2>2. CASE n = 0
    BY <1>1, <1>3, <1>6, <2>1, <2>2
  <2>3. CASE n # 0
    <3>1. n \in 1 .. n
      BY <1>1, <2>3
    <3>2. QED BY <1>1, <2>1, <2>3, <3>1
  <2>4. QED BY <2>2, <2>3
<1>7. Continued(r, s, b, E)
  BY <1>1, <1>5, <1>6 DEF Continued
<1>8. QED BY <1>4, <1>7 DEF Unbroken, r

\* The Mac hands over all fragments of a frame.
LEMMA ConcatUnbroken ==
  ASSUME NEW q \in Seq(Fragment), NEW a, NEW D, NEW frame \in Nat, NEW id \in Id,
         NEW count \in Nat, Unbroken(q, NotSending, a, D)
  PROVE  Unbroken(q \o Fragments(frame, id, count), NotSending, a, D)
<1> DEFINE c == Fragments(frame, id, count)
           r == q \o c
           n == Len(q)
<1>1. c \in Seq(Fragment) /\ Len(c) = count
  BY DEF Fragments, Fragment, FragmentOf
<1>2. \A i \in 1 .. count : /\ c[i].frame = frame /\ c[i].id = id
                            /\ c[i].index = i - 1 /\ c[i].count = count
  BY DEF Fragments, FragmentOf
<1> HIDE DEF c
<1>3. /\ r \in Seq(Fragment) /\ n \in Nat /\ Len(r) = n + count
      /\ \A i \in 1 .. n : r[i] = q[i]
      /\ \A i \in n + 1 .. n + count : r[i] = c[i - n]
  <2>1. Len(q) \in Nat
    OBVIOUS
  <2>2. /\ q \o c \in Seq(Fragment)
        /\ Len(q \o c) = Len(q) + Len(c)
        /\ \A i \in 1 .. Len(q) : (q \o c)[i] = q[i]
        /\ \A i \in Len(q) + 1 .. Len(q) + Len(c) : (q \o c)[i] = c[i - Len(q)]
    BY <1>1, ConcatElements, Zenon
  <2>3. QED BY <1>1, <2>1, <2>2
<1>4. n = Len(q)
  OBVIOUS
<1> HIDE DEF r, n
<1>5. \A i \in 1 .. n + count :
        \/ i \in 1 .. n /\ r[i] = q[i]
        \/ /\ i \in n + 1 .. n + count
           /\ r[i].frame = frame /\ r[i].id = id /\ r[i].count = count
           /\ r[i].index = i - n - 1
  <2> TAKE i \in 1 .. n + count
  <2>1. CASE i \in 1 .. n
    BY <1>3, <2>1
  <2>2. CASE i \notin 1 .. n
    <3>1. i \in n + 1 .. n + count /\ i - n \in 1 .. count
      BY <1>3, <2>2
    <3>2. QED BY <1>2, <1>3, <3>1
  <2>3. QED BY <2>1, <2>2
<1>6. ASSUME NEW i \in 1 .. n + count, Whole(r[i], D), r[i].index + 1 # r[i].count
      PROVE  IF i < n + count THEN Follows(r[i], r[i + 1]) ELSE Follows(r[i], NotSending)
  <2>1. CASE i \in 1 .. n
    <3>1. IF i < n THEN Follows(q[i], q[i + 1]) ELSE Follows(q[i], NotSending)
      BY <1>3, <1>4, <1>6, <2>1 DEF Unbroken, RunsOn
    <3>2. i < n
      BY <1>3, <1>6, <2>1, <3>1, NotFollowed
    <3>3. i + 1 \in 1 .. n /\ i < n + count
      BY <1>3, <2>1, <3>2
    <3>4. QED BY <1>3, <2>1, <3>1, <3>2, <3>3
  <2>2. CASE i \notin 1 .. n
    <3>1. /\ i \in n + 1 .. n + count /\ r[i].index = i - n - 1
          /\ r[i].frame = frame /\ r[i].id = id /\ r[i].count = count
      BY <1>5, <2>2
    <3>2. i < n + count /\ i + 1 \in n + 1 .. n + count /\ i + 1 \in 1 .. n + count
          /\ i + 1 \notin 1 .. n
      BY <1>3, <1>6, <3>1
    <3>3. /\ r[i + 1].index = i + 1 - n - 1
          /\ r[i + 1].frame = frame /\ r[i + 1].id = id /\ r[i + 1].count = count
      <4> DEFINE k == i + 1
      <4> HIDE DEF k
      <4>1. k = i + 1
        BY DEF k
      <4>2. k \in 1 .. n + count /\ k \notin 1 .. n
        BY <3>2, <4>1
      <4>3. /\ r[k].index = k - n - 1
            /\ r[k].frame = frame /\ r[k].id = id /\ r[k].count = count
        BY <1>5, <4>2
      <4>4. QED BY <1>3, <4>1, <4>3
    <3>4. i + 1 - n - 1 = i - n - 1 + 1
      BY <1>3
    <3>5. QED BY <3>1, <3>2, <3>3, <3>4 DEF Follows
  <2>3. QED BY <2>1, <2>2
<1>7. ASSUME NEW i \in 1 .. n + count, Whole(r[i], D), r[i].index # 0
      PROVE  IF i = 1 THEN HeldIs(a, r[1]) ELSE Follows(r[i - 1], r[i])
  <2>1. CASE i \in 1 .. n
    <3>1. IF i = 1 THEN HeldIs(a, q[1]) ELSE Follows(q[i - 1], q[i])
      BY <1>3, <1>4, <1>7, <2>1 DEF Unbroken, Continued
    <3>2. i # 1 => i - 1 \in 1 .. n
      BY <1>3, <2>1
    <3>3. QED BY <1>3, <2>1, <3>1, <3>2
  <2>2. CASE i \notin 1 .. n
    <3>1. /\ i \in n + 1 .. n + count /\ r[i].index = i - n - 1
          /\ r[i].frame = frame /\ r[i].id = id /\ r[i].count = count
      BY <1>5, <2>2
    <3>2. i - n - 1 # 0
      BY <1>7, <3>1
    <3>5. i - 1 \in n + 1 .. n + count /\ i - 1 \in 1 .. n + count /\ i - 1 \notin 1 .. n
          /\ i # 1
      BY <1>3, <3>1, <3>2
    <3>3. /\ r[i - 1].index = i - 1 - n - 1
          /\ r[i - 1].frame = frame /\ r[i - 1].id = id /\ r[i - 1].count = count
      <4> DEFINE k == i - 1
      <4> HIDE DEF k
      <4>1. k = i - 1
        BY DEF k
      <4>2. k \in 1 .. n + count /\ k \notin 1 .. n
        BY <3>5, <4>1
      <4>3. /\ r[k].index = k - n - 1
            /\ r[k].frame = frame /\ r[k].id = id /\ r[k].count = count
        BY <1>5, <4>2
      <4>4. QED BY <4>1, <4>3
    <3>4. i - n - 1 = i - 1 - n - 1 + 1
      BY <1>3
    <3>6. QED BY <3>1, <3>5, <3>3, <3>4 DEF Follows
  <2>3. QED BY <2>1, <2>2
<1>8. RunsOn(r, NotSending, D)
  BY <1>3, <1>6 DEF RunsOn
<1>9. Continued(r, NotSending, a, D)
  BY <1>3, <1>7 DEF Continued
<1>10. Unbroken(r, NotSending, a, D)
  BY <1>8, <1>9 DEF Unbroken
<1>11. QED BY <1>10 DEF r, c

\* The receiver gets the next fragment of a frame of which it holds what came
\* before: it then holds this one as well, or delivers the frame.
LEMMA AcceptsNext ==
  ASSUME assembly \in Assembly, NEW f \in Fragment, Accepts(f),
         f.frame # Foreign, f.index < f.count,
         f.index # 0 => HeldIs(assembly, f)
  PROVE  IF f.index + 1 = f.count
         THEN delivered' = delivered \union {f.frame}
         ELSE /\ delivered' = delivered
              /\ \A g : Follows(f, g) => HeldIs(assembly', g)
<1> DEFINE held == HeldFor(assembly, f)
           extended == Extended(held, f)
           pieces == extended.pieces
<1>1. held \in Assembly
  BY HeldType
<1>2. /\ held.active /\ held.age <= ReassemblyTimeout
      /\ held.id = f.id /\ held.count = f.count /\ Len(held.pieces) = f.index
      /\ \A j \in 1 .. f.index : held.pieces[j] = [frame |-> f.frame, index |-> j - 1]
  <2>1. CASE f.index = 0
    BY <2>1, WireAssumption DEF HeldFor
  <2>2. CASE f.index # 0
    <3>1. HeldIs(assembly, f) /\ assembly.age \in Nat
      BY <2>2 DEF Assembly
    <3>2. ~Expired(assembly)
      BY <3>1, WireAssumption DEF HeldIs, Expired
    <3>3. QED BY <2>2, <3>1, <3>2 DEF HeldIs, HeldFor, Unexpired
  <2>3. QED BY <2>1, <2>2
<1>3. held.pieces \in Seq(Piece) /\ PieceOf(f) \in Piece /\ f.index \in Nat /\ f.count \in Nat
  BY <1>1 DEF Assembly, PieceOf, Piece, Fragment
<1>4. /\ extended.active = held.active /\ extended.id = held.id
      /\ extended.count = held.count /\ extended.age = held.age
      /\ pieces = Append(held.pieces, PieceOf(f))
  BY <1>1 DEF Extended, Assembly
<1>5. /\ Len(pieces) = f.index + 1 /\ DOMAIN pieces = 1 .. f.index + 1
      /\ \A j \in 1 .. f.index + 1 : pieces[j] = [frame |-> f.frame, index |-> j - 1]
  <2>1. /\ Len(pieces) = Len(held.pieces) + 1 /\ DOMAIN pieces = 1 .. Len(held.pieces) + 1
        /\ \A j \in 1 .. Len(held.pieces) : pieces[j] = held.pieces[j]
        /\ pieces[Len(held.pieces) + 1] = PieceOf(f)
    BY <1>3, <1>4, AppendElements
  <2>2. PieceOf(f) = [frame |-> f.frame, index |-> f.index + 1 - 1]
    BY <1>3 DEF PieceOf
  <2>3. \A j \in 1 .. f.index + 1 : j \in 1 .. f.index \/ j = f.index + 1
    BY <1>3
  <2>4. Len(held.pieces) = f.index /\ f.index \in Nat
    BY <1>2, <1>3
  <2> HIDE DEF held, extended, pieces
  <2>5. ASSUME NEW j \in 1 .. f.index + 1
        PROVE  pieces[j] = [frame |-> f.frame, index |-> j - 1]
    <3>1. CASE j \in 1 .. f.index
      BY <1>2, <2>1, <2>4, <3>1
    <3>2. CASE j = f.index + 1
      BY <2>1, <2>2, <2>4, <3>2
    <3>3. QED BY <2>3, <3>1, <3>2
  <2>6. QED BY <2>1, <2>4, <2>5
<1>6. ~Malformed(f) /\ Continues(held, f)
  BY <1>2, <1>3 DEF Malformed, Continues
<1> HIDE DEF held, pieces, extended
<1>7. WholeFrame(pieces) = f.frame
  <2>1. 1 \in 1 .. f.index + 1
    BY <1>3
  <2>4. pieces[1] = [frame |-> f.frame, index |-> 1 - 1]
    BY <1>5, <2>1
  <2>2. pieces[1].frame = f.frame
    BY <2>4
  <2>3. QED BY <1>5, <2>2 DEF WholeFrame
<1>8. CASE f.index + 1 = f.count
  <2>1. Len(pieces) = extended.count /\ Decodes(pieces)
    BY <1>2, <1>4, <1>5, <1>7, <1>8 DEF Decodes, pieces
  <2>2. delivered' = delivered \union {WholeFrame(pieces)}
    BY <1>6, <2>1 DEF Accepts, held, extended, pieces
  <2>3. QED BY <1>7, <1>8, <2>2
<1>9. CASE f.index + 1 # f.count
  <2>1. Len(pieces) # extended.count
    BY <1>2, <1>4, <1>5, <1>9 DEF pieces
  <2>2. delivered' = delivered /\ assembly' = extended
    BY <1>6, <2>1 DEF Accepts, held, extended, pieces
  <2>3. ASSUME NEW g, Follows(f, g) PROVE HeldIs(extended, g)
    BY <1>2, <1>4, <1>5, <2>3 DEF Follows, HeldIs, pieces
  <2>4. QED BY <1>9, <2>2, <2>3
<1>10. QED BY <1>8, <1>9

------------------------------------------------------------------------------
(* Nothing is lost that nothing happened to                                 *)

LEMMA FramesAppend ==
  ASSUME NEW q \in Seq(Fragment), NEW f \in Fragment
  PROVE  FramesIn(q) \union {f.frame} \subseteq FramesIn(Append(q, f))
<1> DEFINE r == Append(q, f)
<1>1. /\ Len(q) \in Nat /\ DOMAIN q = 1 .. Len(q) /\ DOMAIN r = 1 .. Len(q) + 1
      /\ \A i \in 1 .. Len(q) : r[i] = q[i]
      /\ r[Len(q) + 1] = f
  BY AppendElements
<1> HIDE DEF r
<1>2. \A i \in DOMAIN q : i \in DOMAIN r /\ r[i] = q[i]
  BY <1>1
<1>3. Len(q) + 1 \in DOMAIN r
  BY <1>1
<1>4. FramesIn(q) \union {f.frame} \subseteq FramesIn(r)
  BY <1>1, <1>2, <1>3 DEF FramesIn
<1>5. QED BY <1>4 DEF r

LEMMA FramesConcat ==
  ASSUME NEW q \in Seq(Fragment), NEW frame \in Nat, NEW id \in Id, NEW count \in Nat \ {0}
  PROVE  FramesIn(q) \union {frame} \subseteq FramesIn(q \o Fragments(frame, id, count))
<1> DEFINE c == Fragments(frame, id, count)
           r == q \o c
<1>1. c \in Seq(Fragment) /\ Len(c) = count /\ c[1].frame = frame
  BY DEF Fragments, Fragment, FragmentOf
<1> HIDE DEF c
<1>2. Len(q) \in Nat /\ DOMAIN q = 1 .. Len(q)
  OBVIOUS
<1>3. /\ r \in Seq(Fragment) /\ Len(r) = Len(q) + count
      /\ \A i \in 1 .. Len(q) : r[i] = q[i]
      /\ \A i \in Len(q) + 1 .. Len(q) + count : r[i] = c[i - Len(q)]
  BY <1>1, ConcatElements
<1> HIDE DEF r
<1>4. DOMAIN r = 1 .. Len(q) + count
  BY <1>3
<1>5. \A i \in DOMAIN q : i \in DOMAIN r /\ r[i] = q[i]
  BY <1>2, <1>3, <1>4
<1>6. Len(q) + 1 \in DOMAIN r /\ r[Len(q) + 1] = c[1]
  BY <1>2, <1>3, <1>4
<1>7. FramesIn(q) \union {frame} \subseteq FramesIn(r)
  BY <1>1, <1>5, <1>6 DEF FramesIn
<1>8. QED BY <1>7 DEF r, c

LEMMA FramesTail ==
  ASSUME NEW q \in Seq(Fragment), q # << >>
  PROVE  FramesIn(q) \subseteq FramesIn(Tail(q)) \union {Head(q).frame}
<1> DEFINE r == Tail(q)
<1>1. /\ Len(q) \in Nat /\ DOMAIN q = 1 .. Len(q) /\ DOMAIN r = 1 .. Len(q) - 1
      /\ Head(q) = q[1]
      /\ \A i \in 1 .. Len(q) - 1 : r[i] = q[i + 1]
  BY TailElements
<1> HIDE DEF r
<1>2. ASSUME NEW i \in DOMAIN q, i # 1 PROVE q[i].frame \in FramesIn(r)
  <2> DEFINE k == i - 1
  <2>1. k \in 1 .. Len(q) - 1 /\ k + 1 = i
    BY <1>1, <1>2
  <2> HIDE DEF k
  <2>2. k \in DOMAIN r /\ r[k] = q[i]
    BY <1>1, <2>1
  <2>3. QED BY <2>2 DEF FramesIn
<1>3. FramesIn(q) \subseteq FramesIn(r) \union {Head(q).frame}
  BY <1>1, <1>2 DEF FramesIn
<1>4. QED BY <1>3 DEF r

\* What an action keeps besides the order of the stream.
IntactStill == Unbroken(channel, sending, assembly, damaged) /\ Quiet /\ IntactDelivered

LEMMA IntactTypes ==
  ASSUME IntactInv
  PROVE  /\ StreamInv /\ IntactStill
         /\ channel \in Seq(Fragment) /\ sending \in Fragment /\ assembly \in Assembly
         /\ begun \in Nat /\ nextId \in Id
         /\ \A i \in 1 .. Len(channel) :
              Whole(channel[i], damaged) => channel[i].index < channel[i].count
         /\ sending # NotSending =>
              direction = "mac" /\ sending.index < sending.count /\ sending.frame # Foreign
BY DEF IntactInv, IntactStill, StreamInv, Types, Proper, Own, Whole, SendingOrder, Foreign

LEMMA MacSendsIntact ==
  ASSUME IntactInv, NEW count \in 1 .. MaxFragments, MacSends(count)
  PROVE  IntactStill'
<1>1. /\ connected' /\ direction = "device" /\ begun' = begun + 1
      /\ channel' = channel \o Fragments(begun + 1, nextId, count)
      /\ UNCHANGED <<sending, assembly, delivered, damaged>>
  BY DEF MacSends
<1>2. sending = NotSending /\ sending' = NotSending
  BY <1>1, IntactTypes
<1>3. count \in Nat /\ count \in Nat \ {0}
  BY WireAssumption
<1>4. Unbroken(channel, NotSending, assembly, damaged)
  BY <1>2, IntactTypes DEF IntactStill
<1>5. Unbroken(channel \o Fragments(begun + 1, nextId, count), NotSending, assembly, damaged)
  BY <1>3, <1>4, IntactTypes, ConcatUnbroken
<1>6. FramesIn(channel) \union {begun + 1} \subseteq FramesIn(channel')
  BY <1>1, <1>3, IntactTypes, FramesConcat
<1>7. IntactDelivered'
  <2>1. \A frame \in 1 .. begun + 1 : frame \in 1 .. begun \/ frame = begun + 1
    BY IntactTypes
  <2>2. QED BY <1>1, <1>6, <2>1, IntactTypes DEF IntactDelivered, IntactStill
<1>8. QED BY <1>1, <1>2, <1>5, <1>7 DEF IntactStill, Quiet

LEMMA DeviceSendsIntact ==
  ASSUME IntactInv, NEW count \in 1 .. MaxFragments, DeviceSends(count)
  PROVE  IntactStill'
<1>1. /\ connected' /\ sending = NotSending /\ begun' = begun + 1
      /\ sending' = FragmentOf(begun + 1, nextId, 0, count)
      /\ UNCHANGED <<channel, assembly, delivered, damaged>>
  BY DEF DeviceSends
<1>2. sending'.index = 0 /\ sending'.frame = begun + 1
  BY <1>1 DEF FragmentOf
<1>3. Unbroken(channel, sending', assembly, damaged)
  BY <1>1, <1>2, IntactTypes, SenderChanges DEF IntactStill
<1>4. IntactDelivered'
  <2>1. \A frame \in 1 .. begun + 1 : frame \in 1 .. begun \/ frame = begun + 1
    BY IntactTypes
  <2>2. \A frame \in 1 .. begun : frame # sending.frame
    BY <1>1, IntactTypes DEF NotSending
  <2>3. QED BY <1>1, <1>2, <2>1, <2>2, IntactTypes DEF IntactDelivered, IntactStill
<1>5. QED BY <1>1, <1>3, <1>4 DEF IntactStill, Quiet

LEMMA DeviceNotifiesIntact == ASSUME IntactInv, DeviceNotifies PROVE IntactStill'
<1>1. /\ connected' /\ sending # NotSending /\ channel' = Append(channel, sending)
      /\ UNCHANGED <<begun, assembly, delivered, damaged>>
  BY DEF DeviceNotifies
<1>2. sending'= NotSending \/ Follows(sending, sending')
  BY IntactTypes DEF DeviceNotifies, Follows, Fragment
<1>3. sending.index + 1 # sending.count => Follows(sending, sending')
  BY IntactTypes DEF DeviceNotifies, Follows, Fragment
<1>4. Unbroken(Append(channel, sending), sending', assembly, damaged)
  BY <1>1, <1>2, <1>3, IntactTypes, AppendUnbroken DEF IntactStill
<1>5. FramesIn(channel) \union {sending.frame} \subseteq FramesIn(channel')
  BY <1>1, IntactTypes, FramesAppend
<1>6. IntactDelivered'
  BY <1>1, <1>5, IntactTypes DEF IntactDelivered, IntactStill
<1>7. QED BY <1>1, <1>4, <1>6 DEF IntactStill, Quiet

LEMMA DeviceNotifyFailsIntact == ASSUME IntactInv, DeviceNotifyFails PROVE IntactStill'
<1>1. /\ sending' = NotSending /\ damaged' = damaged \union {sending.frame}
      /\ UNCHANGED <<connected, channel, begun, assembly, delivered>>
  BY DEF DeviceNotifyFails
<1>2. damaged \subseteq damaged' /\ sending.frame \in damaged'
  BY <1>1
<1>3. Unbroken(channel, NotSending, assembly, damaged')
  BY <1>2, IntactTypes, SenderChanges DEF IntactStill
<1>4. QED BY <1>1, <1>3, IntactTypes DEF IntactStill, Quiet, IntactDelivered

LEMMA ForeignWriteIntact ==
  ASSUME IntactInv, NEW id \in Id, NEW index \in 0 .. MaxFragments, ForeignWrite(id, index)
  PROVE  IntactStill'
<1> DEFINE f == FragmentOf(Foreign, id, index, MaxFragments)
<1>1. /\ connected' /\ direction = "device" /\ channel' = Append(channel, f)
      /\ UNCHANGED <<begun, sending, assembly, delivered, damaged>>
  BY DEF ForeignWrite
<1>2. f \in Fragment /\ f.frame = Foreign /\ f # NotSending
  <2>1. f \in Fragment /\ f.frame = Foreign /\ f.count # NotSending.count
    BY WireAssumption DEF FragmentOf, Fragment, Foreign, NotSending
  <2>2. QED BY <2>1
<1> HIDE DEF f
<1>3. sending = NotSending /\ sending' = NotSending
  BY <1>1, IntactTypes
<1>4. ~Whole(f, damaged)
  BY <1>2 DEF Whole
<1>5. Unbroken(Append(channel, f), NotSending, assembly, damaged)
  BY <1>2, <1>3, <1>4, IntactTypes, AppendUnbroken DEF IntactStill
<1>6. FramesIn(channel) \subseteq FramesIn(channel')
  BY <1>1, <1>2, IntactTypes, FramesAppend
<1>7. IntactDelivered'
  BY <1>1, <1>6, IntactTypes DEF IntactDelivered, IntactStill
<1>8. QED BY <1>1, <1>3, <1>5, <1>7 DEF IntactStill, Quiet

LEMMA ReceiveIntact == ASSUME IntactInv, Receive PROVE IntactStill'
<1> DEFINE h == Head(channel)
<1>1. /\ channel # << >> /\ channel' = Tail(channel) /\ Accepts(h)
      /\ damaged' = IF h.frame = Foreign THEN damaged \union FramesIn(assembly.pieces)
                    ELSE damaged
      /\ UNCHANGED <<connected, begun, sending>>
  BY DEF Receive
<1>2. /\ h \in Fragment /\ h = channel[1] /\ Len(channel) \in Nat /\ 1 \in 1 .. Len(channel)
      /\ Tail(channel) \in Seq(Fragment) /\ Len(Tail(channel)) = Len(channel) - 1
      /\ \A i \in 1 .. Len(channel) - 1 : Tail(channel)[i] = channel[i + 1]
  BY <1>1, IntactTypes, TailElements
<1>3. FramesIn(channel) \subseteq FramesIn(channel') \union {h.frame}
  BY <1>1, IntactTypes, FramesTail
<1> HIDE DEF h
<1>4. delivered \subseteq delivered'
  BY <1>1, <1>2, IntactTypes, AcceptResult
<1>5. damaged \subseteq damaged' /\ (Whole(h, damaged') => Whole(h, damaged))
  BY <1>1 DEF Whole
<1>6. Whole(h, damaged') =>
        IF h.index + 1 = h.count
        THEN delivered' = delivered \union {h.frame}
        ELSE \A g : Follows(h, g) => HeldIs(assembly', g)
  <2> SUFFICES ASSUME Whole(h, damaged')
               PROVE  IF h.index + 1 = h.count
                      THEN delivered' = delivered \union {h.frame}
                      ELSE \A g : Follows(h, g) => HeldIs(assembly', g)
    OBVIOUS
  <2>1. h.frame # Foreign /\ h.index < h.count
    BY <1>2, <1>5, IntactTypes DEF Whole
  <2>2. h.index # 0 => HeldIs(assembly, h)
    BY <1>2, <1>5, IntactTypes DEF IntactStill, Unbroken, Continued
  <2>3. QED BY <1>1, <1>2, <2>1, <2>2, IntactTypes, AcceptsNext
<1>7. Unbroken(Tail(channel), sending, assembly', damaged')
  BY <1>1, <1>5, <1>6, IntactTypes, TailUnbroken DEF IntactStill, h
<1>8. IntactDelivered'
  <2> SUFFICES ASSUME NEW frame \in 1 .. begun, frame \notin damaged', frame \notin delivered',
                      frame # sending.frame
               PROVE  frame \in FramesIn(channel')
    BY <1>1 DEF IntactDelivered
  <2>1. frame \in FramesIn(channel)
    BY <1>4, <1>5, IntactTypes DEF IntactDelivered, IntactStill
  <2>2. CASE frame = h.frame
    <3>1. Whole(h, damaged') /\ Whole(h, damaged)
      BY <1>5, <2>2, IntactTypes DEF Whole, Foreign
    <3>2. h.index + 1 # h.count
      BY <1>6, <2>2, <3>1
    <3>3. IF 1 < Len(channel) THEN Follows(channel[1], channel[1 + 1])
          ELSE Follows(channel[1], sending)
      BY <1>2, <3>1, <3>2, IntactTypes DEF IntactStill, Unbroken, RunsOn
    <3>4. 1 < Len(channel) /\ channel[2].frame = frame
      BY <1>2, <2>2, <3>3 DEF Follows
    <3>5. 1 \in 1 .. Len(channel) - 1 /\ Tail(channel)[1] = channel[2]
      BY <1>2, <3>4
    <3>6. 1 \in DOMAIN channel' /\ channel'[1].frame = frame
      BY <1>1, <1>2, <3>4, <3>5
    <3>7. QED BY <3>6 DEF FramesIn
  <2>3. CASE frame # h.frame
    BY <1>3, <2>1, <2>3
  <2>4. QED BY <2>2, <2>3
<1>9. Quiet'
  BY <1>1, IntactTypes DEF Quiet, IntactStill
<1>10. QED BY <1>1, <1>7, <1>8, <1>9 DEF IntactStill

LEMMA ReceiveFailsIntact == ASSUME IntactInv, ReceiveFails PROVE IntactStill'
<1> DEFINE h == Head(channel)
<1>1. /\ channel # << >> /\ channel' = Tail(channel)
      /\ damaged' = damaged \union {h.frame}
      /\ UNCHANGED <<connected, begun, sending, assembly, delivered>>
  BY DEF ReceiveFails
<1>2. FramesIn(channel) \subseteq FramesIn(channel') \union {h.frame}
  BY <1>1, IntactTypes, FramesTail
<1>3. damaged \subseteq damaged' /\ ~Whole(h, damaged')
  BY <1>1 DEF Whole
<1>4. Unbroken(Tail(channel), sending, assembly, damaged')
  BY <1>1, <1>3, IntactTypes, TailUnbroken DEF IntactStill
<1> HIDE DEF h
<1>5. IntactDelivered'
  BY <1>1, <1>2, IntactTypes DEF IntactDelivered, IntactStill
<1>6. Quiet'
  BY <1>1, IntactTypes DEF Quiet, IntactStill
<1>7. QED BY <1>1, <1>4, <1>5, <1>6 DEF IntactStill

LEMMA TickIntact == ASSUME IntactInv, Tick PROVE IntactStill'
<1>1. /\ assembly.active /\ assembly.age <= ReassemblyTimeout
      /\ assembly' = [assembly EXCEPT !.age = @ + 1]
      /\ damaged \subseteq damaged'
      /\ Expired(assembly') => FramesIn(assembly.pieces) \subseteq damaged'
      /\ UNCHANGED <<connected, channel, begun, sending, delivered>>
  BY DEF Tick
<1>2. /\ assembly'.active = assembly.active /\ assembly'.id = assembly.id
      /\ assembly'.count = assembly.count /\ assembly'.pieces = assembly.pieces
      /\ assembly'.age = assembly.age + 1
  BY <1>1, IntactTypes DEF Assembly
<1>3. assembly.pieces \in Seq(Piece) /\ assembly.age \in Nat /\ Len(assembly.pieces) \in Nat
      /\ DOMAIN assembly.pieces = 1 .. Len(assembly.pieces)
  BY IntactTypes DEF Assembly
<1>4. ASSUME NEW f, Whole(f, damaged'), f.index # 0, HeldIs(assembly, f)
      PROVE  HeldIs(assembly', f)
  <2>1. 1 \in 1 .. f.index /\ 1 \in DOMAIN assembly.pieces
    BY <1>3, <1>4 DEF HeldIs
  <2>2. assembly.pieces[1].frame = f.frame
    <3>1. assembly.pieces[1] = [frame |-> f.frame, index |-> 1 - 1]
      BY <1>4, <2>1 DEF HeldIs
    <3>2. QED BY <3>1
  <2>3. ~Expired(assembly')
    BY <1>1, <1>4, <2>1, <2>2 DEF FramesIn, Whole
  <2>4. assembly'.age <= ReassemblyTimeout
    BY <1>1, <1>2, <1>3, <2>3, WireAssumption DEF Expired
  <2>5. QED BY <1>2, <1>4, <2>4 DEF HeldIs
<1>5. Unbroken(channel, sending, assembly', damaged')
  BY <1>1, <1>4, IntactTypes, UnbrokenStill DEF IntactStill
<1>6. Quiet'
  BY <1>1, IntactTypes DEF Quiet, IntactStill, NoAssembly
<1>7. QED BY <1>1, <1>5, <1>6, IntactTypes DEF IntactStill, IntactDelivered

LEMMA DisconnectIntact == ASSUME IntactInv, Disconnect PROVE IntactStill'
<1>1. /\ channel' = << >> /\ assembly' = NoAssembly
      /\ damaged' = damaged \union InFlight
      /\ UNCHANGED <<begun, sending, delivered>>
  BY DEF Disconnect
<1>2. /\ FramesIn(channel) \subseteq damaged' /\ sending.frame \in damaged'
      /\ damaged \subseteq damaged'
  BY <1>1 DEF InFlight
<1>3. Len(<< >>) = 0
  OBVIOUS
<1>4. RunsOn(<< >>, sending, damaged') /\ Continued(<< >>, sending, NoAssembly, damaged')
  BY <1>2, <1>3 DEF RunsOn, Continued, Whole
<1>5. IntactDelivered'
  BY <1>1, <1>2, IntactTypes DEF IntactDelivered, IntactStill
<1>6. Quiet'
  BY <1>1, <1>2 DEF Quiet
<1>7. QED BY <1>1, <1>4, <1>5, <1>6 DEF IntactStill, Unbroken

LEMMA IntactStep == ASSUME IntactInv, [Next]_vars PROVE IntactInv'
<1>1. StreamInv'
  BY StreamStep, IntactTypes
<1>2. IntactStill'
  <2>1. ASSUME NEW count \in 1 .. MaxFragments, MacSends(count) PROVE IntactStill'
    BY <2>1, MacSendsIntact
  <2>2. ASSUME NEW count \in 1 .. MaxFragments, DeviceSends(count) PROVE IntactStill'
    BY <2>2, DeviceSendsIntact
  <2>3. CASE DeviceSendRefused
    BY <2>3, IntactTypes DEF DeviceSendRefused, IntactStill, Quiet, IntactDelivered
  <2>4. CASE DeviceNotifies
    BY <2>4, DeviceNotifiesIntact
  <2>5. CASE DeviceNotifyFails
    BY <2>5, DeviceNotifyFailsIntact
  <2>6. ASSUME NEW id \in Id, NEW index \in 0 .. MaxFragments, ForeignWrite(id, index)
        PROVE  IntactStill'
    BY <2>6, ForeignWriteIntact
  <2>7. CASE Receive
    BY <2>7, ReceiveIntact
  <2>8. CASE ReceiveFails
    BY <2>8, ReceiveFailsIntact
  <2>9. CASE Tick
    BY <2>9, TickIntact
  <2>10. CASE Connect
    BY <2>10, IntactTypes DEF Connect, IntactStill, Quiet, IntactDelivered
  <2>11. CASE Disconnect
    BY <2>11, DisconnectIntact
  <2>12. CASE UNCHANGED vars
    BY <2>12, IntactTypes DEF vars, IntactStill, Quiet, IntactDelivered
  <2>13. QED
    BY <2>1, <2>2, <2>3, <2>4, <2>5, <2>6, <2>7, <2>8, <2>9, <2>10, <2>11, <2>12 DEF Next
<1>3. QED BY <1>1, <1>2 DEF IntactInv, IntactStill

\* A frame to which nothing happened on the way is delivered once its last
\* fragment has arrived, whatever the receiver held before.
THEOREM IntactAlways == Spec => []IntactDelivered
<1>1. Init => IntactInv
  <2> SUFFICES ASSUME Init PROVE IntactInv
    OBVIOUS
  <2>1. StreamInv
    BY StreamStarts
  <2>2. Len(<< >>) = 0
    OBVIOUS
  <2>3. QED BY <2>1, <2>2 DEF Init, IntactInv, Unbroken, RunsOn, Continued, Quiet, IntactDelivered
<1>2. IntactInv /\ [Next]_vars => IntactInv'
  BY IntactStep
<1>3. IntactInv => IntactDelivered
  BY DEF IntactInv
<1>4. QED BY <1>1, <1>2, <1>3, PTL DEF Spec

------------------------------------------------------------------------------
(* Types                                                                    *)

\* What TypeOK says besides Types.  The frames that are put together and those
\* that are lost were begun.
Rest ==
  /\ connected \in BOOLEAN /\ failing \in BOOLEAN
  /\ connections \in 0 .. MaxConnections
  /\ begun <= MaxFrames
  /\ foreign \in 0 .. MaxForeign /\ faults \in 0 .. MaxFaults
  /\ FramesIn(assembly.pieces) \subseteq 0 .. begun
  /\ damaged \subseteq 0 .. begun

TypeInv == StreamInv /\ Rest

LEMMA NothingHeld == FramesIn(NoAssembly.pieces) = {}
<1>1. DOMAIN NoAssembly.pieces = {}
  BY DEF NoAssembly
<1>2. QED BY <1>1 DEF FramesIn

LEMMA AcceptsFrames ==
  ASSUME assembly \in Assembly, NEW f \in Fragment, Accepts(f), failing \in BOOLEAN,
         NEW S, f.frame \in S, FramesIn(assembly.pieces) \subseteq S
  PROVE  FramesIn(assembly'.pieces) \subseteq S /\ failing' \in BOOLEAN
<1> DEFINE held == HeldFor(assembly, f)
           extended == Extended(held, f)
<1>1. held \in Assembly /\ (held.pieces = assembly.pieces \/ held.pieces = << >>)
  BY HeldType
<1>2. held.pieces \in Seq(Piece) /\ PieceOf(f) \in Piece /\ PieceOf(f).frame = f.frame
  BY <1>1 DEF Assembly, PieceOf, Piece, Fragment
<1>3. extended.pieces = Append(held.pieces, PieceOf(f))
  BY <1>1 DEF Extended, Assembly
<1>4. FramesIn(held.pieces) \subseteq S
  <2>1. DOMAIN << >> = {}
    OBVIOUS
  <2>2. QED BY <1>1, <2>1 DEF FramesIn
<1> HIDE DEF held
<1>5. FramesIn(extended.pieces) \subseteq S
  <2>1. /\ DOMAIN held.pieces = 1 .. Len(held.pieces)
        /\ DOMAIN extended.pieces = 1 .. Len(held.pieces) + 1
        /\ \A i \in 1 .. Len(held.pieces) : extended.pieces[i] = held.pieces[i]
        /\ extended.pieces[Len(held.pieces) + 1] = PieceOf(f)
    BY <1>2, <1>3, AppendElements
  <2>2. Len(held.pieces) \in Nat
    BY <1>2
  <2> HIDE DEF extended
  <2>3. ASSUME NEW i \in DOMAIN extended.pieces PROVE extended.pieces[i].frame \in S
    <3>1. CASE i \in 1 .. Len(held.pieces)
      BY <1>4, <2>1, <3>1 DEF FramesIn
    <3>2. CASE i = Len(held.pieces) + 1
      BY <1>2, <2>1, <3>2
    <3>3. QED BY <2>1, <2>2, <2>3, <3>1, <3>2
  <2>4. QED BY <2>3 DEF FramesIn
<1> HIDE DEF extended
<1>6. \/ Refuses(f)
      \/ assembly' \in {extended, NoAssembly} /\ failing' = failing
  BY DEF Accepts, held, extended
<1>7. CASE Refuses(f)
  BY <1>7, NothingHeld DEF Refuses
<1>8. CASE assembly' \in {extended, NoAssembly} /\ failing' = failing
  BY <1>5, <1>8, NothingHeld
<1>9. QED BY <1>6, <1>7, <1>8

LEMMA ChannelFrames ==
  ASSUME StreamInv
  PROVE  /\ FramesIn(channel) \subseteq 0 .. begun /\ sending.frame \in 0 .. begun
         /\ begun \in Nat
         /\ channel # << >> => Head(channel) \in Fragment /\ Head(channel).frame \in 0 .. begun
<1>1. channel \in Seq(Fragment) /\ begun \in Nat /\ DOMAIN channel = 1 .. Len(channel)
  BY DEF StreamInv, Types
<1>2. \A i \in 1 .. Len(channel) : channel[i].frame \in 0 .. begun
  <2>1. \A i \in 1 .. Len(channel) : channel[i] \in Fragment
    BY <1>1
  <2>2. QED BY <1>1, <2>1 DEF StreamInv, Proper, Fragment
<1>3. sending.frame \in 0 .. begun
  BY <1>1 DEF StreamInv, SendingOrder, NotSending
<1>4. channel # << >> => Head(channel) \in Fragment /\ Head(channel) = channel[1]
                         /\ 1 \in 1 .. Len(channel)
  BY <1>1, TailElements
<1>5. QED BY <1>1, <1>2, <1>3, <1>4 DEF FramesIn

LEMMA RestStep == ASSUME TypeInv, [Next]_vars PROVE Rest'
<1> USE WireAssumption
<1>1. /\ FramesIn(channel) \subseteq 0 .. begun /\ sending.frame \in 0 .. begun
      /\ begun \in Nat /\ assembly \in Assembly
      /\ FramesIn(assembly.pieces) \subseteq 0 .. begun /\ damaged \subseteq 0 .. begun
      /\ connected \in BOOLEAN /\ failing \in BOOLEAN
      /\ channel # << >> => Head(channel) \in Fragment /\ Head(channel).frame \in 0 .. begun
  BY ChannelFrames DEF TypeInv, StreamInv, Types, Rest
<1>2. 0 .. begun \subseteq 0 .. begun + 1
  BY <1>1
<1>3. ASSUME NEW count \in 1 .. MaxFragments, MacSends(count) \/ DeviceSends(count)
      PROVE  Rest'
  <2>1. /\ begun < MaxFrames /\ begun' = begun + 1
        /\ UNCHANGED <<connected, connections, assembly, failing, damaged, foreign, faults>>
    BY <1>3 DEF MacSends, DeviceSends
  <2>2. begun' <= MaxFrames /\ 0 .. begun \subseteq 0 .. begun'
    BY <1>1, <2>1
  <2>3. QED BY <2>1, <2>2 DEF TypeInv, Rest
<1>4. CASE DeviceSendRefused \/ DeviceNotifies \/ UNCHANGED vars
  BY <1>4 DEF DeviceSendRefused, DeviceNotifies, vars, TypeInv, Rest
<1>5. CASE DeviceNotifyFails
  BY <1>1, <1>5 DEF DeviceNotifyFails, TypeInv, Rest
<1>6. ASSUME NEW id \in Id, NEW index \in 0 .. MaxFragments, ForeignWrite(id, index)
      PROVE  Rest'
  BY <1>6 DEF ForeignWrite, TypeInv, Rest
<1>7. CASE Receive
  <2>1. /\ channel # << >> /\ Accepts(Head(channel))
        /\ damaged' \subseteq damaged \union FramesIn(assembly.pieces)
        /\ UNCHANGED <<connected, connections, begun, foreign, faults>>
    BY <1>7 DEF Receive
  <2>2. FramesIn(assembly'.pieces) \subseteq 0 .. begun /\ failing' \in BOOLEAN
    BY <1>1, <2>1, AcceptsFrames
  <2>3. damaged' \subseteq 0 .. begun
    BY <1>1, <2>1
  <2>4. QED BY <2>1, <2>2, <2>3 DEF TypeInv, Rest
<1>8. CASE ReceiveFails
  <2>1. /\ channel # << >> /\ damaged' = damaged \union {Head(channel).frame}
        /\ faults < MaxFaults /\ faults' = faults + 1
        /\ UNCHANGED <<connected, connections, begun, assembly, foreign>>
    BY <1>8 DEF ReceiveFails
  <2>2. failing' \in BOOLEAN
    BY <1>8, Zenon DEF ReceiveFails
  <2>3. damaged' \subseteq 0 .. begun
    BY <1>1, <2>1
  <2>4. faults' \in 0 .. MaxFaults
    BY <2>1 DEF TypeInv, Rest
  <2>5. QED BY <2>1, <2>2, <2>3, <2>4 DEF TypeInv, Rest
<1>9. CASE Tick
  <2>1. /\ damaged' \subseteq damaged \union FramesIn(assembly.pieces)
        /\ UNCHANGED <<connected, connections, begun, failing, foreign, faults>>
    BY <1>9 DEF Tick
  <2>2. assembly'.pieces = assembly.pieces
    BY <1>1, <1>9 DEF Assembly, Tick
  <2>3. FramesIn(assembly'.pieces) \subseteq 0 .. begun
    BY <1>1, <2>2
  <2>4. damaged' \subseteq 0 .. begun
    BY <1>1, <2>1
  <2>5. QED BY <2>1, <2>3, <2>4 DEF TypeInv, Rest
<1>10. CASE Connect
  BY <1>10, NothingHeld DEF Connect, TypeInv, Rest
<1>11. CASE Disconnect
  <2>1. damaged' \subseteq 0 .. begun
    BY <1>1, <1>11 DEF Disconnect, InFlight
  <2>2. QED BY <1>11, <2>1, NothingHeld DEF Disconnect, TypeInv, Rest
<1>12. QED BY <1>3, <1>4, <1>5, <1>6, <1>7, <1>8, <1>9, <1>10, <1>11 DEF Next

\* Every variable keeps its type.
THEOREM TypeCorrect == Spec => []TypeOK
<1>1. Init => TypeInv
  <2> SUFFICES ASSUME Init PROVE TypeInv
    OBVIOUS
  <2>1. StreamInv
    BY StreamStarts
  <2>2. Rest
    <3>1. connected \in BOOLEAN /\ failing \in BOOLEAN
      BY DEF Init
    <3>2. /\ connections = 0 /\ begun = 0 /\ foreign = 0 /\ faults = 0
          /\ FramesIn(assembly.pieces) = {} /\ damaged = {}
      BY NothingHeld, Zenon DEF Init
    <3>3. QED BY <3>1, <3>2, WireAssumption DEF Rest
  <2>3. QED BY <2>1, <2>2 DEF TypeInv
<1>2. TypeInv /\ [Next]_vars => TypeInv'
  BY StreamStep, RestStep DEF TypeInv
<1>3. TypeInv => TypeOK
  <2> SUFFICES ASSUME TypeInv PROVE TypeOK
    OBVIOUS
  <2>1. begun \in Nat /\ begun <= MaxFrames /\ 0 .. begun \subseteq 0 .. MaxFrames
        /\ 1 .. begun \subseteq 0 .. MaxFrames
    BY WireAssumption DEF TypeInv, StreamInv, Types, Rest
  <2>2. QED BY <2>1 DEF TypeInv, StreamInv, Types, Rest, TypeOK
<1>4. QED BY <1>1, <1>2, <1>3, PTL DEF Spec



------------------------------------------------------------------------------
(* The native controls of Codex                                             *)

Report == [of : Message, index : Nat]

\* The reports that a task has sent of the message it is at.
Prefix(t) == [i \in 1 .. sender[t].sent |-> [of |-> Sending(t), index |-> i]]

\* A task is in the middle of a message that this connection has got from its
\* beginning.
Midway(t) == sender[t].sent > 0 /\ ~sender[t].cut

SenderType ==
  \A t \in Task :
    /\ sender[t].job \in Seq(Message)
    /\ sender[t].sent \in Nat
    /\ sender[t].sent > 0 => mutex = t
    /\ sender[t].cut => sender[t].sent > 0
    /\ mutex = t => sender[t].job # << >>
    /\ sender[t].job # << >> => sender[t].sent < Sending(t).reports

NativeTypes ==
  /\ touches \in Seq(Touch)
  /\ DOMAIN sender = Task
  /\ \A t \in Task : DOMAIN sender[t] = {"job", "sent", "cut"}
  /\ {"line", "spoiled"} \subseteq DOMAIN codex
  /\ codex.line \in Seq(Report) /\ codex.spoiled \in Nat /\ cuts \in Nat

\* A line that is begun holds what the sender who is midway has sent, or else a
\* message was cut off that has spoiled no line yet.
LineInv ==
  /\ codex.spoiled <= cuts
  /\ \A t \in Task :
       Midway(t) => codex.line = Prefix(t) \/ codex.spoiled < cuts
  /\ codex.line # << >> =>
       codex.spoiled < cuts \/ \E t \in Task : Midway(t)

NativeInv == NativeTypes /\ SenderType /\ LineInv

LEMMA KeysType ==
  ASSUME NEW action \in Touch PROVE Keys(action) \in Seq(Message)
<1>1. {Down("MIC"), Up("MIC"), Down("AG"), Up("AG")} \subseteq Message
  BY DEF Message
<1>2. /\ "MIC_PRESS" # "MIC_RELEASE" /\ "MIC_PRESS" # "TASK" /\ "MIC_RELEASE" # "TASK"
  OBVIOUS
<1>3. CASE action = "MIC_PRESS"
  <2>1. Keys(action) = << Down("MIC") >>
    BY <1>2, <1>3, Zenon DEF Keys
  <2>2. QED BY <1>1, <2>1
<1>4. CASE action = "MIC_RELEASE"
  <2>1. Keys(action) = << Up("MIC") >>
    BY <1>2, <1>4, Zenon DEF Keys
  <2>2. QED BY <1>1, <2>1
<1>5. CASE action = "TASK"
  <2>1. Keys(action) = << Down("AG"), Up("AG") >>
    BY <1>2, <1>5, Zenon DEF Keys
  <2>2. QED BY <1>1, <2>1
<1>6. QED BY <1>3, <1>4, <1>5 DEF Touch

LEMMA MessageReports == \A m \in Message : m.reports \in {1, 2}
  BY DEF Message, Down, Up, Response

LEMMA NativeStarts == CodexInit => NativeInv
<1> SUFFICES ASSUME CodexInit PROVE NativeInv
  OBVIOUS
<1>1. << >> \in Seq(Touch) /\ << >> \in Seq(Report) /\ << >> \in Seq(Message)
  OBVIOUS
<1>2. \A t \in Task : sender[t] = [job |-> << >>, sent |-> 0, cut |-> FALSE]
  BY DEF CodexInit, Idle
<1>3. \A t \in Task : sender[t].job = << >> /\ sender[t].sent = 0 /\ ~sender[t].cut
        /\ DOMAIN sender[t] = {"job", "sent", "cut"}
  BY <1>2
<1>4. codex.line = << >> /\ codex.spoiled = 0 /\ cuts = 0 /\ touches = << >>
      /\ mutex = "free" /\ DOMAIN sender = Task
      /\ {"line", "spoiled"} \subseteq DOMAIN codex
  BY DEF CodexInit, NothingReceived
<1>5. \A t \in Task : t # "free"
  BY DEF Task
<1>6. SenderType
  <2> SUFFICES ASSUME NEW t \in Task
               PROVE  /\ sender[t].job \in Seq(Message)
                      /\ sender[t].sent \in Nat
                      /\ sender[t].sent > 0 => mutex = t
                      /\ sender[t].cut => sender[t].sent > 0
                      /\ mutex = t => sender[t].job # << >>
                      /\ sender[t].job # << >> => sender[t].sent < Sending(t).reports
    BY DEF SenderType
  <2>1. sender[t].job \in Seq(Message)
    BY <1>1, <1>3
  <2>2. sender[t].sent = 0 /\ ~sender[t].cut /\ mutex # t /\ sender[t].job = << >>
    BY <1>3, <1>4, <1>5
  <2>3. QED BY <2>1, <2>2
<1>7. QED BY <1>1, <1>3, <1>4, <1>6 DEF NativeInv, NativeTypes, LineInv, Midway

\* A task that sends nothing takes up a job.
LEMMA JobStarts ==
  ASSUME NativeInv, NEW t \in Task, NEW job \in Seq(Message),
         sender[t] = Idle, sender' = [sender EXCEPT ![t].job = job],
         touches' \in Seq(Touch), UNCHANGED <<mutex, codex, cuts>>
  PROVE  NativeInv'
<1>1. sender[t].job = << >> /\ sender[t].sent = 0 /\ sender[t].cut = FALSE
  BY DEF Idle
<1>2. /\ DOMAIN sender' = Task
      /\ sender'[t].job = job /\ sender'[t].sent = 0 /\ sender'[t].cut = FALSE
      /\ \A u \in Task : u # t => sender'[u] = sender[u]
      /\ \A u \in Task : DOMAIN sender'[u] = {"job", "sent", "cut"}
  BY <1>1 DEF NativeInv, NativeTypes
<1>3. mutex # t
  BY <1>1 DEF NativeInv, SenderType
<1>4. job # << >> => job[1] \in Message /\ Head(job) = job[1]
  OBVIOUS
<1>5. SenderType'
  <2> SUFFICES ASSUME NEW u \in Task
               PROVE  /\ sender'[u].job \in Seq(Message)
                      /\ sender'[u].sent \in Nat
                      /\ sender'[u].sent > 0 => mutex = u
                      /\ sender'[u].cut => sender'[u].sent > 0
                      /\ mutex = u => sender'[u].job # << >>
                      /\ sender'[u].job # << >> => sender'[u].sent < Head(sender'[u].job).reports
    BY DEF SenderType, Sending
  <2>1. CASE u = t
    <3>1. job # << >> => 0 < Head(job).reports
      BY <1>4, MessageReports
    <3>2. QED BY <1>2, <1>3, <2>1, <3>1
  <2>2. CASE u # t
    BY <1>2, <2>2 DEF NativeInv, SenderType, Sending
  <2>3. QED BY <2>1, <2>2
<1>6. \A u \in Task : /\ Midway(u)' <=> Midway(u)
                      /\ Midway(u) => Prefix(u)' = Prefix(u)
  BY <1>1, <1>2 DEF Midway, Prefix, Sending
<1>7. NativeTypes'
  BY <1>2 DEF NativeInv, NativeTypes
<1>8. LineInv'
  BY <1>6 DEF NativeInv, LineInv
<1>9. QED BY <1>5, <1>7, <1>8 DEF NativeInv

\* The end of a job, or its next message: the sender is at no report, and the
\* line is empty or has its debt.
LEMMA AfterMessage ==
  ASSUME NativeInv, NEW t \in Task, NEW job \in Seq(Message),
         DOMAIN sender' = Task, DOMAIN sender'[t] = {"job", "sent", "cut"},
         sender'[t].job = job, sender'[t].sent = 0, ~sender'[t].cut,
         \A u \in Task : u # t => sender'[u] = sender[u] /\ mutex' # u /\ mutex # u,
         mutex' # t, touches' = touches,
         {"line", "spoiled"} \subseteq DOMAIN codex',
         codex'.line \in Seq(Report), codex'.spoiled \in Nat, cuts' \in Nat,
         codex'.spoiled <= cuts', codex'.line # << >> => codex'.spoiled < cuts'
  PROVE  NativeInv'
<1>1. \A u \in Task : u # t => sender[u].sent = 0 /\ ~sender[u].cut
  BY DEF NativeInv, SenderType
<1>2. job # << >> => Head(job) \in Message
  OBVIOUS
<1>3. SenderType'
  <2> SUFFICES ASSUME NEW u \in Task
               PROVE  /\ sender'[u].job \in Seq(Message)
                      /\ sender'[u].sent \in Nat
                      /\ sender'[u].sent > 0 => mutex' = u
                      /\ sender'[u].cut => sender'[u].sent > 0
                      /\ mutex' = u => sender'[u].job # << >>
                      /\ sender'[u].job # << >> => sender'[u].sent < Head(sender'[u].job).reports
    BY DEF SenderType, Sending
  <2>1. CASE u = t
    <3>1. job # << >> => 0 < Head(job).reports
      BY <1>2, MessageReports
    <3>2. QED BY <2>1, <3>1
  <2>2. CASE u # t
    BY <1>1, <2>2 DEF NativeInv, SenderType, Sending
  <2>3. QED BY <2>1, <2>2
<1>4. \A u \in Task : ~Midway(u)'
  BY <1>1 DEF Midway
<1>5. \A u \in Task : DOMAIN sender'[u] = {"job", "sent", "cut"}
  BY DEF NativeInv, NativeTypes
<1>6. QED BY <1>3, <1>4, <1>5 DEF NativeInv, NativeTypes, LineInv

\* A message is given up: what this connection has got of it is a debt.
LEMMA Abandoned ==
  ASSUME NativeInv, NEW t \in Task, Abandons(t),
         (mutex = t /\ mutex' = "free") \/ (mutex # t /\ mutex' = mutex),
         UNCHANGED <<touches, codex>>
  PROVE  NativeInv'
<1>1. /\ sender' = [sender EXCEPT ![t] = Idle]
      /\ cuts' = IF sender[t].sent > 0 /\ ~sender[t].cut THEN cuts + 1 ELSE cuts
  BY DEF Abandons
<1>2. << >> \in Seq(Message)
  OBVIOUS
<1>3. /\ DOMAIN sender' = Task /\ sender'[t] = Idle
      /\ \A u \in Task : u # t => sender'[u] = sender[u]
  BY <1>1 DEF NativeInv, NativeTypes
<1>4. /\ sender'[t].job = << >> /\ sender'[t].sent = 0 /\ ~sender'[t].cut
      /\ DOMAIN sender'[t] = {"job", "sent", "cut"}
  BY <1>3 DEF Idle
<1>0. "free" \notin Task
  BY DEF Task
<1>5. CASE Midway(t)
  <2>1. mutex = t /\ mutex' = "free" /\ cuts' = cuts + 1
    BY <1>1, <1>5 DEF Midway, NativeInv, SenderType
  <2>2. \A u \in Task : u # t => mutex # u /\ mutex' # u
    BY <1>0, <2>1
  <2>3. codex.spoiled < cuts' /\ codex.spoiled <= cuts' /\ cuts' \in Nat
    BY <2>1 DEF NativeInv, NativeTypes, LineInv
  <2>4. codex'.line \in Seq(Report) /\ codex'.spoiled \in Nat /\ codex' = codex
        /\ {"line", "spoiled"} \subseteq DOMAIN codex'
    BY DEF NativeInv, NativeTypes
  <2>5. QED BY <1>0, <1>2, <1>3, <1>4, <2>1, <2>2, <2>3, <2>4, AfterMessage
<1>6. CASE ~Midway(t)
  <2>1. cuts' = cuts
    BY <1>1, <1>6 DEF Midway
  <2>2. /\ \A u \in Task : u # t => sender'[u] = sender[u] /\ (Midway(u)' <=> Midway(u))
                                            /\ (Midway(u) => Prefix(u)' = Prefix(u))
        /\ ~Midway(t)'
    BY <1>3, <1>4 DEF Midway, Prefix, Sending
  <2>3. LineInv'
    BY <1>6, <2>1, <2>2 DEF NativeInv, LineInv
  <2>4. SenderType'
    <3> SUFFICES ASSUME NEW u \in Task
                 PROVE  /\ sender'[u].job \in Seq(Message)
                        /\ sender'[u].sent \in Nat
                        /\ sender'[u].sent > 0 => mutex' = u
                        /\ sender'[u].cut => sender'[u].sent > 0
                        /\ mutex' = u => sender'[u].job # << >>
                        /\ sender'[u].job # << >> => sender'[u].sent < Head(sender'[u].job).reports
      BY DEF SenderType, Sending
    <3>1. CASE u = t
      <4>1. mutex' # t
        BY <1>0
      <4>2. sender'[u].job \in Seq(Message)
        BY <1>2, <1>4, <3>1
      <4>3. sender'[u].job = << >> /\ sender'[u].sent = 0 /\ ~sender'[u].cut
        BY <1>4, <3>1
      <4>4. QED BY <3>1, <4>1, <4>2, <4>3
    <3>2. CASE u # t
      <4>1. /\ mutex' = u => mutex = u
            /\ sender[u].sent > 0 => mutex' = u
        BY <1>0, <3>2 DEF NativeInv, SenderType
      <4>2. /\ sender[u].job \in Seq(Message)
            /\ sender[u].sent \in Nat
            /\ sender[u].cut => sender[u].sent > 0
            /\ mutex = u => sender[u].job # << >>
            /\ sender[u].job # << >> => sender[u].sent < Head(sender[u].job).reports
        BY DEF NativeInv, SenderType, Sending
      <4>3. sender'[u] = sender[u]
        BY <1>3, <3>2
      <4>4. QED BY <4>1, <4>2, <4>3
    <3>3. QED BY <3>1, <3>2
  <2>5. \A u \in Task : DOMAIN sender'[u] = {"job", "sent", "cut"}
    BY <1>3, <1>4 DEF NativeInv, NativeTypes
  <2>6. QED BY <1>3, <2>1, <2>3, <2>4, <2>5 DEF NativeInv, NativeTypes
<1>7. QED BY <1>5, <1>6

LEMMA SequenceGrows ==
  ASSUME NEW S, NEW q \in Seq(S), NEW e \in S
  PROVE  /\ Append(q, e) \in Seq(S) /\ Append(q, e) # << >>
         /\ Len(q) \in Nat /\ Len(Append(q, e)) = Len(q) + 1
         /\ DOMAIN Append(q, e) = 1 .. Len(q) + 1
         /\ \A i \in 1 .. Len(q) : Append(q, e)[i] = q[i]
         /\ Append(q, e)[Len(q) + 1] = e
  OBVIOUS

\* A report goes out.
LEMMA NotifyKeeps ==
  ASSUME NativeInv, NEW t \in Task, Notify(t) PROVE NativeInv'
<1> DEFINE message == Sending(t)
           index == sender[t].sent + 1
           report == [of |-> message, index |-> index]
           line == Append(codex.line, report)
           whole == Len(line) = message.reports
                    /\ \A i \in DOMAIN line : line[i] = [of |-> message, index |-> i]
<1>1. /\ mutex = t /\ touches' = touches
      /\ codex' = Received(message, index)
      /\ index < message.reports =>
           sender' = [sender EXCEPT ![t].sent = index] /\ UNCHANGED <<mutex, cuts>>
      /\ ~(index < message.reports) =>
           /\ sender' = [sender EXCEPT ![t] = [Idle EXCEPT !.job = Tail(sender[t].job)]]
           /\ mutex' = "free"
           /\ cuts' = IF sender[t].cut THEN cuts + 1 ELSE cuts
  BY DEF Notify
<1>2. /\ sender[t].job \in Seq(Message) /\ sender[t].job # << >>
      /\ sender[t].sent \in Nat /\ sender[t].sent < message.reports
      /\ sender[t].cut => sender[t].sent > 0
      /\ \A u \in Task : u # t => sender[u].sent = 0 /\ mutex # u
      /\ codex.line \in Seq(Report) /\ codex.spoiled \in Nat /\ cuts \in Nat
      /\ codex.spoiled <= cuts
  BY <1>1 DEF NativeInv, NativeTypes, SenderType, LineInv
<1>3. message \in Message /\ message.reports \in {1, 2}
  BY <1>2, MessageReports DEF Sending
<1> HIDE DEF message
<1>4. report \in Report /\ index \in Nat
  BY <1>2, <1>3 DEF Report
<1> HIDE DEF report
<1>5. /\ line \in Seq(Report) /\ line # << >> /\ Len(line) = Len(codex.line) + 1
      /\ Len(codex.line) \in Nat /\ DOMAIN line = 1 .. Len(codex.line) + 1
      /\ \A i \in 1 .. Len(codex.line) : line[i] = codex.line[i]
      /\ line[Len(codex.line) + 1] = report
  BY <1>2, <1>4, SequenceGrows
<1>6. CASE index < message.reports
  <2>1. sender[t].sent = 0 /\ index = 1 /\ ~sender[t].cut
    BY <1>2, <1>3, <1>6
  <2>2. codex'.line = line /\ codex'.spoiled = codex.spoiled
    BY <1>1, <1>6, <1>2 DEF Received, NativeInv, NativeTypes, report
  <2>3. /\ DOMAIN sender' = Task /\ mutex' = mutex /\ cuts' = cuts
        /\ sender'[t].job = sender[t].job /\ sender'[t].sent = 1 /\ ~sender'[t].cut
        /\ DOMAIN sender'[t] = {"job", "sent", "cut"}
        /\ \A u \in Task : u # t => sender'[u] = sender[u]
    BY <1>1, <1>6, <2>1 DEF NativeInv, NativeTypes
  <2>4. Sending(t)' = message
    BY <2>3 DEF message, Sending
  <2>5. SenderType'
    <3> SUFFICES ASSUME NEW u \in Task
                 PROVE  /\ sender'[u].job \in Seq(Message)
                        /\ sender'[u].sent \in Nat
                        /\ sender'[u].sent > 0 => mutex' = u
                        /\ sender'[u].cut => sender'[u].sent > 0
                        /\ mutex' = u => sender'[u].job # << >>
                        /\ sender'[u].job # << >> => sender'[u].sent < Sending(u)'.reports
      BY DEF SenderType
    <3>1. CASE u = t
      BY <1>1, <1>2, <1>6, <2>1, <2>3, <2>4, <3>1
    <3>2. CASE u # t
      BY <2>3, <3>2 DEF NativeInv, SenderType, Sending
    <3>3. QED BY <3>1, <3>2
  <2>6. codex.line # << >> => codex.spoiled < cuts
    BY <1>2, <2>1 DEF NativeInv, LineInv, Midway
  <2>7. codex.line = << >> => line = Prefix(t)'
    <3> SUFFICES ASSUME codex.line = << >> PROVE line = Prefix(t)'
      OBVIOUS
    <3>1. Prefix(t)' = [i \in 1 .. 1 |-> [of |-> message, index |-> i]]
      BY <2>3, <2>4 DEF Prefix
    <3>2. line = << [of |-> message, index |-> 1] >>
      BY <2>1 DEF report
    <3>3. QED BY <3>1, <3>2
  <2>8. Midway(t)' /\ \A u \in Task : u # t => ~Midway(u)'
    BY <1>2, <2>3 DEF Midway
  <2> HIDE DEF line, report
  <2>9. LineInv'
    BY <1>2, <1>5, <2>2, <2>3, <2>6, <2>7, <2>8 DEF LineInv
  <2>10. NativeTypes'
    <3>1. {"line", "spoiled"} \subseteq DOMAIN codex'
      BY <1>1, <1>6 DEF Received, NativeInv, NativeTypes
    <3>2. QED BY <1>1, <1>2, <1>5, <2>2, <2>3, <3>1 DEF NativeInv, NativeTypes
  <2>11. QED BY <2>5, <2>9, <2>10 DEF NativeInv
<1>7. CASE ~(index < message.reports)
  <2>1. codex'.line = << >> /\ codex'.spoiled = IF whole THEN codex.spoiled ELSE codex.spoiled + 1
    BY <1>1, <1>7 DEF Received, report
  <2>2. {"line", "spoiled"} \subseteq DOMAIN codex'
    BY <1>1, <1>7 DEF Received
  <2>3. /\ sender'[t] = [Idle EXCEPT !.job = Tail(sender[t].job)]
        /\ DOMAIN sender' = Task
        /\ \A u \in Task : u # t => sender'[u] = sender[u]
    BY <1>1, <1>7 DEF NativeInv, NativeTypes
  <2>4. /\ sender'[t].job = Tail(sender[t].job) /\ sender'[t].sent = 0 /\ ~sender'[t].cut
        /\ DOMAIN sender'[t] = {"job", "sent", "cut"}
    BY <2>3 DEF Idle
  <2>5. Tail(sender[t].job) \in Seq(Message)
    BY <1>2
  <2>6. mutex' = "free" /\ mutex' \notin Task
    BY <1>1, <1>7 DEF Task
  <2>7. cuts' = IF sender[t].cut THEN cuts + 1 ELSE cuts
    BY <1>1, <1>7
  <2>8. whole \/ codex.spoiled + 1 <= cuts'
    <3>1. CASE sender[t].cut
      BY <1>2, <2>7, <3>1
    <3>2. CASE ~sender[t].cut /\ codex.spoiled < cuts
      BY <1>2, <2>7, <3>2
    <3>3. CASE ~sender[t].cut /\ ~(codex.spoiled < cuts)
      <4>1. codex.line = IF sender[t].sent > 0 THEN Prefix(t) ELSE << >>
        BY <1>2, <3>3 DEF NativeInv, LineInv, Midway
      <4>2. /\ Len(codex.line) = sender[t].sent
            /\ \A i \in 1 .. sender[t].sent : codex.line[i] = [of |-> message, index |-> i]
        <5>1. CASE sender[t].sent > 0
          BY <1>2, <4>1, <5>1 DEF Prefix, message
        <5>2. CASE sender[t].sent = 0
          BY <4>1, <5>2
        <5>3. QED BY <1>2, <5>1, <5>2
      <4>3. index = message.reports
        BY <1>2, <1>3, <1>7
      <4> HIDE DEF line
      <4>4. ASSUME NEW i \in DOMAIN line PROVE line[i] = [of |-> message, index |-> i]
        <5>1. CASE i \in 1 .. Len(codex.line)
          BY <1>5, <4>2, <5>1
        <5>2. CASE i = Len(codex.line) + 1
          BY <1>5, <4>2, <5>2 DEF report
        <5>3. QED BY <1>5, <4>4, <5>1, <5>2
      <4>5. Len(line) = message.reports
        BY <1>5, <4>2, <4>3
      <4>6. QED BY <4>4, <4>5
    <3>4. QED BY <3>1, <3>2, <3>3
  <2> HIDE DEF whole, line, report
  <2>9. codex'.spoiled \in Nat /\ codex'.spoiled <= cuts' /\ cuts' \in Nat
    BY <1>2, <2>1, <2>7, <2>8
  <2>10. codex'.line \in Seq(Report) /\ ~(codex'.line # << >>)
    BY <2>1
  <2>11. \A u \in Task : u # t => sender'[u] = sender[u] /\ mutex' # u /\ mutex # u
    BY <1>2, <2>3, <2>6
  <2>12. mutex' # t /\ touches' = touches
    BY <1>1, <2>6
  <2>13. QED
    BY <2>2, <2>3, <2>4, <2>5, <2>9, <2>10, <2>11, <2>12, AfterMessage
<1>8. QED BY <1>6, <1>7

LEMMA NativeStill ==
  ASSUME NativeInv, UNCHANGED <<sender, mutex, codex, cuts>>, touches' \in Seq(Touch)
  PROVE  NativeInv'
<1>1. \A u \in Task : (Midway(u)' <=> Midway(u)) /\ Prefix(u)' = Prefix(u)
  BY DEF Midway, Prefix, Sending
<1>2. LineInv'
  BY <1>1 DEF NativeInv, LineInv
<1>3. SenderType'
  BY DEF NativeInv, SenderType, Sending
<1>4. QED BY <1>2, <1>3 DEF NativeInv, NativeTypes

\* The connection ends: what it has got is forgotten with it.
LEMMA DisconnectKeeps == ASSUME NativeInv, GapDisconnects PROVE NativeInv'
<1>1. /\ codex' = NothingReceived /\ cuts' = 0
      /\ sender' = [t \in Task |-> [sender[t] EXCEPT !.cut = sender[t].sent > 0]]
      /\ UNCHANGED <<touches, mutex>>
  BY DEF GapDisconnects
<1>2. /\ codex'.line = << >> /\ codex'.spoiled = 0 /\ {"line", "spoiled"} \subseteq DOMAIN codex'
      /\ << >> \in Seq(Report)
  BY <1>1 DEF NothingReceived
<1>3. ASSUME NEW t \in Task
      PROVE  /\ sender'[t].job = sender[t].job /\ sender'[t].sent = sender[t].sent
             /\ sender'[t].cut <=> sender[t].sent > 0
             /\ DOMAIN sender'[t] = {"job", "sent", "cut"}
  BY <1>1 DEF NativeInv, NativeTypes
<1>4. SenderType'
  <2> SUFFICES ASSUME NEW u \in Task
               PROVE  /\ sender'[u].job \in Seq(Message)
                      /\ sender'[u].sent \in Nat
                      /\ sender'[u].sent > 0 => mutex' = u
                      /\ sender'[u].cut => sender'[u].sent > 0
                      /\ mutex' = u => sender'[u].job # << >>
                      /\ sender'[u].job # << >> => sender'[u].sent < Head(sender'[u].job).reports
    BY DEF SenderType, Sending
  <2>1. QED BY <1>1, <1>3 DEF NativeInv, SenderType, Sending
<1>5. LineInv'
  <2>1. \A t \in Task : ~Midway(t)'
    BY <1>3 DEF Midway
  <2>2. ~(codex'.line # << >>) /\ codex'.spoiled <= cuts'
    BY <1>1, <1>2
  <2>3. QED BY <2>1, <2>2 DEF LineInv
<1>6. DOMAIN sender' = Task
  BY <1>1
<1>7. QED BY <1>1, <1>2, <1>3, <1>4, <1>5, <1>6 DEF NativeInv, NativeTypes

LEMMA NativeStep == NativeInv /\ [CodexNext]_codexVars => NativeInv'
<1> SUFFICES ASSUME NativeInv, [CodexNext]_codexVars PROVE NativeInv'
  OBVIOUS
<1>1. CASE Press \/ Release \/ Tap
  <2>1. \A action \in Touch : Queued(action) \in Seq(Touch)
    BY DEF Queued, NativeInv, NativeTypes
  <2>2. {"MIC_PRESS", "MIC_RELEASE", "TASK"} \subseteq Touch
    BY DEF Touch
  <2>3. touches' \in Seq(Touch) /\ UNCHANGED <<sender, mutex, codex, cuts>>
    BY <1>1, <2>1, <2>2 DEF Press, Release, Tap, screenUnchanged
  <2>4. QED BY <2>3, NativeStill
<1>2. CASE ReleaseUnseen \/ Opens \/ Locks
  <2>1. UNCHANGED <<touches, sender, mutex, codex, cuts>>
    BY <1>2 DEF ReleaseUnseen, Opens, Locks, screenUnchanged
  <2>2. QED BY <2>1, NativeStill DEF NativeInv, NativeTypes
<1>3. CASE TakesTouch
  <2>1. touches \in Seq(Touch) /\ touches # << >>
    BY <1>3 DEF NativeInv, NativeTypes, TakesTouch
  <2>2. Head(touches) \in Touch /\ Tail(touches) \in Seq(Touch)
    BY <2>1
  <2>3. Keys(Head(touches)) \in Seq(Message)
    BY <2>2, KeysType
  <2>4. touches' = Tail(touches) /\ sender["supervisor"] = Idle
        /\ UNCHANGED <<mutex, codex, cuts>>
        /\ \/ sender' = [sender EXCEPT !["supervisor"].job = Keys(Head(touches))]
           \/ sender' = sender
    BY <1>3 DEF TakesTouch, SupervisorIdle
  <2>5. "supervisor" \in Task
    BY DEF Task
  <2>6. CASE sender' = sender
    BY <2>2, <2>4, <2>6, NativeStill
  <2>7. CASE sender' = [sender EXCEPT !["supervisor"].job = Keys(Head(touches))]
    BY <2>2, <2>3, <2>4, <2>5, <2>7, JobStarts
  <2>8. QED BY <2>4, <2>6, <2>7
<1>4. ASSUME NEW t \in Task, StartsSending(t) PROVE NativeInv'
  <2>1. /\ sender[t].job # << >> /\ mutex = "free" /\ mutex' = t
        /\ UNCHANGED <<touches, sender, codex, cuts>>
    BY <1>4 DEF StartsSending, TakesMutex
  <2>2. \A u \in Task : u # "free"
    BY DEF Task
  <2>3. \A u \in Task : sender[u].sent = 0 /\ ~sender[u].cut
    BY <2>1, <2>2 DEF NativeInv, SenderType
  <2>4. SenderType'
    BY <2>1, <2>3 DEF NativeInv, SenderType, Sending
  <2>5. \A u \in Task : ~Midway(u) /\ ~Midway(u)'
    BY <2>1, <2>3 DEF Midway
  <2>6. QED BY <2>1, <2>4, <2>5 DEF NativeInv, NativeTypes, LineInv
<1>5. ASSUME NEW t \in Task, SendTimesOut(t) PROVE NativeInv'
  BY <1>5, Abandoned DEF SendTimesOut
<1>6. ASSUME NEW t \in Task, NotifyFails(t) PROVE NativeInv'
  BY <1>6, Abandoned DEF NotifyFails
<1>7. ASSUME NEW t \in Task, Notify(t) PROVE NativeInv'
  BY <1>7, NotifyKeeps
<1>8. ASSUME NEW of \in Request, ReportWritten(of) PROVE NativeInv'
  <2>1. sender["host"] = Idle /\ UNCHANGED <<touches, mutex, codex, cuts>>
    BY <1>8 DEF ReportWritten, HostIdle
  <2>2. "host" \in Task
    BY DEF Task
  <2>3. \/ sender' = sender
        \/ \E answer \in Message : sender' = [sender EXCEPT !["host"].job = << answer >>]
    <3>1. Response(1) \in Message /\ Response(2) \in Message
      BY DEF Message
    <3>2. \A r : Answer(r) \in Message
      BY <3>1 DEF Answer
    <3>3. QED BY <1>8, <3>1, <3>2 DEF ReportWritten
  <2>4. CASE sender' = sender
    BY <2>1, <2>4, NativeStill DEF NativeInv, NativeTypes
  <2>5. ASSUME NEW answer \in Message,
               sender' = [sender EXCEPT !["host"].job = << answer >>]
        PROVE  NativeInv'
    <3>1. << answer >> \in Seq(Message) /\ touches' \in Seq(Touch)
      BY <2>1 DEF NativeInv, NativeTypes
    <3>2. QED BY <2>1, <2>2, <2>5, <3>1, JobStarts
  <2>6. QED BY <2>3, <2>4, <2>5
<1>9. CASE GapConnects \/ GapSubscribes
  <2>1. UNCHANGED <<touches, sender, mutex, codex, cuts>>
    BY <1>9 DEF GapConnects, GapSubscribes
  <2>2. QED BY <2>1, NativeStill DEF NativeInv, NativeTypes
<1>10. CASE GapDisconnects
  BY <1>10, DisconnectKeeps
<1>11. CASE UNCHANGED codexVars
  <2>1. UNCHANGED <<touches, sender, mutex, codex, cuts>>
    BY <1>11 DEF codexVars
  <2>2. QED BY <2>1, NativeStill DEF NativeInv, NativeTypes
<1>12. QED
  BY <1>1, <1>2, <1>3, <1>4, <1>5, <1>6, <1>7, <1>8, <1>9, <1>10, <1>11 DEF CodexNext

\* codex_notify_json under its mutex: keys and answers are never mixed up in
\* one line of Codex, and a message that is cut off spoils no more than one.
THEOREM LinesKept == CodexSpec => []LinesAreMessages
<1>1. NativeInv => LinesAreMessages
  BY DEF NativeInv, LineInv, LinesAreMessages
<1>2. QED BY <1>1, NativeStarts, NativeStep, PTL DEF CodexSpec

\* Of a request that starts with its method and is half written, the buffer
\* holds just what was written.
RequestInv ==
  /\ request = NoRequest \/ (request.written = 1 /\ Reports(request.of) = 2)
  /\ request # NoRequest /\ request.of.leads =>
       buffer = << [of |-> request.of, index |-> 1] >>

\* codex_report_written, for a request that starts with its method.
LEMMA LeadingReport ==
  ASSUME NativeInv, RequestInv,
         NEW of \in Request, of.leads, ReportWritten(of)
  PROVE  IF request = NoRequest /\ Reports(of) = 2
         THEN /\ request' = [of |-> of, written |-> 1]
              /\ buffer' = << [of |-> of, index |-> 1] >>
         ELSE /\ request' = NoRequest
              /\ sender'["host"].job = << Answer(of) >>
<1> DEFINE index == request.written + 1
           report == [of |-> of, index |-> index]
<1>1. Reports(of) \in {1, 2}
  BY DEF Reports
<1>2. "host" \in DOMAIN sender /\ "job" \in DOMAIN sender["host"]
  BY DEF NativeInv, NativeTypes, Task
<1>3. PICK after \in Appended(report) :
        IF Parses(after)
        THEN sender' = [sender EXCEPT !["host"].job =
               << IF after[1].index = 0 THEN Response(1) ELSE Answer(after[1].of) >>]
        ELSE buffer' = after
  BY DEF ReportWritten
<1>4. /\ request' = IF index = Reports(of) THEN NoRequest
                    ELSE [of |-> of, written |-> index]
      /\ request = NoRequest \/ request.of = of
  BY DEF ReportWritten
<1>5. CASE request = NoRequest
  <2>1. index = 1 /\ report.index = 1 /\ report.of = of
    BY <1>5 DEF NoRequest
  <2>2. Appended(report) = {<< report >>}
    BY <2>1 DEF Appended, Fits, StartsBuffer
  <2>3. after = << report >> /\ after[1] = report /\ Len(after) = 1 /\ after # << >>
    BY <1>3, <2>2
  <2>4. after[1].index = 1 /\ after[1].of = of
    BY <2>1, <2>3
  <2>5. report = [of |-> of, index |-> 1]
    BY <2>1
  <2> HIDE DEF report, index
  <2>6. Parses(after) <=> Reports(of) = 1
    BY <1>1, <2>3, <2>4, <2>5 DEF Parses
  <2>7. QED BY <1>1, <1>2, <1>3, <1>4, <1>5, <2>1, <2>3, <2>4, <2>5, <2>6
<1>6. CASE request # NoRequest
  <2>1. /\ request.written = 1 /\ Reports(of) = 2 /\ request.of = of
        /\ buffer = << [of |-> of, index |-> 1] >>
    BY <1>4, <1>6 DEF RequestInv
  <2>2. index = 2 /\ report.index = 2 /\ report = [of |-> of, index |-> 2]
    BY <2>1
  <2>3. buffer # << >> /\ Len(buffer) = 1 /\ Len(buffer) # BufferReports
    BY <2>1, CodexAssumption
  <2> DEFINE first == [of |-> of, index |-> 1]
  <2>4. first.of = of /\ first.index = 1
    OBVIOUS
  <2>5. buffer = << first >>
    BY <2>1
  <2> HIDE DEF report, index, first
  <2>6. Appended(report) = {Append(buffer, report)}
    BY <2>2, <2>3 DEF Appended, Fits
  <2>7. after = << first, report >> /\ Len(after) = 2 /\ after # << >>
        /\ after[1] = first /\ after[2] = report
    BY <1>3, <2>5, <2>6
  <2>8. \A i \in 1 .. 2 : after[i] = [of |-> of, index |-> i]
    BY <2>2, <2>7 DEF first
  <2>9. Parses(after)
    BY <2>1, <2>4, <2>7, <2>8 DEF Parses
  <2>10. QED BY <1>2, <1>3, <1>4, <1>6, <2>1, <2>2, <2>4, <2>7, <2>9
<1>7. QED BY <1>5, <1>6

LEMMA RequestStep ==
  ASSUME NativeInv, RequestInv, [CodexNext]_codexVars
  PROVE  RequestInv'
<1>1. CASE UNCHANGED <<request, buffer>>
  BY <1>1 DEF RequestInv
<1>2. CASE request' = NoRequest
  BY <1>2 DEF RequestInv
<1>3. ASSUME NEW of \in Request, ReportWritten(of) PROVE RequestInv'
  <2>1. Reports(of) \in {1, 2}
    BY DEF Reports
  <2>2. /\ request' = IF request.written + 1 = Reports(of) THEN NoRequest
                      ELSE [of |-> of, written |-> request.written + 1]
        /\ request = NoRequest \/ request.of = of
    BY <1>3 DEF ReportWritten
  <2>3. request' # NoRequest =>
          /\ request = NoRequest /\ Reports(of) = 2
          /\ request' = [of |-> of, written |-> 1]
    BY <2>1, <2>2 DEF RequestInv, NoRequest
  <2>4. request' = [of |-> of, written |-> 1] => request'.of = of /\ request'.written = 1
    OBVIOUS
  <2>5. CASE of.leads
    BY <1>3, <2>3, <2>4, <2>5, LeadingReport DEF RequestInv
  <2>6. CASE ~of.leads
    BY <2>3, <2>4, <2>6 DEF RequestInv
  <2>7. QED BY <2>5, <2>6
<1>4. QED
  BY <1>1, <1>2, <1>3
  DEF CodexNext, codexVars, Press, Release, ReleaseUnseen, Tap,
      screenUnchanged, Opens, Locks, TakesTouch,
      StartsSending, SendTimesOut, NotifyFails, Notify,
      GapConnects, GapSubscribes, GapDisconnects

\* A request that starts with its method and arrives in one connection is
\* answered, whatever an earlier one left in the buffer: codex_report_written.
THEOREM RequestsKept == CodexSpec => RequestsAreAnswered
<1>1. CodexInit => NativeInv /\ RequestInv
  BY NativeStarts DEF CodexInit, RequestInv
<1>2. NativeInv /\ RequestInv /\ [CodexNext]_codexVars => NativeInv' /\ RequestInv'
  BY NativeStep, RequestStep
<1>3. NativeInv /\ RequestInv =>
        \A of \in Request :
          of.leads /\ ReportWritten(of) /\ request' = NoRequest
            => sender'["host"].job = << Answer(of) >>
  <2> SUFFICES ASSUME NativeInv, RequestInv, NEW of \in Request, of.leads,
                      ReportWritten(of), request' = NoRequest
               PROVE  sender'["host"].job = << Answer(of) >>
    OBVIOUS
  <2>1. request' # [of |-> of, written |-> 1]
    BY DEF NoRequest
  <2>2. QED BY <2>1, LeadingReport
<1>4. QED BY <1>1, <1>2, <1>3, PTL DEF CodexSpec, RequestsAreAnswered
==============================================================================
