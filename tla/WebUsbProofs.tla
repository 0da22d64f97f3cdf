----------------------------- MODULE WebUsbProofs -----------------------------
(***************************************************************************)
(* Proofs about WebUsb, for any cap, packet size, sizes of lines and       *)
(* responses, and any number of lines, disconnects and errors.             *)
(***************************************************************************)
EXTENDS WebUsb, TLAPS, SequenceTheorems

Byte == Nat \X Nat

SentLine == [size : Nat, cr : BOOLEAN]

Types ==
  /\ stage \in 0..Parked /\ link \in {"up", "down", "waiting"}
  /\ sent \in Seq(SentLine)
  /\ tosend \in Seq(Byte) /\ chunk \in Seq(Byte) /\ line \in Seq(Byte)
  /\ queue \in Seq(Seq(Byte)) /\ dispatched \in Seq(Seq(Byte))
  /\ job \in [pc : {"recv", "engine", "write", "reconnect"}, left : Seq(Byte)]
  /\ answered \in Nat /\ rx \in Seq(Byte) /\ got \in Seq(Seq(Byte))
  /\ unplugs \in Nat /\ errors \in Nat

(* A request's size, with the line still being read.                       *)
Sized == /\ Len(line) <= MAX_LINE_BYTES
         /\ \A i \in 1..Len(queue) : Len(queue[i]) \in 1..MAX_LINE_BYTES
         /\ \A i \in 1..Len(dispatched) : Len(dispatched[i]) \in 1..MAX_LINE_BYTES

(* The histories speak of lines and payloads that exist; the dispatcher    *)
(* answers the payload it took last.                                       *)
Counted == /\ answered + (IF job.pc = "recv" THEN 0 ELSE 1) = Len(dispatched)
           /\ hurt \subseteq 1..Len(dispatched) /\ unended \subseteq 1..Len(dispatched)
           /\ torn \subseteq 1..Len(sent)
           /\ tosend # <<>> => sent # <<>>

TInv == Types /\ Sized /\ Counted
-----------------------------------------------------------------------------
LEMMA Constants ==
  /\ MAX_LINE_BYTES \in Nat /\ MAX_LINE_BYTES > 0 /\ Packet \in Nat /\ Packet > 0
  /\ LineSizes \subseteq Nat /\ ResponseSizes \subseteq Nat \ {0}
  /\ MaxLines \in Nat /\ MaxUnplugs \in Nat /\ MaxErrors \in Nat
BY WebUsbAssumption

(* A slice of a sequence.                                                  *)
LEMMA SliceIs ==
  ASSUME NEW S, NEW s \in Seq(S), NEW m \in Nat, NEW n \in Nat, 1 <= m, m <= n + 1, n <= Len(s)
  PROVE  /\ SubSeq(s, m, n) \in Seq(S) /\ Len(SubSeq(s, m, n)) = n - m + 1
         /\ \A i \in 1..(n - m + 1) : SubSeq(s, m, n)[i] = s[m + i - 1]
<1>1. \A i \in m..n : s[i] \in S OBVIOUS
<1>2. /\ SubSeq(s, m, n) \in Seq(S)
      /\ Len(SubSeq(s, m, n)) = IF m <= n THEN n - m + 1 ELSE 0
      /\ \A i \in 1..(n - m + 1) : SubSeq(s, m, n)[i] = s[m + i - 1]
  BY <1>1, SubSeqProperties
<1> QED BY <1>2

LEMMA DropIs ==
  ASSUME NEW S, NEW s \in Seq(S), NEW k \in Nat, NEW n \in Nat, k <= n, n <= Len(s)
  PROVE  /\ SubSeq(s, k + 1, n) \in Seq(S) /\ Len(SubSeq(s, k + 1, n)) = n - k
         /\ \A i \in 1..(n - k) : SubSeq(s, k + 1, n)[i] = s[k + i]
<1>1. PICK m \in Nat : m = k + 1 OBVIOUS
<1>0. 1 <= m /\ m <= n + 1 BY <1>1
<1>2. /\ SubSeq(s, m, n) \in Seq(S) /\ Len(SubSeq(s, m, n)) = n - m + 1
      /\ \A i \in 1..(n - m + 1) : SubSeq(s, m, n)[i] = s[m + i - 1]
  <2> HIDE <1>1
  <2> QED BY <1>0, SliceIs
<1>3. n - m + 1 = n - k /\ \A i \in 1..(n - k) : m + i - 1 = k + i BY <1>1
<1> QED BY <1>1, <1>2, <1>3

LEMMA TextIs ==
  ASSUME NEW k \in Nat, NEW n \in Nat
  PROVE  /\ Text(k, n) \in Seq(Byte) /\ Len(Text(k, n)) = n
         /\ \A i \in 1..n : Text(k, n)[i] = <<k, i>>
BY DEF Text, Byte

LEMMA Delimiters == LF \in Byte /\ CR \in Byte /\ LF # CR
BY DEF LF, CR, Byte

(* What the host puts on the wire for a line.                              *)
LEMMA WireIs ==
  ASSUME NEW k \in Nat, k > 0, NEW l \in SentLine
  PROVE  /\ Wire(k, l) \in Seq(Byte)
         /\ Len(Wire(k, l)) = l.size + (IF l.cr THEN 2 ELSE 1)
         /\ \A i \in 1..l.size : /\ Wire(k, l)[i] = <<k, i>>
                                 /\ Wire(k, l)[i] # LF /\ Wire(k, l)[i] # CR
         /\ l.cr => Wire(k, l)[l.size + 1] = CR
         /\ Wire(k, l)[Len(Wire(k, l))] = LF
<1> DEFINE T == Text(k, l.size)
           C == IF l.cr THEN <<CR>> ELSE <<>>
<1>1. l.size \in Nat /\ l.cr \in BOOLEAN BY DEF SentLine
<1>2. T \in Seq(Byte) /\ Len(T) = l.size /\ \A i \in 1..l.size : T[i] = <<k, i>> BY <1>1, TextIs
<1>3. C \in Seq(Byte) /\ Len(C) = (IF l.cr THEN 1 ELSE 0) /\ (l.cr => C[1] = CR)
  BY <1>1, Delimiters
<1>4. <<LF>> \in Seq(Byte) /\ Len(<<LF>>) = 1 /\ <<LF>>[1] = LF BY Delimiters
<1>5. /\ T \o C \in Seq(Byte) /\ Len(T \o C) = Len(T) + Len(C)
      /\ \A i \in 1..(Len(T) + Len(C)) :
           (T \o C)[i] = IF i <= Len(T) THEN T[i] ELSE C[i - Len(T)]
  BY <1>2, <1>3, ConcatProperties
<1> DEFINE TC == T \o C
<1>6. /\ TC \o <<LF>> \in Seq(Byte) /\ Len(TC \o <<LF>>) = Len(TC) + 1
      /\ \A i \in 1..(Len(TC) + 1) :
           (TC \o <<LF>>)[i] = IF i <= Len(TC) THEN TC[i] ELSE <<LF>>[i - Len(TC)]
  <2> HIDE DEF TC
  <2>1. TC \in Seq(Byte) BY <1>5 DEF TC
  <2> QED BY <2>1, <1>4, ConcatProperties
<1>7. Wire(k, l) = TC \o <<LF>> BY DEF Wire
<1>8. Len(TC) = l.size + (IF l.cr THEN 1 ELSE 0) BY <1>1, <1>2, <1>3, <1>5
<1>9. \A i \in 1..l.size : TC[i] = <<k, i>> BY <1>1, <1>2, <1>3, <1>5
<1>10. l.cr => TC[l.size + 1] = CR BY <1>1, <1>2, <1>3, <1>5
<1>11. \A i \in 1..l.size : <<k, i>> # LF /\ <<k, i>> # CR BY DEF LF, CR
<1> HIDE DEF T, C, TC
<1>12. /\ \A i \in 1..l.size : Wire(k, l)[i] = <<k, i>>
       /\ l.cr => Wire(k, l)[l.size + 1] = CR
       /\ Wire(k, l)[Len(Wire(k, l))] = LF
  BY <1>1, <1>4, <1>6, <1>7, <1>8, <1>9, <1>10
<1>13. /\ Wire(k, l) \in Seq(Byte) /\ Len(Wire(k, l)) = l.size + (IF l.cr THEN 2 ELSE 1)
  BY <1>1, <1>6, <1>7, <1>8
<1> QED BY <1>11, <1>12, <1>13

(* The next packet and what is left after it.                              *)
LEMMA PacketIs ==
  ASSUME NEW S, NEW s \in Seq(S), s # <<>>
  PROVE  \E q \in 1..Len(s) :
           /\ q = PacketLen(s)
           /\ Packed(s) \in Seq(S) /\ Len(Packed(s)) = q
           /\ \A i \in 1..q : Packed(s)[i] = s[i]
           /\ Rest(s) \in Seq(S) /\ Len(Rest(s)) = Len(s) - q
           /\ \A i \in 1..(Len(s) - q) : Rest(s)[i] = s[q + i]
<1>1. Len(s) \in Nat /\ Len(s) > 0 BY EmptySeq
<1>2. PacketLen(s) \in 1..Len(s) BY <1>1, Constants DEF PacketLen
<1>3. PICK q \in 1..Len(s) : q = PacketLen(s) BY <1>2
<1>4. q \in Nat /\ 1 <= q /\ q <= Len(s) BY <1>1
<1>5. Packed(s) = SubSeq(s, 1, q) /\ Rest(s) = SubSeq(s, q + 1, Len(s)) BY <1>3 DEF Packed, Rest
<1>6. /\ SubSeq(s, 1, q) \in Seq(S) /\ Len(SubSeq(s, 1, q)) = q - 1 + 1
      /\ \A i \in 1..(q - 1 + 1) : SubSeq(s, 1, q)[i] = s[1 + i - 1]
  BY <1>1, <1>4, SliceIs
<1>7. q - 1 + 1 = q /\ \A i \in 1..q : 1 + i - 1 = i BY <1>4
<1>8. /\ SubSeq(s, q + 1, Len(s)) \in Seq(S) /\ Len(SubSeq(s, q + 1, Len(s))) = Len(s) - q
      /\ \A i \in 1..(Len(s) - q) : SubSeq(s, q + 1, Len(s))[i] = s[q + i]
  BY <1>1, <1>4, DropIs
<1>9. /\ Packed(s) \in Seq(S) /\ Len(Packed(s)) = q /\ \A i \in 1..q : Packed(s)[i] = s[i]
  BY <1>5, <1>6, <1>7
<1>10. /\ Rest(s) \in Seq(S) /\ Len(Rest(s)) = Len(s) - q
       /\ \A i \in 1..(Len(s) - q) : Rest(s)[i] = s[q + i]
  BY <1>5, <1>8
<1> QED BY <1>3, <1>9, <1>10, Zenon

(* The packets of a slice are slices.                                      *)
LEMMA PacketOfSlice ==
  ASSUME NEW S, NEW s \in Seq(S), NEW m \in Nat, NEW n \in Nat,
         1 <= m, m <= n, n <= Len(s)
  PROVE  \E e \in Nat :
           /\ m <= e /\ e <= n
           /\ Packed(SubSeq(s, m, n)) = SubSeq(s, m, e)
           /\ Rest(SubSeq(s, m, n)) = SubSeq(s, e + 1, n)
<1>0. PICK t : t = SubSeq(s, m, n) OBVIOUS
<1>1. t \in Seq(S) /\ Len(t) = n - m + 1 /\ \A i \in 1..(n - m + 1) : t[i] = s[m + i - 1]
  <2>1. m <= n + 1 OBVIOUS
  <2> QED BY <1>0, <2>1, SliceIs
<1>2. t \in Seq(S) /\ t # <<>>
  <2>1. Len(t) > 0 BY <1>1
  <2> QED BY <2>1, <1>1
<1>3. PICK q \in 1..Len(t) :
           /\ q = PacketLen(t)
           /\ Packed(t) \in Seq(S) /\ Len(Packed(t)) = q
           /\ \A i \in 1..q : Packed(t)[i] = t[i]
           /\ Rest(t) \in Seq(S) /\ Len(Rest(t)) = Len(t) - q
           /\ \A i \in 1..(Len(t) - q) : Rest(t)[i] = t[q + i]
  BY <1>2, PacketIs
<1>4. q \in Nat /\ 1 <= q /\ q <= n - m + 1 BY <1>1
<1>5. PICK e : e = m + q - 1 OBVIOUS
<1>6. e \in Nat /\ m <= e /\ e <= n BY <1>4, <1>5
<1>8. /\ SubSeq(s, m, e) \in Seq(S) /\ Len(SubSeq(s, m, e)) = q
      /\ \A i \in 1..q : SubSeq(s, m, e)[i] = s[m + i - 1]
  <2>1. e - m + 1 = q /\ m <= e + 1 /\ e <= Len(s) BY <1>4, <1>5, <1>6
  <2>2. /\ SubSeq(s, m, e) \in Seq(S) /\ Len(SubSeq(s, m, e)) = e - m + 1
        /\ \A i \in 1..(e - m + 1) : SubSeq(s, m, e)[i] = s[m + i - 1]
    BY <1>6, <2>1, SliceIs
  <2> QED BY <2>1, <2>2
<1>9. Packed(t) = SubSeq(s, m, e)
  <2>1. \A i \in 1..q : t[i] = s[m + i - 1] BY <1>1, <1>4
  <2>3. Len(Packed(t)) = Len(SubSeq(s, m, e)) BY <1>3, <1>8
  <2>4. \A i \in 1..Len(Packed(t)) : Packed(t)[i] = SubSeq(s, m, e)[i] BY <2>1, <1>3, <1>8
  <2>5. Packed(t) \in Seq(S) /\ SubSeq(s, m, e) \in Seq(S) BY <1>3, <1>8
  <2> QED BY <2>3, <2>4, <2>5, SeqEqual
<1>11. /\ SubSeq(s, e + 1, n) \in Seq(S) /\ Len(SubSeq(s, e + 1, n)) = n - e
       /\ \A i \in 1..(n - e) : SubSeq(s, e + 1, n)[i] = s[e + i]
  <2>1. n <= Len(s) OBVIOUS
  <2> QED BY <2>1, <1>6, DropIs
<1>12. Rest(t) = SubSeq(s, e + 1, n)
  <2>1. Len(t) - q = n - e BY <1>1, <1>4, <1>5
  <2>2. \A i \in 1..(n - e) : t[q + i] = s[e + i] BY <1>1, <1>4, <1>5
  <2>3. Len(Rest(t)) = Len(SubSeq(s, e + 1, n)) BY <2>1, <1>3, <1>11
  <2>4. \A i \in 1..Len(Rest(t)) : Rest(t)[i] = SubSeq(s, e + 1, n)[i]
    BY <2>1, <2>2, <1>3, <1>11
  <2>5. Rest(t) \in Seq(S) /\ SubSeq(s, e + 1, n) \in Seq(S) BY <1>3, <1>11
  <2> QED BY <2>3, <2>4, <2>5, SeqEqual
<1> QED BY <1>0, <1>6, <1>9, <1>12

LEMMA PacketSeq ==
  ASSUME NEW S, NEW s \in Seq(S)
  PROVE  Packed(s) \in Seq(S) /\ Rest(s) \in Seq(S)
<1>1. PICK n \in Nat : n = Len(s) OBVIOUS
<1>2. PICK q : q = PacketLen(s) OBVIOUS
<1>3. q \in Nat /\ q <= n BY <1>1, <1>2, Constants DEF PacketLen
<1>4. \A i \in 1..n : s[i] \in S BY <1>1
<1>5. (\A i \in 1..q : s[i] \in S) /\ \A i \in (q + 1)..n : s[i] \in S BY <1>3, <1>4
<1>6. SubSeq(s, 1, q) \in Seq(S) BY <1>3, <1>5, SubSeqProperties
<1>7. q + 1 \in Int /\ n \in Int BY <1>3
<1>8. SubSeq(s, q + 1, n) \in Seq(S) BY <1>7, <1>5, SubSeqProperties
<1> QED BY <1>1, <1>2, <1>6, <1>8 DEF Packed, Rest

LEMMA JobFields ==
  Types => /\ job.pc \in {"recv", "engine", "write", "reconnect"} /\ job.left \in Seq(Byte)
BY DEF Types

(* What the dispatcher's loop does after a chunk.                          *)
LEMMA NextChunkTypes ==
  ASSUME Types, Counted, job.pc # "recv", NEW pc \in {"write", "reconnect"}, NextChunk(pc)
  PROVE  /\ job' \in [pc : {"recv", "engine", "write", "reconnect"}, left : Seq(Byte)]
         /\ answered' \in Nat
         /\ answered' + (IF job'.pc = "recv" THEN 0 ELSE 1) = Len(dispatched)
<1>1. Rest(job.left) \in Seq(Byte) BY JobFields, PacketSeq
<1>2. answered \in Nat /\ answered + 1 = Len(dispatched) BY DEF Types, Counted
<1>3. CASE job' = Recv /\ answered' = answered + 1 BY <1>2, <1>3 DEF Recv
<1>4. CASE job' = [pc |-> pc, left |-> Rest(job.left)] /\ answered' = answered
  <2>1. PICK l \in Seq(Byte) : l = Rest(job.left) BY <1>1
  <2>2. job' = [pc |-> pc, left |-> l] BY <1>4, <2>1
  <2>3. job' \in [pc : {"recv", "engine", "write", "reconnect"}, left : Seq(Byte)] /\ job'.pc = pc
    BY <2>2
  <2> QED BY <2>3, <1>2, <1>4
<1> QED BY <1>3, <1>4 DEF NextChunk

LEMMA ResumeTypes ==
  ASSUME Types, Counted, job.pc = "reconnect",
         IF job.left = <<>> THEN job' = Recv /\ answered' = answered + 1
         ELSE job' = [job EXCEPT !.pc = "write"] /\ UNCHANGED answered
  PROVE  /\ job' \in [pc : {"recv", "engine", "write", "reconnect"}, left : Seq(Byte)]
         /\ answered' \in Nat
         /\ answered' + (IF job'.pc = "recv" THEN 0 ELSE 1) = Len(dispatched)
<1>1. answered \in Nat /\ answered + 1 = Len(dispatched) BY DEF Types, Counted
<1>2. CASE job' = Recv /\ answered' = answered + 1 BY <1>1, <1>2 DEF Recv
<1>3. CASE job' = [job EXCEPT !.pc = "write"] /\ answered' = answered
  BY <1>1, <1>3 DEF Types
<1> QED BY <1>2, <1>3

LEMMA HostTypes ==
  ASSUME Types, NEW packet \in Seq(Byte), HostReads(packet)
  PROVE  rx' \in Seq(Byte) /\ got' \in Seq(Seq(Byte))
<1>1. rx \in Seq(Byte) /\ got \in Seq(Seq(Byte)) BY DEF Types
<1>2. rx \o packet \in Seq(Byte) BY <1>1, ConcatProperties
<1>3. PICK b \in Seq(Byte) : b = rx \o packet BY <1>2
<1>4. SubSeq(b, 1, Len(b) - 1) \in Seq(Byte)
  <2>1. Len(b) - 1 \in Int /\ \A i \in 1..(Len(b) - 1) : b[i] \in Byte OBVIOUS
  <2> QED BY <2>1, SubSeqProperties
<1>5. IF b[Len(b)] = LF
      THEN rx' = <<>> /\ got' = IF SubSeq(b, 1, Len(b) - 1) = <<>> THEN got
                                ELSE Append(got, SubSeq(b, 1, Len(b) - 1))
      ELSE rx' = b /\ got' = got
  BY <1>3 DEF HostReads
<1>6. Append(got, SubSeq(b, 1, Len(b) - 1)) \in Seq(Seq(Byte)) BY <1>1, <1>4, AppendProperties
<1>7. \/ rx' = <<>> /\ got' = got
      \/ rx' = <<>> /\ got' = Append(got, SubSeq(b, 1, Len(b) - 1))
      \/ rx' = b /\ got' = got
  BY <1>5, Zenon
<1>8. <<>> \in Seq(Byte) OBVIOUS
<1> QED BY <1>1, <1>3, <1>6, <1>7, <1>8, Zenon

LEMMA TInvTypes == TInv => TypeOK
<1> SUFFICES ASSUME TInv PROVE TypeOK OBVIOUS
<1>1. Types /\ Sized /\ Counted BY DEF TInv
<1>2. dispatched \in Seq(Seq(Byte)) /\ queue \in Seq(Seq(Byte)) BY <1>1 DEF Types
<1>3. /\ Accepted \in Seq(Seq(Byte)) /\ Len(Accepted) = Len(dispatched) + Len(queue)
      /\ \A i \in 1..(Len(dispatched) + Len(queue)) :
           Accepted[i] = IF i <= Len(dispatched) THEN dispatched[i] ELSE queue[i - Len(dispatched)]
  BY <1>2, ConcatProperties DEF Accepted
<1>4. \A i \in DOMAIN Accepted : Len(Accepted[i]) \in 1..MAX_LINE_BYTES
  <2> TAKE i \in DOMAIN Accepted
  <2>1. /\ Len(dispatched) \in Nat /\ Len(queue) \in Nat
        /\ i \in 1..(Len(dispatched) + Len(queue))
    BY <1>2, <1>3
  <2>2. CASE i <= Len(dispatched)
    <3>1. i \in 1..Len(dispatched) /\ Accepted[i] = dispatched[i] BY <1>3, <2>1, <2>2
    <3> QED BY <3>1, <1>1 DEF Sized
  <2>3. CASE ~(i <= Len(dispatched))
    <3>1. /\ i - Len(dispatched) \in 1..Len(queue)
          /\ Accepted[i] = queue[i - Len(dispatched)]
      BY <1>3, <2>1, <2>3
    <3> QED BY <3>1, <1>1 DEF Sized
  <2> QED BY <2>2, <2>3
<1>5. DOMAIN dispatched = 1..Len(dispatched) /\ DOMAIN sent = 1..Len(sent) BY <1>1 DEF Types
<1>6. Len(line) <= MAX_LINE_BYTES BY <1>1 DEF Sized
<1> QED BY <1>1, <1>4, <1>5, <1>6, JobFields DEF Types, Counted, TypeOK

LEMMA InitTInv == Init => TInv
<1> SUFFICES ASSUME Init PROVE TInv OBVIOUS
<1>1. Types BY DEF Init, Types, Recv, Parked, Registrations
<1>2. Sized BY Constants DEF Init, Sized
<1>3. Counted BY DEF Init, Counted, Recv
<1> QED BY <1>1, <1>2, <1>3 DEF TInv

LEMMA AddLast ==
  ASSUME NEW n \in Nat, n > 0, NEW A, A \subseteq 1..n
  PROVE  A \cup {n} \subseteq 1..n
OBVIOUS

(* The steps that leave the reader and the dispatcher's queue alone.       *)
LEMMA SizedKept ==
  ASSUME Sized, line' = line, queue' = queue, dispatched' = dispatched
  PROVE  Sized'
BY DEF Sized

LEMMA TInvStep == TInv /\ [Next]_vars => TInv'
<1> SUFFICES ASSUME TInv, [Next]_vars PROVE TInv' OBVIOUS
<1> USE DEF host, reader, wire
<1>0. Types /\ Sized /\ Counted BY DEF TInv
<1>1. CASE Register
  <2>1. Types' BY <1>0, <1>1 DEF Types, Register, Parked, Registrations
  <2>2. Sized' BY <1>0, <1>1, SizedKept DEF Register
  <2>3. Counted' BY <1>0, <1>1 DEF Counted, Register
  <2> QED BY <2>1, <2>2, <2>3 DEF TInv
<1>2. ASSUME NEW size \in LineSizes, NEW cr \in BOOLEAN, WriteLine(size, cr) PROVE TInv'
  <2>1. PICK l : l = [size |-> size, cr |-> cr] OBVIOUS
  <2>2. l \in SentLine BY <2>1, Constants DEF SentLine
  <2>3. sent \in Seq(SentLine) /\ Len(sent) \in Nat BY <1>0 DEF Types
  <2>4. sent' = Append(sent, l) /\ tosend' = Wire(Len(sent) + 1, l) BY <1>2, <2>1 DEF WriteLine
  <2>5. /\ sent' \in Seq(SentLine) /\ Len(sent') = Len(sent) + 1 /\ sent' # <<>>
    BY <2>2, <2>3, <2>4, AppendProperties
  <2>6. tosend' \in Seq(Byte)
    <3>1. Len(sent) + 1 \in Nat /\ Len(sent) + 1 > 0 BY <2>3
    <3> QED BY <2>2, <2>4, <3>1, WireIs
  <2>7. Types' BY <1>0, <1>2, <2>5, <2>6 DEF Types, WriteLine
  <2>8. Sized' BY <1>0, <1>2, SizedKept DEF WriteLine
  <2>9. torn' \subseteq 1..Len(sent') BY <1>0, <1>2, <2>3, <2>5 DEF Counted, WriteLine
  <2>10. Counted' BY <1>0, <1>2, <2>5, <2>9 DEF Counted, WriteLine
  <2> QED BY <2>7, <2>8, <2>10 DEF TInv
<1>3. CASE ReadChunk
  <2>1. chunk' \in Seq(Byte) /\ tosend' \in Seq(Byte)
    BY <1>0, <1>3, PacketSeq DEF ReadChunk, Types
  <2>2. Types' BY <1>0, <1>3, <2>1 DEF Types, ReadChunk
  <2>3. Sized' BY <1>0, <1>3, SizedKept DEF ReadChunk
  <2>4. Counted' BY <1>0, <1>3 DEF Counted, ReadChunk
  <2> QED BY <2>2, <2>3, <2>4 DEF TInv
<1>4. CASE ReadByte
  <2> DEFINE b == Head(chunk)
  <2>1. chunk \in Seq(Byte) /\ chunk # <<>> /\ line \in Seq(Byte) /\ queue \in Seq(Seq(Byte))
    BY <1>0, <1>4 DEF Types, ReadByte
  <2>2. b \in Byte /\ chunk' \in Seq(Byte) BY <1>4, <2>1, HeadTailProperties DEF ReadByte
  <2>3. \/ line' = <<>> \/ line' = line
        \/ (line' = Append(line, b) /\ Len(line) < MAX_LINE_BYTES)
    BY <1>4, <2>1, Constants DEF ReadByte
  <2>4. /\ Append(line, b) \in Seq(Byte) /\ Len(Append(line, b)) = Len(line) + 1
    BY <2>1, <2>2, AppendProperties
  <2>5. queue' = queue \/ (line # <<>> /\ queue' = Append(queue, line)) BY <1>4 DEF ReadByte
  <2>6. /\ Append(queue, line) \in Seq(Seq(Byte)) /\ Len(Append(queue, line)) = Len(queue) + 1
        /\ \A i \in 1..Len(queue) : Append(queue, line)[i] = queue[i]
        /\ Append(queue, line)[Len(queue) + 1] = line
    BY <2>1, AppendProperties
  <2>7. line' \in Seq(Byte) /\ Len(line') <= MAX_LINE_BYTES
    <3> HIDE DEF b
    <3>1. Len(line) \in Nat /\ Len(line) <= MAX_LINE_BYTES /\ MAX_LINE_BYTES \in Nat
      BY <1>0, <2>1, Constants DEF Sized
    <3>2. CASE line' = <<>> BY <3>1, <3>2
    <3>3. CASE line' = line BY <3>1, <3>3, <2>1
    <3>4. CASE line' = Append(line, b) /\ Len(line) < MAX_LINE_BYTES BY <3>1, <3>4, <2>4
    <3> QED BY <2>3, <3>2, <3>3, <3>4
  <2>8. queue' \in Seq(Seq(Byte)) BY <2>1, <2>5, <2>6
  <2>9. \A i \in 1..Len(queue') : Len(queue'[i]) \in 1..MAX_LINE_BYTES
    <3>1. \A i \in 1..Len(queue) : Len(queue[i]) \in 1..MAX_LINE_BYTES BY <1>0 DEF Sized
    <3>2. CASE queue' = queue BY <3>1, <3>2
    <3>3. CASE line # <<>> /\ queue' = Append(queue, line)
      <4>1. Len(line) \in 1..MAX_LINE_BYTES BY <1>0, <2>1, <3>3, Constants, EmptySeq DEF Sized
      <4>2. Len(queue') = Len(queue) + 1 /\ Len(queue) \in Nat BY <2>1, <2>6, <3>3
      <4>3. \A i \in 1..Len(queue) : queue'[i] = queue[i] BY <2>6, <3>3
      <4>4. queue'[Len(queue) + 1] = line BY <2>6, <3>3
      <4> QED BY <3>1, <4>1, <4>2, <4>3, <4>4
    <3> QED BY <2>5, <3>2, <3>3
  <2>10. Types' BY <1>0, <1>4, <2>2, <2>7, <2>8 DEF Types, ReadByte
  <2>11. Sized' BY <1>0, <1>4, <2>7, <2>9 DEF Sized, ReadByte
  <2>12. Counted' BY <1>0, <1>4 DEF Counted, ReadByte
  <2> QED BY <2>10, <2>11, <2>12 DEF TInv
<1>5. CASE ReadError
  <2>1. tosend' \in Seq(Byte) BY <1>0, <1>5, PacketSeq DEF ReadError, Types
  <2>2. Types' BY <1>0, <1>5, <2>1 DEF Types, ReadError
  <2>3. Sized' BY <1>0, <1>5, SizedKept DEF ReadError
  <2>4. Len(sent) \in Nat /\ Len(sent) > 0
    <3>1. sent \in Seq(SentLine) BY <1>0 DEF Types
    <3>2. sent # <<>> BY <1>0, <1>5 DEF Counted, ReadError
    <3> QED BY <3>1, <3>2, EmptySeq
  <2>5. torn' \subseteq 1..Len(sent) /\ sent' = sent
    <3>1. torn \subseteq 1..Len(sent) BY <1>0 DEF Counted
    <3>2. torn' = torn \cup {Len(sent)} /\ sent' = sent BY <1>5 DEF ReadError
    <3> QED BY <2>4, <3>1, <3>2, AddLast
  <2>6. Counted' BY <1>0, <1>5, <2>4, <2>5 DEF Counted, ReadError
  <2> QED BY <2>2, <2>3, <2>6 DEF TInv
<1>6. CASE ReadDisconnected
  <2>1. Types' BY <1>0, <1>6 DEF Types, ReadDisconnected
  <2>2. Sized' BY <1>0, <1>6, Constants DEF Sized, ReadDisconnected
  <2>3. Counted' BY <1>0, <1>6 DEF Counted, ReadDisconnected
  <2> QED BY <2>1, <2>2, <2>3 DEF TInv
<1>7. CASE Dispatch
  <2>1. queue \in Seq(Seq(Byte)) /\ queue # <<>> /\ dispatched \in Seq(Seq(Byte))
    BY <1>0, <1>7 DEF Types, Dispatch
  <2>2. /\ Head(queue) \in Seq(Byte) /\ Head(queue) = queue[1]
        /\ queue' \in Seq(Seq(Byte)) /\ Len(queue') = Len(queue) - 1
        /\ \A i \in 1..Len(queue') : queue'[i] = queue[i + 1]
    BY <1>7, <2>1, HeadTailProperties DEF Dispatch
  <2>3. /\ dispatched' \in Seq(Seq(Byte)) /\ Len(dispatched') = Len(dispatched) + 1
        /\ \A i \in 1..Len(dispatched) : dispatched'[i] = dispatched[i]
        /\ dispatched'[Len(dispatched) + 1] = queue[1]
    BY <1>7, <2>1, <2>2, AppendProperties DEF Dispatch
  <2>4. Len(queue) \in Nat /\ Len(queue) > 0 /\ Len(dispatched) \in Nat BY <2>1, EmptySeq
  <2>5. Types' BY <1>0, <1>7, <2>2, <2>3 DEF Types, Dispatch
  <2>6. \A i \in 1..Len(queue') : Len(queue'[i]) \in 1..MAX_LINE_BYTES
    BY <1>0, <2>2, <2>4 DEF Sized
  <2>7. \A i \in 1..Len(dispatched') : Len(dispatched'[i]) \in 1..MAX_LINE_BYTES
    <3>1. /\ \A i \in 1..Len(dispatched) : Len(dispatched[i]) \in 1..MAX_LINE_BYTES
          /\ Len(queue[1]) \in 1..MAX_LINE_BYTES
      BY <1>0, <2>4 DEF Sized
    <3>2. \A i \in 1..(Len(dispatched) + 1) :
            dispatched'[i] = IF i <= Len(dispatched) THEN dispatched[i] ELSE queue[1]
      BY <2>3, <2>4
    <3> QED BY <2>3, <2>4, <3>1, <3>2
  <2>8. Sized' BY <1>0, <1>7, <2>6, <2>7 DEF Sized, Dispatch
  <2>9. job'.pc = "engine" /\ job.pc = "recv" BY <1>0, <1>7 DEF Dispatch, Types
  <2>10. answered' + 1 = Len(dispatched')
    BY <1>0, <1>7, <2>3, <2>4, <2>9 DEF Counted, Types, Dispatch
  <2>11. hurt' \subseteq 1..Len(dispatched') /\ unended' \subseteq 1..Len(dispatched')
    BY <1>0, <1>7, <2>3, <2>4 DEF Counted, Dispatch
  <2>12. Counted' BY <1>0, <1>7, <2>9, <2>10, <2>11 DEF Counted, Dispatch
  <2> QED BY <2>5, <2>8, <2>12 DEF TInv
<1>8. ASSUME NEW size \in ResponseSizes, Respond(size) PROVE TInv'
  <2>1. Len(dispatched) \in Nat /\ size \in Nat BY <1>0, Constants DEF Types
  <2>2. Append(Text(Len(dispatched), size), LF) \in Seq(Byte)
    BY <2>1, TextIs, Delimiters, AppendProperties
  <2>3. PICK l \in Seq(Byte) : l = Append(Text(Len(dispatched), size), LF) BY <2>2
  <2>4. job' = [pc |-> "write", left |-> l] BY <1>8, <2>3 DEF Respond
  <2>5. /\ job' \in [pc : {"recv", "engine", "write", "reconnect"}, left : Seq(Byte)]
        /\ job'.pc = "write"
    BY <2>4
  <2>9. job.pc = "engine" BY <1>8 DEF Respond
  <2>6. Types' BY <1>0, <1>8, <2>5 DEF Types, Respond
  <2>7. Sized' BY <1>0, <1>8, SizedKept DEF Respond
  <2>8. Counted' BY <1>0, <1>8, <2>5, <2>9 DEF Counted, Respond
  <2> QED BY <2>6, <2>7, <2>8 DEF TInv
<1>9. CASE WriteOk
  <2>1. job.pc # "recv" /\ NextChunk("write") BY <1>9 DEF WriteOk
  <2>2. Packed(job.left) \in Seq(Byte) BY <1>0, JobFields, PacketSeq
  <2>3. rx' \in Seq(Byte) /\ got' \in Seq(Seq(Byte)) BY <1>0, <1>9, <2>2, HostTypes DEF WriteOk
  <2>4. /\ job' \in [pc : {"recv", "engine", "write", "reconnect"}, left : Seq(Byte)]
        /\ answered' \in Nat
        /\ answered' + (IF job'.pc = "recv" THEN 0 ELSE 1) = Len(dispatched)
    BY <1>0, <2>1, NextChunkTypes
  <2>5. Types' BY <1>0, <1>9, <2>3, <2>4 DEF Types, WriteOk
  <2>6. Sized' BY <1>0, <1>9, SizedKept DEF WriteOk
  <2>7. Counted' BY <1>0, <1>9, <2>4 DEF Counted, WriteOk
  <2> QED BY <2>5, <2>6, <2>7 DEF TInv
<1>10. ASSUME job.pc # "recv", Skip
       PROVE  hurt' \subseteq 1..Len(dispatched) /\ unended' \subseteq 1..Len(dispatched)
  <2>1. Len(dispatched) \in Nat /\ Len(dispatched) > 0 BY <1>0, <1>10 DEF Types, Counted
  <2>2. hurt' = hurt \cup {Len(dispatched)} BY <1>10 DEF Skip
  <2>3. unended' = unended \/ unended' = unended \cup {Len(dispatched)} BY <1>10 DEF Skip
  <2>4. hurt \subseteq 1..Len(dispatched) /\ unended \subseteq 1..Len(dispatched)
    BY <1>0 DEF Counted
  <2>5. /\ hurt \cup {Len(dispatched)} \subseteq 1..Len(dispatched)
        /\ unended \cup {Len(dispatched)} \subseteq 1..Len(dispatched)
    BY <2>1, <2>4, AddLast
  <2> QED BY <2>2, <2>3, <2>4, <2>5
<1>11. CASE WriteError
  <2>1. job.pc # "recv" /\ NextChunk("write") /\ Skip BY <1>11 DEF WriteError
  <2>4. /\ job' \in [pc : {"recv", "engine", "write", "reconnect"}, left : Seq(Byte)]
        /\ answered' \in Nat
        /\ answered' + (IF job'.pc = "recv" THEN 0 ELSE 1) = Len(dispatched)
    BY <1>0, <2>1, NextChunkTypes
  <2>5. Types' BY <1>0, <1>11, <2>4 DEF Types, WriteError, Skip
  <2>6. Sized' BY <1>0, <1>11, SizedKept DEF WriteError
  <2>7. Counted' BY <1>0, <1>10, <1>11, <2>1, <2>4 DEF Counted, WriteError, Skip
  <2> QED BY <2>5, <2>6, <2>7 DEF TInv
<1>12. CASE WriteDisconnected
  <2>1. job.pc # "recv" /\ NextChunk("reconnect") /\ Skip BY <1>12 DEF WriteDisconnected
  <2>4. /\ job' \in [pc : {"recv", "engine", "write", "reconnect"}, left : Seq(Byte)]
        /\ answered' \in Nat
        /\ answered' + (IF job'.pc = "recv" THEN 0 ELSE 1) = Len(dispatched)
    BY <1>0, <2>1, NextChunkTypes
  <2>5. Types' BY <1>0, <1>12, <2>4 DEF Types, WriteDisconnected, Skip
  <2>6. Sized' BY <1>0, <1>12, SizedKept DEF WriteDisconnected
  <2>7. Counted' BY <1>0, <1>10, <1>12, <2>1, <2>4 DEF Counted, WriteDisconnected, Skip
  <2> QED BY <2>5, <2>6, <2>7 DEF TInv
<1>13. CASE WriterResumes \/ WaitFails
  <2>1. /\ job.pc = "reconnect"
        /\ IF job.left = <<>> THEN job' = Recv /\ answered' = answered + 1
           ELSE job' = [job EXCEPT !.pc = "write"] /\ UNCHANGED answered
    BY <1>13 DEF WriterResumes, WaitFails
  <2>2. /\ UNCHANGED <<stage, link, host, reader, dispatched, wire, unplugs>>
        /\ errors' = errors \/ errors' = errors + 1
    BY <1>13 DEF WriterResumes, WaitFails
  <2>4. /\ job' \in [pc : {"recv", "engine", "write", "reconnect"}, left : Seq(Byte)]
        /\ answered' \in Nat
        /\ answered' + (IF job'.pc = "recv" THEN 0 ELSE 1) = Len(dispatched)
    BY <1>0, <2>1, ResumeTypes
  <2>5. Types' BY <1>0, <2>2, <2>4 DEF Types
  <2>6. Sized' BY <1>0, <2>2, SizedKept
  <2>7. Counted' BY <1>0, <2>2, <2>4 DEF Counted
  <2> QED BY <2>5, <2>6, <2>7 DEF TInv
<1>14. CASE Unplug
  <2>1. Types' BY <1>0, <1>14 DEF Types, Unplug
  <2>2. Sized' BY <1>0, <1>14, SizedKept DEF Unplug
  <2>3. hurt' \subseteq 1..Len(dispatched)
    <3>1. CASE job.pc = "write"
      <4>1. Len(dispatched) \in Nat /\ Len(dispatched) > 0 BY <1>0, <3>1 DEF Types, Counted
      <4>2. hurt \subseteq 1..Len(dispatched) BY <1>0 DEF Counted
      <4>3. hurt' = hurt \cup {Len(dispatched)} BY <1>14, <3>1 DEF Unplug
      <4> QED BY <4>1, <4>2, <4>3, AddLast
    <3> QED BY <1>0, <1>14, <3>1 DEF Counted, Unplug
  <2>4. Counted' BY <1>0, <1>14, <2>3 DEF Counted, Unplug
  <2> QED BY <2>1, <2>2, <2>4 DEF TInv
<1>15. CASE Plug
  <2>1. Types' BY <1>0, <1>15 DEF Types, Plug
  <2>2. Sized' BY <1>0, <1>15, SizedKept DEF Plug
  <2>3. Counted' BY <1>0, <1>15 DEF Counted, Plug
  <2> QED BY <2>1, <2>2, <2>3 DEF TInv
<1>16. CASE UNCHANGED vars
  <2>1. Types' BY <1>0, <1>16 DEF Types, vars
  <2>2. Sized' BY <1>0, <1>16, SizedKept DEF vars
  <2>3. Counted' BY <1>0, <1>16 DEF Counted, vars
  <2> QED BY <2>1, <2>2, <2>3 DEF TInv
<1> QED
  BY <1>1, <1>2, <1>3, <1>4, <1>5, <1>6, <1>7, <1>8, <1>9, <1>11, <1>12, <1>13, <1>14, <1>15, <1>16
  DEF Next, Reader, Dispatcher

(* The type invariant, for every cap, packet size and number of faults: no *)
(* request is empty or over MAX_LINE_BYTES, and the dispatcher has         *)
(* answered all it took but the one in hand (webusb.rs reader_loop,        *)
(* serve_blocking).                                                        *)
THEOREM TypeSafety == Spec => []TypeOK
<1>1. TInv /\ [Next]_vars => TInv' BY TInvStep
<1>2. Spec => []TInv BY InitTInv, <1>1, PTL DEF Spec
<1> QED BY <1>2, TInvTypes, PTL

(* The reader.  W(r) is what the host sends for its line r; a line is      *)
(* disturbed if a packet of it, or of the one before, was lost.            *)
W(r) == Wire(r, sent[r])

Disturbed(r) == r \in torn \/ r - 1 \in torn

(* With q bytes of the text of line r read and d times the cap exceeded,   *)
(* the reader holds what came after the byte it dropped last.              *)
Holds(r, q, d) ==
  /\ q = d * (MAX_LINE_BYTES + 1) + Len(line)
  /\ \A i \in 1..Len(line) : line[i] = <<r, d * (MAX_LINE_BYTES + 1) + i>>

TextRead(r, p) == IF p <= sent[r].size THEN p - 1 ELSE sent[r].size

(* What the reader holds when byte p of line r comes next.                 *)
LineAt(r, p) ==
  /\ p <= Len(W(r)) => Disturbed(r) \/ \E d \in Nat : Holds(r, TextRead(r, p), d)
  /\ p > Len(W(r)) => line = <<>> \/ r \in torn
  /\ line # <<>> => line[1][1] <= r /\ (line[1][1] = r \/ line[1][1] \in torn)

(* What it has accepted came earlier.                                      *)
Earlier(r, p) ==
  \A i \in 1..Len(Accepted) : /\ Accepted[i][1][1] <= r
                              /\ p <= Len(W(r)) => Accepted[i][1][1] < r
                              /\ line # <<>> => Accepted[i][1][1] < line[1][1]

(* The packet in hand is bytes p to e of line r, and the host has the rest *)
(* of the line to send, or has begun the next, or has forgotten it.        *)
Stream(r, p, e) ==
  /\ r <= Len(sent) /\ 1 <= r /\ 1 <= p /\ p <= e + 1 /\ e <= Len(W(r))
  /\ chunk = SubSeq(W(r), p, e)
  /\ \/ r = Len(sent) /\ tosend = SubSeq(W(r), e + 1, Len(W(r)))
     \/ r + 1 = Len(sent) /\ e = Len(W(r)) /\ tosend = W(r + 1)
     \/ link = "down" /\ tosend = <<>>

Idle == /\ chunk = <<>> /\ tosend = <<>> /\ line = <<>>
        /\ \A i \in 1..Len(Accepted) : Accepted[i][1][1] <= Len(sent)

SInv == /\ Idle \/ \E r, p, e \in Nat : Stream(r, p, e) /\ LineAt(r, p) /\ Earlier(r, p)
        /\ link = "waiting" => Idle
        /\ link # "up" => tosend = <<>>

RInv == TInv /\ SInv /\ NothingSpliced
-----------------------------------------------------------------------------
LEMMA DivIs ==
  ASSUME NEW m \in Nat, NEW d \in Nat, NEW l \in Nat, l < m
  PROVE  (d * m + l) \div m = d
OBVIOUS

LEMMA ByteFields ==
  ASSUME NEW b \in Byte
  PROVE  b[1] \in Nat
BY DEF Byte

LEMMA WIs ==
  ASSUME Types, NEW r \in Nat, 1 <= r, r <= Len(sent)
  PROVE  /\ sent[r].size \in Nat /\ W(r) \in Seq(Byte)
         /\ Len(W(r)) \in Nat /\ Len(W(r)) > sent[r].size
         /\ \A i \in 1..sent[r].size : W(r)[i] = <<r, i>> /\ W(r)[i] # LF /\ W(r)[i] # CR
         /\ \A i \in (sent[r].size + 1)..Len(W(r)) :
              W(r)[i] = IF i = Len(W(r)) THEN LF ELSE CR
<1>0. sent \in Seq(SentLine) BY DEF Types
<1>1. r \in 1..Len(sent) BY <1>0
<1>2. PICK l \in SentLine : l = sent[r] BY <1>0, <1>1
<1>3. l.size \in Nat /\ l.cr \in BOOLEAN BY DEF SentLine
<1>4. r > 0 OBVIOUS
<1>5. /\ Wire(r, l) \in Seq(Byte)
      /\ Len(Wire(r, l)) = l.size + (IF l.cr THEN 2 ELSE 1)
      /\ \A i \in 1..l.size : /\ Wire(r, l)[i] = <<r, i>>
                              /\ Wire(r, l)[i] # LF /\ Wire(r, l)[i] # CR
      /\ l.cr => Wire(r, l)[l.size + 1] = CR
      /\ Wire(r, l)[Len(Wire(r, l))] = LF
  BY <1>4, WireIs
<1>6. Len(Wire(r, l)) \in Nat /\ Len(Wire(r, l)) > l.size BY <1>3, <1>5
<1>7. \A i \in (l.size + 1)..Len(Wire(r, l)) :
              Wire(r, l)[i] = IF i = Len(Wire(r, l)) THEN LF ELSE CR
  <2> TAKE i \in (l.size + 1)..Len(Wire(r, l))
  <2>1. CASE i = Len(Wire(r, l)) BY <1>5, <2>1
  <2>2. CASE i # Len(Wire(r, l))
    <3>1. i = l.size + 1 /\ l.cr BY <1>3, <1>5, <2>2
    <3> QED BY <1>5, <2>2, <3>1
  <2> QED BY <2>1, <2>2
<1> QED BY <1>2, <1>3, <1>5, <1>6, <1>7 DEF W

LEMMA AcceptedIs ==
  ASSUME TInv
  PROVE  /\ Accepted \in Seq(Seq(Byte)) /\ Len(Accepted) \in Nat
         /\ DOMAIN Accepted = 1..Len(Accepted)
         /\ \A i \in 1..Len(Accepted) : Accepted[i] # <<>> /\ Accepted[i][1][1] \in Nat
<1>1. Types /\ Sized BY DEF TInv
<1>2. dispatched \in Seq(Seq(Byte)) /\ queue \in Seq(Seq(Byte)) BY <1>1 DEF Types
<1>3. Accepted \in Seq(Seq(Byte)) BY <1>2, ConcatProperties DEF Accepted
<1>4. \A i \in DOMAIN Accepted : Len(Accepted[i]) \in 1..MAX_LINE_BYTES BY TInvTypes DEF TypeOK
<1>5. DOMAIN Accepted = 1..Len(Accepted) /\ Len(Accepted) \in Nat BY <1>3
<1>6. ASSUME NEW i \in 1..Len(Accepted) PROVE Accepted[i] # <<>> /\ Accepted[i][1][1] \in Nat
  <2>1. PICK s \in Seq(Byte) : s = Accepted[i] BY <1>3, <1>5
  <2>2. Len(s) \in 1..MAX_LINE_BYTES BY <1>4, <1>5, <2>1
  <2>3. Len(s) >= 1 /\ Len(s) \in Nat BY <2>2, Constants
  <2>4. s # <<>> /\ s[1] \in Byte BY <2>3
  <2> QED BY <2>1, <2>4, ByteFields
<1> QED BY <1>3, <1>5, <1>6

LEMMA LineHead ==
  ASSUME Types, line # <<>>
  PROVE  line[1][1] \in Nat /\ Len(line) \in Nat /\ Len(line) > 0
<1>1. line \in Seq(Byte) BY DEF Types
<1>2. Len(line) \in Nat /\ Len(line) > 0 BY <1>1, EmptySeq
<1>3. line[1] \in Byte BY <1>1, <1>2
<1> QED BY <1>2, <1>3, ByteFields

(* A line that was read undisturbed is the tail of what the host sent.     *)
LEMMA HoldsIsTail ==
  ASSUME Types, Sized, NEW r \in Nat, 1 <= r, r <= Len(sent), NEW d \in Nat,
         Holds(r, sent[r].size, d)
  PROVE  TailOf(line, r)
<1> DEFINE M == MAX_LINE_BYTES + 1
<1>1. M \in Nat /\ M > 0 BY Constants
<1>2. line \in Seq(Byte) /\ Len(line) \in Nat /\ Len(line) < M
  <2>1. line \in Seq(Byte) BY DEF Types
  <2>2. Len(line) \in Nat /\ Len(line) <= MAX_LINE_BYTES BY <2>1 DEF Sized
  <2> QED BY <2>1, <2>2, Constants
<1>3. PICK n \in Nat : n = sent[r].size BY WIs
<1>4. PICK k : k = d * M OBVIOUS
<1>5. n = k + Len(line) /\ \A i \in 1..Len(line) : line[i] = <<r, k + i>>
  BY <1>3, <1>4 DEF Holds
<1> HIDE DEF M
<1>6. k \in Nat BY <1>1, <1>4
<1>7. n \div M = d BY <1>1, <1>2, <1>4, <1>5, DivIs
<1>8. M * (n \div M) = k BY <1>1, <1>4, <1>7
<1>9. /\ Text(r, n) \in Seq(Byte) /\ Len(Text(r, n)) = n
      /\ \A i \in 1..n : Text(r, n)[i] = <<r, i>>
  BY <1>3, TextIs
<1>10. PICK t \in Seq(Byte) : t = Text(r, n) BY <1>9
<1>11. k <= n /\ n <= Len(t) /\ n - k = Len(line) BY <1>2, <1>5, <1>6, <1>9, <1>10
<1>12. /\ SubSeq(t, k + 1, n) \in Seq(Byte) /\ Len(SubSeq(t, k + 1, n)) = n - k
       /\ \A i \in 1..(n - k) : SubSeq(t, k + 1, n)[i] = t[k + i]
  BY <1>3, <1>6, <1>11, DropIs
<1>13. \A i \in 1..Len(line) : line[i] = SubSeq(t, k + 1, n)[i]
  <2> TAKE i \in 1..Len(line)
  <2>1. k + i \in 1..n BY <1>2, <1>5, <1>6
  <2>2. t[k + i] = <<r, k + i>> BY <2>1, <1>9, <1>10
  <2>3. SubSeq(t, k + 1, n)[i] = t[k + i] BY <1>11, <1>12
  <2> QED BY <2>2, <2>3, <1>5
<1>14. line = SubSeq(t, k + 1, n)
  <2>1. Len(line) = Len(SubSeq(t, k + 1, n)) BY <1>11, <1>12
  <2> QED BY <1>2, <1>12, <1>13, <2>1, SeqEqual
<1> QED BY <1>3, <1>8, <1>10, <1>14 DEF TailOf, Kept, M

(* What has been accepted stays accepted.                                  *)
LEMMA SplicedKept ==
  ASSUME TInv, NothingSpliced, Accepted' = Accepted, torn \subseteq torn',
         sent' \in Seq(SentLine), Len(sent) <= Len(sent'),
         \A k \in 1..Len(sent) : sent'[k] = sent[k]
  PROVE  NothingSpliced'
<1>1. sent \in Seq(SentLine) BY DEF TInv, Types
<1>2. DOMAIN sent \subseteq DOMAIN sent' /\ \A k \in DOMAIN sent : sent'[k] = sent[k]
  <2>1. Len(sent) \in Nat /\ Len(sent') \in Nat BY <1>1
  <2>2. DOMAIN sent = 1..Len(sent) /\ DOMAIN sent' = 1..Len(sent') BY <1>1
  <2> QED BY <2>1, <2>2
<1>3. ASSUME NEW i \in DOMAIN Accepted'
      PROVE  \/ \E k \in DOMAIN sent' : TailOf(Accepted[i], k)'
             \/ Accepted'[i][1][1] \in torn' \/ Accepted'[i][1][1] - 1 \in torn'
  <2>1. i \in DOMAIN Accepted OBVIOUS
  <2>2. CASE \E k \in DOMAIN sent : TailOf(Accepted[i], k)
    <3>1. PICK k \in DOMAIN sent : TailOf(Accepted[i], k) BY <2>2
    <3>2. k \in DOMAIN sent' /\ sent'[k] = sent[k] BY <1>2
    <3>3. TailOf(Accepted[i], k)' BY <3>1, <3>2 DEF TailOf, Kept
    <3> QED BY <3>2, <3>3
  <2>3. CASE Accepted[i][1][1] \in torn \/ Accepted[i][1][1] - 1 \in torn BY <2>3
  <2> QED BY <2>1, <2>2, <2>3 DEF NothingSpliced
<1>4. \A i, j \in DOMAIN Accepted' : i < j => Accepted'[i][1][1] < Accepted'[j][1][1]
  BY DEF NothingSpliced
<1> QED BY <1>3, <1>4 DEF NothingSpliced

LEMMA LineAtKept ==
  ASSUME NEW r, NEW p, LineAt(r, p), sent'[r] = sent[r], torn \subseteq torn', line' = line
  PROVE  LineAt(r, p)'
<1>1. W(r)' = W(r) /\ TextRead(r, p)' = TextRead(r, p) BY DEF W, TextRead
<1>2. Disturbed(r) => Disturbed(r)' BY DEF Disturbed
<1>3. ASSUME NEW d \in Nat, Holds(r, TextRead(r, p), d) PROVE Holds(r, TextRead(r, p), d)'
  BY <1>1, <1>3 DEF Holds
<1>4. p <= Len(W(r)') => Disturbed(r)' \/ \E d \in Nat : Holds(r, TextRead(r, p), d)'
  BY <1>1, <1>2, <1>3 DEF LineAt
<1>5. p > Len(W(r)') => line' = <<>> \/ r \in torn' BY <1>1 DEF LineAt
<1>6. line' # <<>> => line'[1][1] <= r /\ (line'[1][1] = r \/ line'[1][1] \in torn')
  BY DEF LineAt
<1> QED BY <1>4, <1>5, <1>6 DEF LineAt

LEMMA EarlierKept ==
  ASSUME NEW r, NEW p, Earlier(r, p), sent'[r] = sent[r], line' = line, Accepted' = Accepted
  PROVE  Earlier(r, p)'
BY DEF Earlier, W

LEMMA RInvFramed ==
  ASSUME RInv, TInv', sent' = sent, torn' = torn, line' = line, Accepted' = Accepted,
         chunk' = chunk, tosend' = tosend, link' = link
  PROVE  RInv'
<1>1. TInv /\ NothingSpliced /\ SInv BY DEF RInv
<1>2. SInv'
  <2>1. Idle => Idle' BY DEF Idle
  <2>2. ASSUME NEW r \in Nat, NEW p \in Nat, NEW e \in Nat,
               Stream(r, p, e), LineAt(r, p), Earlier(r, p)
        PROVE  Stream(r, p, e)' /\ LineAt(r, p)' /\ Earlier(r, p)'
    <3>1. Stream(r, p, e)' BY <2>2 DEF Stream, W
    <3> QED BY <2>2, <3>1, LineAtKept, EarlierKept
  <2>3. Idle' \/ \E r, p, e \in Nat : Stream(r, p, e)' /\ LineAt(r, p)' /\ Earlier(r, p)'
    BY <1>1, <2>1, <2>2 DEF SInv
  <2>4. link' = "waiting" => Idle' BY <1>1, <2>1 DEF SInv
  <2>5. link' # "up" => tosend' = <<>> BY <1>1 DEF SInv
  <2> QED BY <2>3, <2>4, <2>5 DEF SInv
<1>3. NothingSpliced'
  <2>1. sent \in Seq(SentLine) /\ Len(sent) <= Len(sent) BY <1>1 DEF TInv, Types
  <2> QED BY <1>1, <2>1, SplicedKept
<1> QED BY <1>2, <1>3 DEF RInv

LEMMA DispatchAccepted ==
  ASSUME Types, Dispatch
  PROVE  Accepted' = Accepted
<1>1. queue \in Seq(Seq(Byte)) /\ queue # <<>> /\ dispatched \in Seq(Seq(Byte))
  BY DEF Types, Dispatch
<1>2. PICK h, t, d : h = Head(queue) /\ t = Tail(queue) /\ d = dispatched OBVIOUS
<1>3. /\ h \in Seq(Byte) /\ h = queue[1] /\ t \in Seq(Seq(Byte)) /\ Len(t) = Len(queue) - 1
      /\ \A i \in 1..Len(t) : t[i] = queue[i + 1]
  BY <1>1, <1>2, HeadTailProperties
<1>4. d \in Seq(Seq(Byte)) /\ Len(d) \in Nat /\ Len(queue) \in Nat /\ Len(queue) > 0
  BY <1>1, <1>2, EmptySeq
<1>5. PICK a : a = Append(d, h) OBVIOUS
<1>6. /\ a \in Seq(Seq(Byte)) /\ Len(a) = Len(d) + 1
      /\ \A i \in 1..Len(d) : a[i] = d[i]
      /\ a[Len(d) + 1] = h
  BY <1>3, <1>4, <1>5, AppendProperties
<1>7. /\ a \o t \in Seq(Seq(Byte)) /\ Len(a \o t) = Len(a) + Len(t)
      /\ \A i \in 1..(Len(a) + Len(t)) :
           (a \o t)[i] = IF i <= Len(a) THEN a[i] ELSE t[i - Len(a)]
  BY <1>3, <1>6, ConcatProperties
<1>8. /\ d \o queue \in Seq(Seq(Byte)) /\ Len(d \o queue) = Len(d) + Len(queue)
      /\ \A i \in 1..(Len(d) + Len(queue)) :
           (d \o queue)[i] = IF i <= Len(d) THEN d[i] ELSE queue[i - Len(d)]
  BY <1>1, <1>4, ConcatProperties
<1>9. Len(a \o t) = Len(d \o queue) BY <1>3, <1>4, <1>6, <1>7, <1>8
<1>10. ASSUME NEW i \in 1..Len(a \o t) PROVE (a \o t)[i] = (d \o queue)[i]
  <2>1. i \in 1..(Len(d) + Len(queue)) /\ i \in 1..(Len(a) + Len(t)) BY <1>7, <1>8, <1>9
  <2>2. (a \o t)[i] = IF i <= Len(a) THEN a[i] ELSE t[i - Len(a)] BY <2>1, <1>7
  <2>3. (d \o queue)[i] = IF i <= Len(d) THEN d[i] ELSE queue[i - Len(d)] BY <2>1, <1>8
  <2>4. CASE i <= Len(d) BY <2>1, <2>2, <2>3, <2>4, <1>4, <1>6
  <2>5. CASE i = Len(d) + 1
    <3>1. (a \o t)[i] = h BY <2>2, <2>5, <1>4, <1>6
    <3>2. (d \o queue)[i] = queue[1] BY <2>3, <2>5, <1>4
    <3> QED BY <3>1, <3>2, <1>3
  <2>6. CASE i > Len(d) + 1
    <3>1. i - Len(a) \in 1..Len(t) /\ i - Len(a) + 1 = i - Len(d) BY <2>1, <2>6, <1>3, <1>4, <1>6
    <3>2. (a \o t)[i] = t[i - Len(a)] BY <2>1, <2>2, <2>6, <1>4, <1>6
    <3>3. (d \o queue)[i] = queue[i - Len(d)] BY <2>1, <2>3, <2>6, <1>4
    <3> QED BY <3>1, <3>2, <3>3, <1>3
  <2> QED BY <2>1, <2>4, <2>5, <2>6, <1>4
<1>11. a \o t = d \o queue BY <1>7, <1>8, <1>9, <1>10, SeqEqual
<1>12. dispatched' = a /\ queue' = t BY <1>2, <1>5 DEF Dispatch
<1> QED BY <1>2, <1>11, <1>12 DEF Accepted

LEMMA SendAccepted ==
  ASSUME Types, queue' = Append(queue, line), dispatched' = dispatched
  PROVE  Accepted' = Append(Accepted, line)
<1>1. queue \in Seq(Seq(Byte)) /\ dispatched \in Seq(Seq(Byte)) /\ line \in Seq(Byte) BY DEF Types
<1>2. <<line>> \in Seq(Seq(Byte)) BY <1>1
<1>3. Append(queue, line) = queue \o <<line>> BY <1>1, AppendIsConcat
<1>4. (dispatched \o queue) \o <<line>> = dispatched \o (queue \o <<line>>)
  BY <1>1, <1>2, ConcatAssociative
<1>5. dispatched \o queue \in Seq(Seq(Byte)) BY <1>1, ConcatProperties
<1>6. Append(dispatched \o queue, line) = (dispatched \o queue) \o <<line>>
  BY <1>1, <1>5, AppendIsConcat
<1> QED BY <1>3, <1>4, <1>6 DEF Accepted

(* The reader is about to read: what the host has still to send is the     *)
(* rest of its current line.                                               *)
LEMMA Fresh ==
  ASSUME RInv, link = "up", chunk = <<>>, tosend # <<>>
  PROVE  \E n, e \in Nat : /\ n = Len(sent) /\ 1 <= n /\ e < Len(W(n))
                           /\ tosend = SubSeq(W(n), e + 1, Len(W(n)))
                           /\ LineAt(n, e + 1) /\ Earlier(n, e + 1)
<1>1. Types /\ TInv /\ SInv BY DEF RInv, TInv
<1>2. PICK r, p, e \in Nat : Stream(r, p, e) /\ LineAt(r, p) /\ Earlier(r, p)
  BY <1>1 DEF SInv, Idle
<1>3. /\ r <= Len(sent) /\ 1 <= r /\ 1 <= p /\ p <= e + 1 /\ e <= Len(W(r))
      /\ SubSeq(W(r), p, e) = <<>>
  BY <1>2 DEF Stream
<1>4. W(r) \in Seq(Byte) /\ Len(W(r)) \in Nat BY <1>1, <1>3, WIs
<1>5. p = e + 1
  <2>1. Len(SubSeq(W(r), p, e)) = e - p + 1 BY <1>3, <1>4, SliceIs
  <2>2. e - p + 1 = 0 BY <2>1, <1>3
  <2> QED BY <2>2
<1>6. CASE r = Len(sent) /\ tosend = SubSeq(W(r), e + 1, Len(W(r)))
  <2>1. e # Len(W(r))
    <3>1. SUFFICES ASSUME e = Len(W(r)) PROVE FALSE OBVIOUS
    <3>2. Len(W(r)) < e + 1 /\ e + 1 \in Int /\ Len(W(r)) \in Int BY <3>1, <1>4
    <3>3. SubSeq(W(r), e + 1, Len(W(r))) = <<>> BY <3>2, SubSeqEmpty
    <3> QED BY <3>3, <1>6
  <2>2. e < Len(W(r)) BY <2>1, <1>3, <1>4
  <2> QED BY <2>2, <1>2, <1>3, <1>5, <1>6
<1>7. CASE r + 1 = Len(sent) /\ e = Len(W(r)) /\ tosend = W(r + 1)
  <2>1. PICK n \in Nat : n = r + 1 OBVIOUS
  <2>2. n = Len(sent) /\ 1 <= n /\ n <= Len(sent) /\ n - 1 = r BY <1>7, <2>1
  <2>3. W(n) \in Seq(Byte) /\ Len(W(n)) \in Nat /\ Len(W(n)) > sent[n].size /\ sent[n].size \in Nat
    BY <1>1, <2>2, WIs
  <2>4. tosend = SubSeq(W(n), 1, Len(W(n))) BY <1>7, <2>1, <2>3, SubSeqFull
  <2>5. line = <<>> \/ r \in torn BY <1>2, <1>3, <1>4, <1>5, <1>7 DEF LineAt
  <2>6. line # <<>> => line[1][1] \in Nat BY <1>1, LineHead
  <2>7. TextRead(n, 1) = 0 BY <2>3 DEF TextRead
  <2>8. Disturbed(n) \/ \E d \in Nat : Holds(n, TextRead(n, 1), d)
    <3>1. CASE r \in torn BY <2>2, <3>1 DEF Disturbed
    <3>2. CASE line = <<>>
      <4>1. Holds(n, 0, 0) BY <3>2, Constants DEF Holds
      <4> QED BY <4>1, <2>7
    <3> QED BY <2>5, <3>1, <3>2
  <2>9. line # <<>> => line[1][1] <= n /\ (line[1][1] = n \/ line[1][1] \in torn)
    BY <1>2, <2>1, <2>5, <2>6 DEF LineAt
  <2>10. LineAt(n, 1) BY <2>3, <2>8, <2>9 DEF LineAt
  <2>11. Earlier(n, 1)
    <3> SUFFICES ASSUME NEW i \in 1..Len(Accepted)
                 PROVE  /\ Accepted[i][1][1] <= n /\ Accepted[i][1][1] < n
                        /\ line # <<>> => Accepted[i][1][1] < line[1][1]
      BY DEF Earlier
    <3>1. Accepted[i][1][1] \in Nat BY <1>1, AcceptedIs
    <3>2. Accepted[i][1][1] <= r /\ (line # <<>> => Accepted[i][1][1] < line[1][1])
      BY <1>2 DEF Earlier
    <3> QED BY <2>1, <3>1, <3>2
  <2>12. 0 + 1 = 1 /\ 0 \in Nat /\ 0 < Len(W(n)) BY <2>3
  <2> QED BY <2>2, <2>4, <2>10, <2>11, <2>12
<1> QED BY <1>2, <1>6, <1>7 DEF Stream

LEMMA RInvReadChunk ==
  ASSUME RInv, TInv', ReadChunk
  PROVE  RInv'
<1>1. Types /\ TInv /\ SInv /\ NothingSpliced BY DEF RInv, TInv
<1>2. link = "up" /\ chunk = <<>> /\ tosend # <<>> /\ link' = "up" BY DEF ReadChunk
<1>3. PICK n, e \in Nat : /\ n = Len(sent) /\ 1 <= n /\ e < Len(W(n))
                          /\ tosend = SubSeq(W(n), e + 1, Len(W(n)))
                          /\ LineAt(n, e + 1) /\ Earlier(n, e + 1)
  BY <1>2, Fresh
<1>4. n <= Len(sent) BY <1>3
<1>5. W(n) \in Seq(Byte) /\ Len(W(n)) \in Nat BY <1>1, <1>3, <1>4, WIs
<1>6. PICK m \in Nat : m = e + 1 OBVIOUS
<1>7. PICK z \in Nat : z = Len(W(n)) BY <1>5
<1>8. 1 <= m /\ m <= z /\ z <= Len(W(n)) BY <1>3, <1>6, <1>7
<1>9. PICK f \in Nat : /\ m <= f /\ f <= z
                       /\ Packed(SubSeq(W(n), m, z)) = SubSeq(W(n), m, f)
                       /\ Rest(SubSeq(W(n), m, z)) = SubSeq(W(n), f + 1, z)
  BY <1>5, <1>8, PacketOfSlice
<1>10. /\ sent' = sent /\ torn' = torn /\ line' = line /\ Accepted' = Accepted
       /\ chunk' = SubSeq(W(n), m, f) /\ tosend' = SubSeq(W(n), f + 1, z)
  BY <1>3, <1>6, <1>7, <1>9 DEF ReadChunk, wire, Accepted
<1>11. W(n)' = W(n) BY <1>10 DEF W
<1>12. Stream(n, m, f)'
  <2>1. f <= Len(W(n)) /\ m <= f + 1 BY <1>5, <1>7, <1>9
  <2> QED BY <1>3, <1>4, <1>7, <1>8, <1>10, <1>11, <2>1 DEF Stream
<1>13. LineAt(n, m)' /\ Earlier(n, m)' BY <1>3, <1>6, <1>10, LineAtKept, EarlierKept
<1>14. SInv' BY <1>2, <1>12, <1>13 DEF SInv
<1>15. NothingSpliced'
  <2>1. sent' \in Seq(SentLine) /\ Len(sent) <= Len(sent') BY <1>1, <1>10 DEF Types
  <2> QED BY <1>1, <1>10, <2>1, SplicedKept
<1> QED BY <1>14, <1>15 DEF RInv

LEMMA RInvReadError ==
  ASSUME RInv, TInv', ReadError
  PROVE  RInv'
<1>1. Types /\ TInv /\ SInv /\ NothingSpliced BY DEF RInv, TInv
<1>2. link = "up" /\ chunk = <<>> /\ tosend # <<>> /\ link' = "up" BY DEF ReadError
<1>3. PICK n, e \in Nat : /\ n = Len(sent) /\ 1 <= n /\ e < Len(W(n))
                          /\ tosend = SubSeq(W(n), e + 1, Len(W(n)))
                          /\ LineAt(n, e + 1) /\ Earlier(n, e + 1)
  BY <1>2, Fresh
<1>4. n <= Len(sent) BY <1>3
<1>5. W(n) \in Seq(Byte) /\ Len(W(n)) \in Nat BY <1>1, <1>3, <1>4, WIs
<1>6. PICK m \in Nat : m = e + 1 OBVIOUS
<1>7. PICK z \in Nat : z = Len(W(n)) BY <1>5
<1>8. 1 <= m /\ m <= z /\ z <= Len(W(n)) BY <1>3, <1>6, <1>7
<1>9. PICK f \in Nat : /\ m <= f /\ f <= z
                       /\ Packed(SubSeq(W(n), m, z)) = SubSeq(W(n), m, f)
                       /\ Rest(SubSeq(W(n), m, z)) = SubSeq(W(n), f + 1, z)
  BY <1>5, <1>8, PacketOfSlice
<1>10. /\ sent' = sent /\ torn' = torn \cup {n} /\ line' = line /\ Accepted' = Accepted
       /\ chunk' = <<>> /\ tosend' = SubSeq(W(n), f + 1, z)
  BY <1>2, <1>3, <1>6, <1>7, <1>9 DEF ReadError, reader, Accepted
<1>11. W(n)' = W(n) BY <1>10 DEF W
<1>12. Stream(n, f + 1, f)'
  <2>1. f <= Len(W(n)) /\ 1 <= f + 1 /\ f + 1 <= f + 1 BY <1>5, <1>7, <1>9
  <2>2. SubSeq(W(n), f + 1, f) = <<>>
    <3>1. f + 1 \in Int /\ f \in Int /\ f < f + 1 OBVIOUS
    <3> QED BY <3>1, SubSeqEmpty
  <2> QED BY <1>3, <1>4, <1>7, <1>10, <1>11, <2>1, <2>2 DEF Stream
<1>13. LineAt(n, f + 1)'
  <2>1. n \in torn' BY <1>10
  <2>2. line' # <<>> => line'[1][1] <= n /\ (line'[1][1] = n \/ line'[1][1] \in torn')
    BY <1>3, <1>10 DEF LineAt
  <2> QED BY <2>1, <2>2 DEF LineAt, Disturbed
<1>14. Earlier(n, f + 1)'
  <2>1. \A i \in 1..Len(Accepted) : /\ Accepted[i][1][1] <= n /\ Accepted[i][1][1] < n
                                    /\ line # <<>> => Accepted[i][1][1] < line[1][1]
    BY <1>3, <1>5, <1>6, <1>7, <1>8 DEF Earlier
  <2> QED BY <1>10, <2>1 DEF Earlier
<1>15. f + 1 \in Nat OBVIOUS
<1>16. SInv' BY <1>2, <1>12, <1>13, <1>14, <1>15 DEF SInv
<1>17. NothingSpliced'
  <2>1. sent' \in Seq(SentLine) /\ Len(sent) <= Len(sent') BY <1>1, <1>10 DEF Types
  <2> QED BY <1>1, <1>10, <2>1, SplicedKept
<1> QED BY <1>16, <1>17 DEF RInv

(* The host has sent all of its line: it is the one the reader is on.      *)
LEMMA Drained ==
  ASSUME Types, link = "up", tosend = <<>>, NEW r \in Nat, NEW p \in Nat, NEW e \in Nat,
         Stream(r, p, e)
  PROVE  r = Len(sent) /\ e = Len(W(r))
<1>1. r <= Len(sent) /\ 1 <= r /\ e <= Len(W(r)) BY DEF Stream
<1>2. W(r) \in Seq(Byte) /\ Len(W(r)) \in Nat BY <1>1, WIs
<1>3. ~(r + 1 = Len(sent) /\ tosend = W(r + 1))
  <2>1. SUFFICES ASSUME r + 1 = Len(sent), tosend = W(r + 1) PROVE FALSE OBVIOUS
  <2>2. PICK q \in Nat : q = r + 1 OBVIOUS
  <2>3. 1 <= q /\ q <= Len(sent) BY <2>1, <2>2
  <2>4. Len(W(q)) \in Nat /\ Len(W(q)) > sent[q].size /\ sent[q].size \in Nat BY <2>3, WIs
  <2>5. W(q) = <<>> BY <2>1, <2>2
  <2> QED BY <2>4, <2>5
<1>4. r = Len(sent) /\ SubSeq(W(r), e + 1, Len(W(r))) = <<>> BY <1>3 DEF Stream
<1>5. Len(SubSeq(W(r), e + 1, Len(W(r)))) = Len(W(r)) - e
  <2>1. Len(W(r)) <= Len(W(r)) BY <1>2
  <2> QED BY <2>1, <1>1, <1>2, DropIs
<1>6. Len(W(r)) - e = 0 BY <1>4, <1>5
<1> QED BY <1>2, <1>4, <1>6

LEMMA RInvWriteLine ==
  ASSUME RInv, TInv', NEW size \in LineSizes, NEW cr \in BOOLEAN, WriteLine(size, cr)
  PROVE  RInv'
<1>1. Types /\ TInv /\ SInv /\ NothingSpliced /\ Types' BY DEF RInv, TInv
<1>2. link = "up" /\ link' = "up" /\ tosend = <<>> BY DEF WriteLine
<1>3. PICK l : l = [size |-> size, cr |-> cr] OBVIOUS
<1>4. PICK k : k = Len(sent) OBVIOUS
<1>5. sent \in Seq(SentLine) /\ k \in Nat BY <1>1, <1>4 DEF Types
<1>6. l \in SentLine BY <1>3, Constants DEF SentLine
<1>7. sent' = Append(sent, l) /\ tosend' = Wire(k + 1, l) BY <1>3, <1>4 DEF WriteLine
<1>8. /\ Len(sent') = k + 1 /\ \A i \in 1..k : sent'[i] = sent[i]
      /\ sent'[k + 1] = l
  BY <1>4, <1>5, <1>6, <1>7, AppendProperties
<1>9. torn' = torn /\ line' = line /\ chunk' = chunk /\ Accepted' = Accepted
  BY DEF WriteLine, wire, reader, Accepted
<1>10. NothingSpliced'
  <2>1. sent' \in Seq(SentLine) /\ Len(sent) <= Len(sent') BY <1>1, <1>4, <1>5, <1>8 DEF Types
  <2>2. \A i \in 1..Len(sent) : sent'[i] = sent[i] BY <1>4, <1>8
  <2> QED BY <1>1, <1>9, <2>1, <2>2, SplicedKept
<1>11. PICK n \in Nat : n = k + 1 BY <1>5
<1>12. n = Len(sent') /\ 1 <= n /\ n - 1 = k /\ tosend' = W(n)' BY <1>5, <1>7, <1>8, <1>11 DEF W
<1>13. /\ W(n)' \in Seq(Byte) /\ l.size \in Nat /\ sent'[n] = l
       /\ Len(W(n)') \in Nat /\ Len(W(n)') > l.size
  <2>1. W(n)' = Wire(n, l) /\ sent'[n] = l BY <1>8, <1>11 DEF W
  <2>2. l.size \in Nat /\ l.cr \in BOOLEAN BY <1>6 DEF SentLine
  <2>3. n > 0 BY <1>12
  <2>4. Wire(n, l) \in Seq(Byte) /\ Len(Wire(n, l)) = l.size + (IF l.cr THEN 2 ELSE 1)
    BY <1>6, <2>3, WireIs
  <2> QED BY <2>1, <2>2, <2>4
<1>14. CASE chunk = <<>>
  <2>1. /\ line = <<>> \/ (k \in torn /\ line[1][1] \in torn)
        /\ line # <<>> => line[1][1] <= k
        /\ \A i \in 1..Len(Accepted) : /\ Accepted[i][1][1] <= k
                                       /\ line # <<>> => Accepted[i][1][1] < line[1][1]
    <3>1. CASE Idle BY <1>4, <3>1 DEF Idle
    <3>2. ASSUME NEW r \in Nat, NEW p \in Nat, NEW e \in Nat,
                 Stream(r, p, e), LineAt(r, p), Earlier(r, p)
          PROVE  /\ line = <<>> \/ (k \in torn /\ line[1][1] \in torn)
                 /\ line # <<>> => line[1][1] <= k
                 /\ \A i \in 1..Len(Accepted) : /\ Accepted[i][1][1] <= k
                                                /\ line # <<>> => Accepted[i][1][1] < line[1][1]
      <4>1. /\ r <= Len(sent) /\ 1 <= r /\ 1 <= p /\ p <= e + 1 /\ e <= Len(W(r))
            /\ SubSeq(W(r), p, e) = <<>>
        BY <3>2, <1>14 DEF Stream
      <4>2. W(r) \in Seq(Byte) /\ Len(W(r)) \in Nat BY <1>1, <4>1, WIs
      <4>3. p = e + 1
        <5>1. Len(SubSeq(W(r), p, e)) = e - p + 1 BY <4>1, <4>2, SliceIs
        <5>2. e - p + 1 = 0 BY <5>1, <4>1
        <5> QED BY <5>2
      <4>6. r = k /\ e = Len(W(r)) BY <1>1, <1>2, <1>4, <3>2, Drained
      <4>7. line = <<>> \/ r \in torn BY <3>2, <4>2, <4>3, <4>6 DEF LineAt
      <4>8. line # <<>> => line[1][1] <= r /\ line[1][1] \in torn BY <3>2, <4>7 DEF LineAt
      <4>9. \A i \in 1..Len(Accepted) : /\ Accepted[i][1][1] <= r
                                        /\ line # <<>> => Accepted[i][1][1] < line[1][1]
        BY <3>2 DEF Earlier
      <4> QED BY <4>6, <4>7, <4>8, <4>9
    <3> QED BY <1>1, <3>1, <3>2 DEF SInv
  <2>2. Stream(n, 1, 0)'
    <3>1. chunk' = SubSeq(W(n)', 1, 0)
      <4>1. SubSeq(W(n)', 1, 0) = <<>> BY SubSeqEmpty
      <4> QED BY <4>1, <1>9, <1>14
    <3>2. tosend' = SubSeq(W(n)', 0 + 1, Len(W(n)')) BY <1>12, <1>13, SubSeqFull
    <3>3. n <= Len(sent') /\ 0 <= Len(W(n)') /\ 1 <= 1 /\ 1 <= 0 + 1 BY <1>12, <1>13
    <3> QED BY <1>12, <3>1, <3>2, <3>3 DEF Stream
  <2>3. LineAt(n, 1)'
    <3>1. TextRead(n, 1)' = 0 BY <1>13 DEF TextRead
    <3>2. Disturbed(n)' \/ \E d \in Nat : Holds(n, TextRead(n, 1), d)'
      <4>1. CASE k \in torn BY <1>9, <1>12, <4>1 DEF Disturbed
      <4>2. CASE line = <<>>
        <5>1. Holds(n, TextRead(n, 1), 0)' BY <4>2, <3>1, <1>9, Constants DEF Holds
        <5> QED BY <5>1
      <4> QED BY <2>1, <4>1, <4>2
    <3>3. line' # <<>> => line'[1][1] <= n /\ (line'[1][1] = n \/ line'[1][1] \in torn')
      <4>1. line # <<>> => line[1][1] \in Nat BY <1>1, LineHead
      <4> QED BY <2>1, <4>1, <1>5, <1>9, <1>11
    <3> QED BY <3>2, <3>3, <1>13 DEF LineAt
  <2>4. Earlier(n, 1)'
    <3>1. \A i \in 1..Len(Accepted) : Accepted[i][1][1] \in Nat BY <1>1, AcceptedIs
    <3>2. ASSUME NEW i \in 1..Len(Accepted)
          PROVE  Accepted[i][1][1] <= n /\ Accepted[i][1][1] < n
      <4>1. PICK h \in Nat : h = Accepted[i][1][1] BY <3>1
      <4>2. h <= k BY <2>1, <4>1
      <4> QED BY <4>1, <4>2, <1>5, <1>11
    <3>3. \A i \in 1..Len(Accepted) : line # <<>> => Accepted[i][1][1] < line[1][1] BY <2>1
    <3> QED BY <3>2, <3>3, <1>9 DEF Earlier
  <2>5. SInv'
    <3>1. 1 \in Nat /\ 0 \in Nat OBVIOUS
    <3> QED BY <1>2, <2>2, <2>3, <2>4, <3>1 DEF SInv
  <2> QED BY <2>5, <1>10 DEF RInv
<1>15. CASE chunk # <<>>
  <2>1. PICK r, p, e \in Nat : Stream(r, p, e) /\ LineAt(r, p) /\ Earlier(r, p)
    BY <1>1, <1>15 DEF SInv, Idle
  <2>2. r <= k /\ 1 <= r /\ 1 <= p /\ p <= e + 1 /\ e <= Len(W(r)) /\ chunk = SubSeq(W(r), p, e)
    BY <2>1, <1>4 DEF Stream
  <2>3. W(r) \in Seq(Byte) /\ Len(W(r)) \in Nat BY <1>1, <1>4, <2>2, WIs
  <2>5. r = k /\ e = Len(W(r)) BY <1>1, <1>2, <1>4, <2>1, Drained
  <2>7. sent'[r] = sent[r] BY <2>2, <2>5, <1>5, <1>8
  <2>8. W(r)' = W(r) BY <2>7 DEF W
  <2>9. Stream(r, p, e)'
    <3>1. r + 1 = Len(sent') /\ r <= Len(sent') BY <2>5, <1>5, <1>8
    <3>2. tosend' = W(r + 1)' BY <2>5, <1>7, <1>8 DEF W
    <3> QED BY <2>2, <2>5, <2>8, <3>1, <3>2, <1>9 DEF Stream
  <2>10. LineAt(r, p)' /\ Earlier(r, p)' BY <2>1, <2>7, <1>9, LineAtKept, EarlierKept
  <2>11. SInv' BY <1>2, <2>9, <2>10 DEF SInv
  <2> QED BY <2>11, <1>10 DEF RInv
<1> QED BY <1>14, <1>15

LEMMA RInvUnplug ==
  ASSUME RInv, TInv', Unplug
  PROVE  RInv'
<1>1. Types /\ TInv /\ SInv /\ NothingSpliced BY DEF RInv, TInv
<1>2. /\ sent' = sent /\ torn' = torn /\ line' = line /\ chunk' = chunk /\ Accepted' = Accepted
      /\ tosend' = <<>> /\ link' = "down"
  BY DEF Unplug, reader, Accepted
<1>3. Idle => Idle' BY <1>2 DEF Idle
<1>4. ASSUME NEW r \in Nat, NEW p \in Nat, NEW e \in Nat,
             Stream(r, p, e), LineAt(r, p), Earlier(r, p)
      PROVE  Stream(r, p, e)' /\ LineAt(r, p)' /\ Earlier(r, p)'
  <2>1. Stream(r, p, e)' BY <1>2, <1>4 DEF Stream, W
  <2> QED BY <1>2, <1>4, <2>1, LineAtKept, EarlierKept
<1>5. SInv' BY <1>1, <1>2, <1>3, <1>4 DEF SInv
<1>6. NothingSpliced'
  <2>1. sent' \in Seq(SentLine) /\ Len(sent) <= Len(sent') BY <1>1, <1>2 DEF Types
  <2> QED BY <1>1, <1>2, <2>1, SplicedKept
<1> QED BY <1>5, <1>6 DEF RInv

LEMMA RInvReadDisconnected ==
  ASSUME RInv, TInv', ReadDisconnected
  PROVE  RInv'
<1>1. Types /\ TInv /\ SInv /\ NothingSpliced BY DEF RInv, TInv
<1>2. /\ sent' = sent /\ torn' = torn /\ line' = <<>> /\ chunk' = <<>> /\ Accepted' = Accepted
      /\ tosend' = tosend /\ link' = "waiting" /\ link = "down"
  BY DEF ReadDisconnected, host, wire, Accepted
<1>3. tosend = <<>> BY <1>1, <1>2 DEF SInv
<1>4. \A i \in 1..Len(Accepted) : Accepted[i][1][1] <= Len(sent)
  <2>1. ASSUME NEW r \in Nat, NEW p \in Nat, NEW e \in Nat,
               Stream(r, p, e), Earlier(r, p), NEW i \in 1..Len(Accepted)
        PROVE  Accepted[i][1][1] <= Len(sent)
    <3>1. PICK h \in Nat : h = Accepted[i][1][1] BY <1>1, AcceptedIs
    <3>2. h <= r BY <2>1, <3>1 DEF Earlier
    <3>3. r <= Len(sent) /\ Len(sent) \in Nat BY <1>1, <2>1 DEF Stream, Types
    <3> QED BY <3>1, <3>2, <3>3
  <2> QED BY <1>1, <2>1 DEF SInv, Idle
<1>5. Idle' BY <1>2, <1>3, <1>4 DEF Idle
<1>6. SInv' BY <1>2, <1>3, <1>5 DEF SInv
<1>7. NothingSpliced'
  <2>1. sent' \in Seq(SentLine) /\ Len(sent) <= Len(sent') BY <1>1, <1>2 DEF Types
  <2> QED BY <1>1, <1>2, <2>1, SplicedKept
<1> QED BY <1>6, <1>7 DEF RInv

LEMMA RInvPlug ==
  ASSUME RInv, TInv', Plug
  PROVE  RInv'
<1>1. Types /\ TInv /\ SInv /\ NothingSpliced BY DEF RInv, TInv
<1>2. /\ sent' = sent /\ torn' = torn /\ line' = line /\ chunk' = chunk /\ Accepted' = Accepted
      /\ tosend' = tosend /\ link' = "up" /\ link = "waiting"
  BY DEF Plug, host, wire, reader, Accepted
<1>3. Idle' BY <1>1, <1>2 DEF SInv, Idle
<1>4. SInv' BY <1>2, <1>3 DEF SInv
<1>5. NothingSpliced'
  <2>1. sent' \in Seq(SentLine) /\ Len(sent) <= Len(sent') BY <1>1, <1>2 DEF Types
  <2> QED BY <1>1, <1>2, <2>1, SplicedKept
<1> QED BY <1>4, <1>5 DEF RInv

(* A byte of the text: it is collected, or dropped with the line.          *)
LEMMA HoldsStep ==
  ASSUME Types, Sized, NEW r \in Nat, NEW q \in Nat, NEW d \in Nat, Holds(r, q, d)
  PROVE  line' = (IF Len(line) >= MAX_LINE_BYTES THEN <<>> ELSE Append(line, <<r, q + 1>>))
         => \E c \in Nat : Holds(r, q + 1, c)'
<1>0. SUFFICES ASSUME line' = (IF Len(line) >= MAX_LINE_BYTES THEN <<>> ELSE Append(line, <<r, q + 1>>))
               PROVE  \E c \in Nat : Holds(r, q + 1, c)'
  OBVIOUS
<1>1. PICK M \in Nat : M = MAX_LINE_BYTES + 1 BY Constants
<1>2. PICK k \in Nat : k = d * M BY <1>1
<1>3. PICK L \in Nat : L = Len(line)
  <2>1. line \in Seq(Byte) BY DEF Types
  <2> QED BY <2>1
<1>4. L <= MAX_LINE_BYTES BY <1>3 DEF Sized
<1>5. q = k + L /\ \A i \in 1..L : line[i] = <<r, k + i>> BY <1>1, <1>2, <1>3 DEF Holds
<1>6. CASE L >= MAX_LINE_BYTES
  <2>1. L = MAX_LINE_BYTES /\ MAX_LINE_BYTES \in Nat BY <1>4, <1>6, Constants
  <2>2. (d + 1) * M = k + M BY <1>1, <1>2
  <2>3. q + 1 = (d + 1) * M BY <1>1, <1>5, <2>1, <2>2
  <2>4. line' = <<>> BY <1>0, <1>3, <1>6
  <2>5. q + 1 = (d + 1) * M + Len(line') BY <1>1, <2>3, <2>4
  <2>6. Holds(r, q + 1, d + 1)' BY <1>1, <2>4, <2>5 DEF Holds
  <2> QED BY <2>6
<1>7. CASE ~(L >= MAX_LINE_BYTES)
  <2>1. line \in Seq(Byte) /\ <<r, q + 1>> \in Byte BY DEF Types, Byte
  <2>2. PICK b \in Byte : b = <<r, q + 1>> BY <2>1
  <2>3. line' = Append(line, b) BY <1>0, <1>3, <1>7, <2>2
  <2>4. Len(line') = L + 1 /\ (\A i \in 1..L : line'[i] = line[i]) /\ line'[L + 1] = b
    BY <1>3, <2>1, <2>3, AppendProperties
  <2>5. q + 1 = k + (L + 1) BY <1>5
  <2>6. \A i \in 1..(L + 1) : line'[i] = <<r, k + i>>
    <3> TAKE i \in 1..(L + 1)
    <3>1. CASE i \in 1..L BY <1>5, <2>4, <3>1
    <3>2. CASE i = L + 1 BY <2>2, <2>4, <2>5, <3>2
    <3> QED BY <3>1, <3>2
  <2>7. Holds(r, q + 1, d)' BY <1>1, <1>2, <2>4, <2>5, <2>6 DEF Holds
  <2> QED BY <2>7
<1> QED BY <1>6, <1>7

(* What is accepted next is the line the host sent, or disturbed, and it   *)
(* is later than all before.                                               *)
LEMMA SplicedNext ==
  ASSUME TInv, NothingSpliced, line # <<>>, sent' = sent, torn' = torn,
         Accepted' = Append(Accepted, line),
         \/ \E k \in DOMAIN sent : TailOf(line, k)
         \/ line[1][1] \in torn \/ line[1][1] - 1 \in torn,
         \A i \in 1..Len(Accepted) : Accepted[i][1][1] < line[1][1]
  PROVE  NothingSpliced'
<1>1. Accepted \in Seq(Seq(Byte)) /\ Len(Accepted) \in Nat /\ DOMAIN Accepted = 1..Len(Accepted)
  BY AcceptedIs
<1>2. line \in Seq(Byte) BY DEF TInv, Types
<1>3. PICK a, n : a = Append(Accepted, line) /\ n = Len(Accepted) OBVIOUS
<1>4. /\ a \in Seq(Seq(Byte)) /\ Len(a) = n + 1
      /\ \A i \in 1..n : a[i] = Accepted[i]
      /\ a[n + 1] = line
  BY <1>1, <1>2, <1>3, AppendProperties
<1>5. n \in Nat /\ DOMAIN a = 1..(n + 1) /\ DOMAIN Accepted = 1..n BY <1>1, <1>3, <1>4
<1>6. Accepted' = a BY <1>3
<1>7. ASSUME NEW i \in 1..(n + 1)
      PROVE  \/ \E k \in DOMAIN sent' : TailOf(a[i], k)'
             \/ a[i][1][1] \in torn' \/ a[i][1][1] - 1 \in torn'
  <2>1. \/ \E k \in DOMAIN sent : TailOf(a[i], k)
        \/ a[i][1][1] \in torn \/ a[i][1][1] - 1 \in torn
    <3>1. CASE i \in 1..n BY <1>4, <1>5, <3>1 DEF NothingSpliced
    <3>2. CASE i = n + 1 BY <1>4, <3>2
    <3> QED BY <1>5, <3>1, <3>2
  <2>2. ASSUME NEW k \in DOMAIN sent, TailOf(a[i], k) PROVE TailOf(a[i], k)'
    BY <2>2 DEF TailOf, Kept
  <2> QED BY <2>1, <2>2
<1>8. ASSUME NEW i \in 1..(n + 1), NEW j \in 1..(n + 1), i < j PROVE a[i][1][1] < a[j][1][1]
  <2>1. i \in 1..n BY <1>5, <1>8
  <2>2. CASE j \in 1..n BY <1>4, <1>5, <1>8, <2>1, <2>2 DEF NothingSpliced
  <2>3. CASE j = n + 1 BY <1>3, <1>4, <2>1, <2>3
  <2> QED BY <1>5, <2>2, <2>3
<1> QED BY <1>5, <1>6, <1>7, <1>8 DEF NothingSpliced

LEMMA RInvReadByte ==
  ASSUME RInv, TInv', ReadByte
  PROVE  RInv'
<1>1. Types /\ Sized /\ TInv /\ SInv /\ NothingSpliced BY DEF RInv, TInv
<1>2. /\ chunk # <<>> /\ sent' = sent /\ tosend' = tosend /\ torn' = torn /\ link' = link
      /\ dispatched' = dispatched /\ chunk' = Tail(chunk)
  BY DEF ReadByte, host, wire
<1>3. PICK r, p, e \in Nat : Stream(r, p, e) /\ LineAt(r, p) /\ Earlier(r, p)
  BY <1>1, <1>2 DEF SInv, Idle
<1>4. /\ r <= Len(sent) /\ 1 <= r /\ 1 <= p /\ p <= e + 1 /\ e <= Len(W(r))
      /\ chunk = SubSeq(W(r), p, e)
  BY <1>3 DEF Stream
<1>5. PICK n \in Nat : n = sent[r].size BY <1>1, <1>4, WIs
<1>6. PICK w \in Seq(Byte) : w = W(r) BY <1>1, <1>4, WIs
<1>7. /\ Len(w) \in Nat /\ Len(w) > n
      /\ \A i \in 1..n : w[i] = <<r, i>> /\ w[i] # LF /\ w[i] # CR
      /\ \A i \in (n + 1)..Len(w) : w[i] = IF i = Len(w) THEN LF ELSE CR
  BY <1>1, <1>4, <1>5, <1>6, WIs
<1>8. p <= e
  <2>1. CASE p = e + 1
    <3>1. p \in Int /\ e \in Int /\ e < p BY <2>1
    <3>2. SubSeq(w, p, e) = <<>> BY <3>1, SubSeqEmpty
    <3> QED BY <3>2, <1>2, <1>4, <1>6
  <2> QED BY <1>4, <2>1
<1>9. p \in 1..Len(w) /\ e \in p..Len(w) BY <1>4, <1>6, <1>7, <1>8
<1>10. Head(chunk) = w[p] /\ chunk' = SubSeq(w, p + 1, e)
  BY <1>2, <1>4, <1>6, <1>9, HeadTailOfSubSeq
<1>11. W(r)' = w BY <1>2, <1>6 DEF W
<1>12. PICK o \in Nat : o = p + 1 OBVIOUS
<1>13. Stream(r, o, e)'
  <2>1. 1 <= o /\ o <= e + 1 /\ e <= Len(w) BY <1>4, <1>6, <1>8, <1>12
  <2>2. \/ r = Len(sent) /\ tosend = SubSeq(w, e + 1, Len(w))
        \/ r + 1 = Len(sent) /\ e = Len(w) /\ tosend = W(r + 1)
        \/ link = "down" /\ tosend = <<>>
    BY <1>3, <1>6 DEF Stream
  <2>3. W(r + 1)' = W(r + 1) BY <1>2 DEF W
  <2> QED BY <1>2, <1>4, <1>10, <1>11, <1>12, <2>1, <2>2, <2>3 DEF Stream
<1>14. /\ line' = IF w[p] = LF \/ (w[p] # CR /\ Len(line) >= MAX_LINE_BYTES) THEN <<>>
                  ELSE IF w[p] = CR THEN line ELSE Append(line, w[p])
       /\ queue' = IF w[p] = LF /\ line # <<>> THEN Append(queue, line) ELSE queue
  BY <1>10 DEF ReadByte
<1>15. SUFFICES LineAt(r, o)' /\ Earlier(r, o)' /\ NothingSpliced'
  <2>1. ASSUME LineAt(r, o)', Earlier(r, o)' PROVE SInv'
    <3>1. link' # "waiting" BY <1>1, <1>2 DEF SInv, Idle
    <3>2. link' # "up" => tosend' = <<>> BY <1>1, <1>2 DEF SInv
    <3> QED BY <1>13, <2>1, <3>1, <3>2 DEF SInv
  <2> QED BY <2>1 DEF RInv
<1>16. sent \in Seq(SentLine) /\ Len(sent) <= Len(sent) BY <1>1 DEF Types
<1>17. line # <<>> => line[1][1] \in Nat BY <1>1, LineHead
<1>18. \A i \in 1..Len(Accepted) : Accepted[i][1][1] \in Nat BY <1>1, AcceptedIs
<1>19. p <= Len(W(r)) BY <1>6, <1>9
<1>20. Disturbed(r) \/ \E d \in Nat : Holds(r, TextRead(r, p), d) BY <1>3, <1>19 DEF LineAt
<1>21. line # <<>> => line[1][1] <= r /\ (line[1][1] = r \/ line[1][1] \in torn)
  BY <1>3 DEF LineAt
<1>22. \A i \in 1..Len(Accepted) : /\ Accepted[i][1][1] <= r /\ Accepted[i][1][1] < r
                                   /\ line # <<>> => Accepted[i][1][1] < line[1][1]
  BY <1>3, <1>19 DEF Earlier
<1>23. Disturbed(r)' = Disturbed(r) BY <1>2 DEF Disturbed
<1>24. CASE p <= n
  <2>1. w[p] = <<r, p>> /\ w[p] # LF /\ w[p] # CR BY <1>7, <1>9, <1>24
  <2>2. /\ line' = (IF Len(line) >= MAX_LINE_BYTES THEN <<>> ELSE Append(line, <<r, p>>))
        /\ queue' = queue
    BY <1>14, <2>1
  <2>3. Accepted' = Accepted BY <1>2, <2>2 DEF Accepted
  <2>4. TextRead(r, p) = p - 1 BY <1>5, <1>24 DEF TextRead
  <2>5. TextRead(r, o)' = p BY <1>2, <1>5, <1>12, <1>24 DEF TextRead
  <2>6. Disturbed(r)' \/ \E d \in Nat : Holds(r, TextRead(r, o), d)'
    <3>1. CASE Disturbed(r) BY <1>23, <3>1
    <3>2. ASSUME NEW d \in Nat, Holds(r, p - 1, d)
          PROVE  \E c \in Nat : Holds(r, TextRead(r, o), c)'
      <4>1. PICK q \in Nat : q = p - 1 BY <1>4
      <4>2. Holds(r, q, d) BY <3>2, <4>1
      <4>3. q + 1 = p BY <4>1
      <4>4. line' = (IF Len(line) >= MAX_LINE_BYTES THEN <<>> ELSE Append(line, <<r, q + 1>>))
        BY <2>2, <4>3
      <4>5. PICK c \in Nat : Holds(r, q + 1, c)' BY <1>1, <4>2, <4>4, HoldsStep
      <4>6. Holds(r, TextRead(r, o), c)' BY <4>3, <4>5, <2>5 DEF Holds
      <4> QED BY <4>6
    <3> QED BY <1>20, <2>4, <3>1, <3>2
  <2>7. line' # <<>> => line'[1][1] = r \/ (line # <<>> /\ line'[1][1] = line[1][1])
    <3>1. SUFFICES ASSUME line' # <<>>
                   PROVE  line'[1][1] = r \/ (line # <<>> /\ line'[1][1] = line[1][1])
      OBVIOUS
    <3>2. PICK b \in Byte : b = <<r, p>> BY DEF Byte
    <3>3. line \in Seq(Byte) BY <1>1 DEF Types
    <3>4. line' = Append(line, b) BY <2>2, <3>1, <3>2
    <3>5. CASE line = <<>>
      <4>1. line'[1] = b BY <3>4, <3>5
      <4> QED BY <4>1, <3>2
    <3>6. CASE line # <<>>
      <4>1. Len(line) \in Nat /\ Len(line) > 0 BY <3>3, <3>6, EmptySeq
      <4>2. \A i \in 1..Len(line) : line'[i] = line[i] BY <3>3, <3>4, AppendProperties
      <4>3. line'[1] = line[1] BY <4>1, <4>2
      <4> QED BY <3>6, <4>3
    <3> QED BY <3>5, <3>6
  <2>8. LineAt(r, o)'
    <3>1. ~(o > Len(W(r)')) BY <1>7, <1>11, <1>12, <1>24
    <3>2. line' # <<>> => line'[1][1] <= r /\ (line'[1][1] = r \/ line'[1][1] \in torn')
      BY <1>2, <1>21, <2>7
    <3> QED BY <2>6, <3>1, <3>2 DEF LineAt
  <2>9. Earlier(r, o)'
    <3>1. ASSUME NEW i \in 1..Len(Accepted), line' # <<>> PROVE Accepted[i][1][1] < line'[1][1]
      BY <1>22, <2>7, <3>1
    <3> QED BY <1>22, <2>3, <3>1 DEF Earlier
  <2>10. NothingSpliced' BY <1>1, <1>2, <1>16, <2>3, SplicedKept
  <2> QED BY <2>8, <2>9, <2>10
<1>25. CASE n < p /\ p < Len(w)
  <2>1. w[p] = CR /\ w[p] # LF
    <3>1. p \in (n + 1)..Len(w) /\ p # Len(w) BY <1>7, <1>9, <1>25
    <3> QED BY <1>7, <3>1, Delimiters
  <2>2. line' = line /\ queue' = queue BY <1>14, <2>1
  <2>3. Accepted' = Accepted BY <1>2, <2>2 DEF Accepted
  <2>4. TextRead(r, p) = n /\ TextRead(r, o)' = n BY <1>2, <1>5, <1>12, <1>25 DEF TextRead
  <2>5. Disturbed(r)' \/ \E d \in Nat : Holds(r, TextRead(r, o), d)'
    <3>1. ASSUME NEW d \in Nat, Holds(r, TextRead(r, p), d)
          PROVE  Holds(r, TextRead(r, o), d)'
      BY <2>2, <2>4, <3>1 DEF Holds
    <3> QED BY <1>20, <1>23, <3>1
  <2>6. LineAt(r, o)'
    <3>1. ~(o > Len(W(r)')) BY <1>7, <1>11, <1>12, <1>25
    <3>2. line' # <<>> => line'[1][1] <= r /\ (line'[1][1] = r \/ line'[1][1] \in torn')
      BY <1>2, <1>21, <2>2
    <3> QED BY <2>5, <3>1, <3>2 DEF LineAt
  <2>7. Earlier(r, o)' BY <1>22, <2>2, <2>3 DEF Earlier
  <2>8. NothingSpliced' BY <1>1, <1>2, <1>16, <2>3, SplicedKept
  <2> QED BY <2>6, <2>7, <2>8
<1>26. CASE p = Len(w)
  <2>1. w[p] = LF
    <3>1. p \in (n + 1)..Len(w) BY <1>7, <1>9, <1>26
    <3> QED BY <1>7, <1>26, <3>1
  <2>2. line' = <<>> /\ queue' = (IF line # <<>> THEN Append(queue, line) ELSE queue)
    BY <1>14, <2>1
  <2>3. LineAt(r, o)'
    <3>1. ~(o <= Len(W(r)')) BY <1>7, <1>11, <1>12, <1>26
    <3> QED BY <2>2, <3>1 DEF LineAt
  <2>4. ~(o <= Len(W(r)')) BY <1>7, <1>11, <1>12, <1>26
  <2>5. CASE line = <<>>
    <3>1. Accepted' = Accepted BY <1>2, <2>2, <2>5 DEF Accepted
    <3>2. Earlier(r, o)' BY <1>22, <2>2, <2>4, <3>1 DEF Earlier
    <3>3. NothingSpliced' BY <1>1, <1>2, <1>16, <3>1, SplicedKept
    <3> QED BY <2>3, <3>2, <3>3
  <2>6. CASE line # <<>>
    <3>1. queue' = Append(queue, line) BY <2>2, <2>6
    <3>2. Accepted' = Append(Accepted, line) BY <1>1, <1>2, <3>1, SendAccepted
    <3>3. /\ Len(Accepted') = Len(Accepted) + 1 /\ Len(Accepted) \in Nat
          /\ \A i \in 1..Len(Accepted) : Accepted'[i] = Accepted[i]
          /\ Accepted'[Len(Accepted) + 1] = line
      <4>1. Accepted \in Seq(Seq(Byte)) /\ line \in Seq(Byte) BY <1>1, AcceptedIs DEF Types
      <4> QED BY <3>2, <4>1, AppendProperties
    <3>4. Earlier(r, o)'
      <4>1. ASSUME NEW i \in 1..Len(Accepted') PROVE Accepted'[i][1][1] <= r
        <5>1. CASE i \in 1..Len(Accepted) BY <1>22, <3>3, <5>1
        <5>2. CASE i = Len(Accepted) + 1 BY <1>21, <2>6, <3>3, <5>2
        <5> QED BY <3>3, <5>1, <5>2
      <4> QED BY <2>2, <2>4, <4>1 DEF Earlier
    <3>5. TextRead(r, p) = n BY <1>5, <1>7, <1>26 DEF TextRead
    <3>6. \/ \E k \in DOMAIN sent : TailOf(line, k)
          \/ line[1][1] \in torn \/ line[1][1] - 1 \in torn
      <4>1. CASE line[1][1] \in torn BY <4>1
      <4>2. CASE line[1][1] = r /\ Disturbed(r) BY <4>2 DEF Disturbed
      <4>3. ASSUME NEW d \in Nat, Holds(r, TextRead(r, p), d)
            PROVE  \E k \in DOMAIN sent : TailOf(line, k)
        <5>1. Holds(r, sent[r].size, d) BY <1>5, <3>5, <4>3
        <5>2. TailOf(line, r) BY <1>1, <1>4, <5>1, HoldsIsTail
        <5>3. r \in DOMAIN sent BY <1>4, <1>16
        <5> QED BY <5>2, <5>3
      <4> QED BY <1>20, <1>21, <2>6, <4>1, <4>2, <4>3
    <3>7. \A i \in 1..Len(Accepted) : Accepted[i][1][1] < line[1][1] BY <1>22, <2>6
    <3>8. NothingSpliced' BY <1>1, <1>2, <2>6, <3>2, <3>6, <3>7, SplicedNext
    <3> QED BY <2>3, <3>4, <3>8
  <2> QED BY <2>5, <2>6
<1> QED BY <1>7, <1>9, <1>24, <1>25, <1>26

LEMMA InitRInv == Init => RInv
<1> SUFFICES ASSUME Init PROVE RInv OBVIOUS
<1>1. TInv BY InitTInv
<1>2. Accepted = <<>> BY DEF Init, Accepted
<1>3. Idle BY <1>2 DEF Init, Idle
<1>4. SInv BY <1>3 DEF SInv, Init
<1>5. NothingSpliced BY <1>2 DEF NothingSpliced
<1> QED BY <1>1, <1>4, <1>5 DEF RInv

LEMMA RInvStep == RInv /\ [Next]_vars => RInv'
<1> SUFFICES ASSUME RInv, [Next]_vars PROVE RInv' OBVIOUS
<1>1. TInv /\ TInv' /\ Types BY TInvStep DEF RInv, TInv
<1>2. ASSUME sent' = sent, torn' = torn, line' = line, queue' = queue, dispatched' = dispatched,
             chunk' = chunk, tosend' = tosend, link' = link
      PROVE  RInv'
  <2>1. Accepted' = Accepted BY <1>2 DEF Accepted
  <2> QED BY <1>1, <1>2, <2>1, RInvFramed
<1>3. CASE Dispatch
  <2>1. Accepted' = Accepted BY <1>1, <1>3, DispatchAccepted
  <2>2. /\ sent' = sent /\ torn' = torn /\ line' = line /\ chunk' = chunk /\ tosend' = tosend
        /\ link' = link
    BY <1>3 DEF Dispatch, host, wire
  <2> QED BY <1>1, <2>1, <2>2, RInvFramed
<1>4. CASE Register BY <1>2, <1>4 DEF Register, host, reader, wire
<1>5. ASSUME NEW size \in ResponseSizes, Respond(size) PROVE RInv'
  BY <1>2, <1>5 DEF Respond, host, reader, wire
<1>6. CASE WriteOk BY <1>2, <1>6 DEF WriteOk, host, reader
<1>7. CASE WriteError BY <1>2, <1>7 DEF WriteError, Skip, host, reader
<1>8. CASE WriteDisconnected BY <1>2, <1>8 DEF WriteDisconnected, Skip, host, reader
<1>9. CASE WriterResumes BY <1>2, <1>9 DEF WriterResumes, host, reader, wire
<1>10. CASE WaitFails BY <1>2, <1>10 DEF WaitFails, host, reader, wire
<1>11. CASE UNCHANGED vars BY <1>2, <1>11 DEF vars, host, reader, wire
<1>12. CASE Reader BY <1>1, <1>12, RInvReadChunk, RInvReadByte, RInvReadDisconnected DEF Reader
<1>13. ASSUME NEW size \in LineSizes, NEW cr \in BOOLEAN, WriteLine(size, cr) PROVE RInv'
  BY <1>1, <1>13, RInvWriteLine
<1> QED
  BY <1>1, <1>3, <1>4, <1>5, <1>6, <1>7, <1>8, <1>9, <1>10, <1>11, <1>12, <1>13,
     RInvUnplug, RInvPlug, RInvReadError
  DEF Next, Dispatcher

(* Every request the dispatcher gets is the whole of one line the host     *)
(* sent (of a line over the cap, what follows the byte dropped last) and   *)
(* requests keep the host's order, for every cap and packet size, however  *)
(* often the cable is pulled, but for lines of which a read failed         *)
(* (webusb.rs reader_loop).                                                *)
THEOREM LinesAreWhole == Spec => []NothingSpliced
<1>1. RInv /\ [Next]_vars => RInv' BY RInvStep
<1>2. RInv => NothingSpliced BY DEF RInv
<1> QED BY InitRInv, <1>1, <1>2, PTL DEF Spec
-----------------------------------------------------------------------------
(* The writer's half.  What the host holds of a line while the dispatcher  *)
(* writes: exactly what was written of this response; or bytes of a hurt   *)
(* response, of this one or of one before whose newline was lost; or       *)
(* nothing, after an earlier chunk was lost.                               *)
Current == Len(dispatched)

Reply(k, n) == Append(Text(k, n), LF)

Marked == \E j \in 1..Len(rx) : rx[j][1] \in hurt

Clean(p) == /\ Current \notin hurt
            /\ Len(rx) = p - 1 /\ \A i \in 1..(p - 1) : rx[i] = <<Current, i>>

Spoilt == Marked /\ (Current \in hurt \/ Current - 1 \in unended)

Cleared == rx = <<>> /\ Current \in hurt

(* The dispatcher has come to byte p of a response of n bytes.             *)
Writing(n, p) ==
  /\ job.left = SubSeq(Reply(Current, n), p, n + 1)
  /\ Clean(p) \/ Spoilt \/ Cleared
  /\ job.pc = "write" => p <= n + 1
  /\ job.pc = "reconnect" => Current \in hurt /\ (p = n + 2 => Current \in unended)

WInv ==
  /\ job.pc = "recv" => rx = <<>> \/ (Marked /\ Current \in unended)
  /\ job.pc = "engine" => rx = <<>> \/ (Marked /\ Current - 1 \in unended)
  /\ job.pc \in {"write", "reconnect"} =>
       \E n \in ResponseSizes : \E p \in 1..(n + 2) : Writing(n, p)

DInv == TInv /\ WInv /\ DamageIsLocal

LEMMA ReplyIs ==
  ASSUME NEW k \in Nat, NEW n \in Nat
  PROVE  /\ Reply(k, n) \in Seq(Byte) /\ Len(Reply(k, n)) = n + 1
         /\ \A i \in 1..n : Reply(k, n)[i] = <<k, i>>
         /\ Reply(k, n)[n + 1] = LF
<1>1. PICK t \in Seq(Byte) : t = Text(k, n) BY TextIs
<1>2. Len(t) = n /\ \A i \in 1..n : t[i] = <<k, i>> BY <1>1, TextIs
<1>3. LF \in Byte BY Delimiters
<1>4. /\ Append(t, LF) \in Seq(Byte) /\ Len(Append(t, LF)) = Len(t) + 1
      /\ \A i \in 1..Len(t) : Append(t, LF)[i] = t[i]
      /\ Append(t, LF)[Len(t) + 1] = LF
  BY <1>3, AppendProperties
<1>5. Reply(k, n) = Append(t, LF) BY <1>1 DEF Reply
<1> HIDE <1>1
<1> QED BY <1>2, <1>4, <1>5

(* The next chunk of a response, and what is left after it.                *)
LEMMA ReplyPacket ==
  ASSUME NEW k \in Nat, NEW n \in Nat, NEW p \in Nat, 1 <= p, p <= n + 1
  PROVE  \E e \in Nat :
           /\ p <= e /\ e <= n + 1
           /\ Packed(SubSeq(Reply(k, n), p, n + 1)) \in Seq(Byte)
           /\ Len(Packed(SubSeq(Reply(k, n), p, n + 1))) = e - p + 1
           /\ \A i \in 1..(e - p + 1) :
                p + i - 1 <= n => Packed(SubSeq(Reply(k, n), p, n + 1))[i] = <<k, p + i - 1>>
           /\ e = n + 1 => Packed(SubSeq(Reply(k, n), p, n + 1))[e - p + 1] = LF
           /\ Rest(SubSeq(Reply(k, n), p, n + 1)) = SubSeq(Reply(k, n), e + 1, n + 1)
           /\ Rest(SubSeq(Reply(k, n), p, n + 1)) = <<>> <=> e = n + 1
<1>1. PICK s \in Seq(Byte) : s = Reply(k, n) BY ReplyIs
<1>2. Len(s) = n + 1 /\ (\A i \in 1..n : s[i] = <<k, i>>) /\ s[n + 1] = LF BY <1>1, ReplyIs
<1> SUFFICES \E e \in Nat :
           /\ p <= e /\ e <= n + 1
           /\ Packed(SubSeq(s, p, n + 1)) \in Seq(Byte)
           /\ Len(Packed(SubSeq(s, p, n + 1))) = e - p + 1
           /\ \A i \in 1..(e - p + 1) :
                p + i - 1 <= n => Packed(SubSeq(s, p, n + 1))[i] = <<k, p + i - 1>>
           /\ e = n + 1 => Packed(SubSeq(s, p, n + 1))[e - p + 1] = LF
           /\ Rest(SubSeq(s, p, n + 1)) = SubSeq(s, e + 1, n + 1)
           /\ Rest(SubSeq(s, p, n + 1)) = <<>> <=> e = n + 1
  BY <1>1
<1> HIDE <1>1
<1>3. PICK m \in Nat : m = n + 1 OBVIOUS
<1>4. p <= m /\ m <= Len(s) BY <1>2, <1>3
<1>5. PICK e \in Nat : /\ p <= e /\ e <= m
                       /\ Packed(SubSeq(s, p, m)) = SubSeq(s, p, e)
                       /\ Rest(SubSeq(s, p, m)) = SubSeq(s, e + 1, m)
  BY <1>4, PacketOfSlice
<1>6. /\ SubSeq(s, p, e) \in Seq(Byte) /\ Len(SubSeq(s, p, e)) = e - p + 1
      /\ \A i \in 1..(e - p + 1) : SubSeq(s, p, e)[i] = s[p + i - 1]
  <2>1. p <= e + 1 /\ e <= Len(s) BY <1>4, <1>5
  <2> QED BY <2>1, SliceIs
<1>7. /\ SubSeq(s, e + 1, m) \in Seq(Byte) /\ Len(SubSeq(s, e + 1, m)) = m - e
  BY <1>4, <1>5, DropIs
<1>8. SubSeq(s, e + 1, m) = <<>> <=> e = m
  <2>1. PICK r \in Seq(Byte) : r = SubSeq(s, e + 1, m) BY <1>7
  <2>2. Len(r) = m - e BY <1>7, <2>1
  <2>3. r = <<>> <=> Len(r) = 0 OBVIOUS
  <2>4. m - e = 0 <=> e = m BY <1>5
  <2> QED BY <2>1, <2>2, <2>3, <2>4
<1>9. \A i \in 1..(e - p + 1) : p + i - 1 <= n => SubSeq(s, p, e)[i] = <<k, p + i - 1>>
  <2> SUFFICES ASSUME NEW i \in 1..(e - p + 1), p + i - 1 <= n
               PROVE  SubSeq(s, p, e)[i] = <<k, p + i - 1>>
    OBVIOUS
  <2>1. p + i - 1 \in 1..n OBVIOUS
  <2> QED BY <2>1, <1>2, <1>6
<1>10. e = m => SubSeq(s, p, e)[e - p + 1] = LF
  <2>1. e - p + 1 \in 1..(e - p + 1) /\ p + (e - p + 1) - 1 = e BY <1>5
  <2>2. SubSeq(s, p, e)[e - p + 1] = s[e] BY <2>1, <1>6
  <2> QED BY <2>2, <1>2, <1>3
<1>11. /\ p <= e /\ e <= m
       /\ Packed(SubSeq(s, p, m)) \in Seq(Byte)
       /\ Len(Packed(SubSeq(s, p, m))) = e - p + 1
       /\ \A i \in 1..(e - p + 1) :
            p + i - 1 <= n => Packed(SubSeq(s, p, m))[i] = <<k, p + i - 1>>
       /\ e = m => Packed(SubSeq(s, p, m))[e - p + 1] = LF
       /\ Rest(SubSeq(s, p, m)) = SubSeq(s, e + 1, m)
       /\ Rest(SubSeq(s, p, m)) = <<>> <=> e = m
  BY <1>5, <1>6, <1>8, <1>9, <1>10, Zenon
<1> QED BY <1>3, <1>11

(* What the host does with a packet, byte by byte.                         *)
LEMMA HostReadsIs ==
  ASSUME Types, NEW packet \in Seq(Byte), NEW m \in Nat, m > 0, Len(packet) = m,
         HostReads(packet)
  PROVE  \E cut \in Seq(Byte) :
           /\ Len(cut) = Len(rx) + m - 1
           /\ \A i \in 1..Len(rx) : cut[i] = rx[i]
           /\ \A i \in 1..(m - 1) : cut[Len(rx) + i] = packet[i]
           /\ packet[m] = LF => rx' = <<>> /\ got' = IF cut = <<>> THEN got ELSE Append(got, cut)
           /\ packet[m] # LF => /\ rx' \in Seq(Byte) /\ Len(rx') = Len(rx) + m
                                /\ \A i \in 1..Len(rx) : rx'[i] = rx[i]
                                /\ \A i \in 1..m : rx'[Len(rx) + i] = packet[i]
                                /\ got' = got
<1>1. PICK x \in Seq(Byte) : x = rx BY DEF Types
<1>2. PICK q \in Nat : q = Len(x) OBVIOUS
<1>3. /\ x \o packet \in Seq(Byte) /\ Len(x \o packet) = Len(x) + Len(packet)
      /\ \A i \in 1..(Len(x) + Len(packet)) :
           (x \o packet)[i] = IF i <= Len(x) THEN x[i] ELSE packet[i - Len(x)]
  BY ConcatProperties
<1>4. PICK b \in Seq(Byte) : b = x \o packet BY <1>3
<1>5. Len(b) = q + m /\ (\A i \in 1..q : b[i] = x[i]) /\ \A i \in 1..m : b[q + i] = packet[i]
  <2>1. Len(b) = q + m BY <1>2, <1>3, <1>4
  <2>2. \A i \in 1..q : i \in 1..(q + m) /\ i <= q OBVIOUS
  <2>3. \A i \in 1..m : q + i \in 1..(q + m) /\ ~(q + i <= q) /\ (q + i) - q = i OBVIOUS
  <2>4. \A i \in 1..(q + m) : b[i] = IF i <= q THEN x[i] ELSE packet[i - q] BY <1>2, <1>3, <1>4
  <2> HIDE <1>3
  <2>5. \A i \in 1..q : b[i] = x[i] BY <2>2, <2>4
  <2>6. \A i \in 1..m : b[q + i] = packet[i] BY <2>3, <2>4
  <2> QED BY <2>1, <2>5, <2>6
<1>6. PICK c : c = SubSeq(b, 1, Len(b) - 1) OBVIOUS
<1>7. c \in Seq(Byte) /\ Len(c) = q + m - 1 /\ \A i \in 1..(q + m - 1) : c[i] = b[i]
  <2>1. PICK h \in Nat : h = q + m - 1 OBVIOUS
  <2>2. h <= Len(b) /\ 1 <= h + 1 /\ Len(b) - 1 = h BY <1>5, <2>1
  <2>3. /\ SubSeq(b, 1, h) \in Seq(Byte) /\ Len(SubSeq(b, 1, h)) = h - 1 + 1
        /\ \A i \in 1..(h - 1 + 1) : SubSeq(b, 1, h)[i] = b[1 + i - 1]
    BY <2>2, SliceIs
  <2>4. h - 1 + 1 = h /\ \A i \in 1..h : 1 + i - 1 = i OBVIOUS
  <2>5. c = SubSeq(b, 1, h) BY <1>6, <2>2
  <2>6. c \in Seq(Byte) /\ Len(c) = h /\ \A i \in 1..h : c[i] = b[i] BY <2>3, <2>4, <2>5
  <2> QED BY <2>1, <2>6
<1>8. IF b[Len(b)] = LF
      THEN rx' = <<>> /\ got' = IF c = <<>> THEN got ELSE Append(got, c)
      ELSE rx' = b /\ got' = got
  BY <1>1, <1>4, <1>6 DEF HostReads
<1> HIDE <1>4, <1>6
<1>9. b[Len(b)] = packet[m] BY <1>5
<1>10. \A i \in 1..q : c[i] = x[i] BY <1>5, <1>7
<1>11. \A i \in 1..(m - 1) : c[q + i] = packet[i] BY <1>5, <1>7
<1>12. packet[m] = LF => rx' = <<>> /\ got' = IF c = <<>> THEN got ELSE Append(got, c)
  BY <1>8, <1>9, Zenon
<1>13. packet[m] # LF => rx' = b /\ got' = got BY <1>8, <1>9, Zenon
<1>14. packet[m] # LF => /\ rx' \in Seq(Byte) /\ Len(rx') = q + m
                         /\ \A i \in 1..q : rx'[i] = x[i]
                         /\ \A i \in 1..m : rx'[q + i] = packet[i]
                         /\ got' = got
  BY <1>13, <1>5
<1> QED BY <1>1, <1>2, <1>7, <1>10, <1>11, <1>12, <1>14

(* Nothing more reaches the host, and histories only grow: the damage is   *)
(* where it was, or the response just given up is hurt.                    *)
LEMMA DamageKept ==
  ASSUME Types, DamageIsLocal, got' = got, hurt \subseteq hurt', unended \subseteq unended',
         Len(dispatched) <= Len(dispatched'), dispatched' \in Seq(Seq(Byte)),
         answered' = answered \/ (answered' = answered + 1 /\ answered' \in hurt')
  PROVE  DamageIsLocal'
<1>1. dispatched \in Seq(Seq(Byte)) /\ answered \in Nat BY DEF Types
<1>2. DOMAIN dispatched \subseteq DOMAIN dispatched' BY <1>1
<1>3. ASSUME NEW i \in DOMAIN got, Whole(got[i]) PROVE Whole(got[i])'
  BY <1>2, <1>3 DEF Whole
<1>4. ASSUME NEW d \in 1..answered', d \notin hurt', d - 1 \notin unended'
      PROVE  \E i \in DOMAIN got' : Whole(got[i])' /\ got'[i][1][1] = d
  <2>1. d \in 1..answered BY <1>1, <1>4
  <2>2. d \notin hurt /\ d - 1 \notin unended BY <1>4
  <2>3. PICK i \in DOMAIN got : Whole(got[i]) /\ got[i][1][1] = d
    BY <2>1, <2>2 DEF DamageIsLocal
  <2> QED BY <1>3, <2>3
<1>5. ASSUME NEW i \in DOMAIN got'
      PROVE  Whole(got[i])' \/ \E j \in DOMAIN got'[i] : got'[i][j][1] \in hurt'
  <2>1. i \in DOMAIN got BY <1>5
  <2>2. Whole(got[i]) \/ \E j \in DOMAIN got[i] : got[i][j][1] \in hurt
    BY <2>1 DEF DamageIsLocal
  <2>3. (\E j \in DOMAIN got[i] : got[i][j][1] \in hurt)
          => \E j \in DOMAIN got'[i] : got'[i][j][1] \in hurt'
    OBVIOUS
  <2> QED BY <1>3, <2>1, <2>2, <2>3
<1> QED BY <1>4, <1>5 DEF DamageIsLocal

(* One more line reaches the host: the response just finished, or one with *)
(* a hurt byte.                                                            *)
LEMMA DamageNext ==
  ASSUME Types, DamageIsLocal, hurt' = hurt, unended' = unended, dispatched' = dispatched,
         answered' = answered + 1, NEW cut \in Seq(Byte),
         \/ got' = got
         \/ /\ got' = Append(got, cut)
            /\ Whole(cut) \/ \E j \in DOMAIN cut : cut[j][1] \in hurt,
         \/ answered' \in hurt \/ answered' - 1 \in unended
         \/ got' = Append(got, cut) /\ Whole(cut) /\ cut[1][1] = answered'
  PROVE  DamageIsLocal'
<1>1. got \in Seq(Seq(Byte)) /\ answered \in Nat /\ Len(got) \in Nat BY DEF Types
<1>2. \A l : Whole(l)' <=> Whole(l) BY DEF Whole
<1>3. /\ Append(got, cut) \in Seq(Seq(Byte)) /\ Len(Append(got, cut)) = Len(got) + 1
      /\ \A i \in 1..Len(got) : Append(got, cut)[i] = got[i]
      /\ Append(got, cut)[Len(got) + 1] = cut
  BY <1>1, AppendProperties
<1>4. got' = got \/ got' = Append(got, cut) OBVIOUS
<1>5. /\ got' \in Seq(Seq(Byte))
      /\ \A i \in 1..Len(got) : i \in DOMAIN got' /\ got'[i] = got[i]
  <2>1. CASE got' = got BY <1>1, <2>1
  <2>2. CASE got' = Append(got, cut)
    <3>1. PICK g \in Seq(Seq(Byte)) : g = Append(got, cut) BY <1>3
    <3>2. Len(g) = Len(got) + 1 /\ \A i \in 1..Len(got) : g[i] = got[i] BY <1>3, <3>1
    <3>3. got' = g BY <2>2, <3>1
    <3> HIDE <3>1, <2>2
    <3> QED BY <1>1, <3>2, <3>3
  <2> QED BY <1>4, <2>1, <2>2
<1>6. ASSUME NEW i \in DOMAIN got'
      PROVE  Whole(got'[i]) \/ \E j \in DOMAIN got'[i] : got'[i][j][1] \in hurt
  <2>1. CASE i \in 1..Len(got)
    <3>1. i \in DOMAIN got BY <2>1, <1>1
    <3>2. Whole(got[i]) \/ \E j \in DOMAIN got[i] : got[i][j][1] \in hurt
      BY <3>1 DEF DamageIsLocal
    <3>3. got'[i] = got[i] BY <2>1, <1>5
    <3> QED BY <3>2, <3>3
  <2>2. CASE i \notin 1..Len(got)
    <3>1. got' = Append(got, cut) /\ i = Len(got) + 1
      <4>1. got' # got BY <1>1, <1>6, <2>2
      <4>2. got' = Append(got, cut) BY <4>1, <1>4
      <4>3. DOMAIN got' = 1..(Len(got) + 1) BY <4>2, <1>3
      <4> QED BY <4>2, <4>3, <1>1, <1>6, <2>2
    <3>2. got'[i] = cut BY <3>1, <1>3
    <3>3. got' # got BY <1>1, <1>6, <2>2
    <3>4. Whole(cut) \/ \E j \in DOMAIN cut : cut[j][1] \in hurt BY <3>3
    <3> QED BY <3>2, <3>4
  <2> QED BY <2>1, <2>2
<1>7. ASSUME NEW d \in 1..answered', d \notin hurt, d - 1 \notin unended
      PROVE  \E i \in DOMAIN got' : Whole(got'[i]) /\ got'[i][1][1] = d
  <2>1. CASE d \in 1..answered
    <3>1. PICK i \in DOMAIN got : Whole(got[i]) /\ got[i][1][1] = d
      BY <2>1, <1>7 DEF DamageIsLocal
    <3>2. i \in 1..Len(got) BY <1>1
    <3> QED BY <3>1, <3>2, <1>5
  <2>2. CASE d \notin 1..answered
    <3>1. d = answered' BY <1>1, <1>7, <2>2
    <3>2. got' = Append(got, cut) /\ Whole(cut) /\ cut[1][1] = answered' BY <3>1, <1>7
    <3>3. PICK i : i = Len(got) + 1 OBVIOUS
    <3>4. i \in DOMAIN got' /\ got'[i] = cut BY <3>2, <3>3, <1>1, <1>3
    <3> QED BY <3>1, <3>2, <3>4
  <2> QED BY <2>1, <2>2
<1>8. \A i \in DOMAIN got' : Whole(got[i])' <=> Whole(got'[i]) BY DEF Whole
<1> QED BY <1>6, <1>7, <1>8 DEF DamageIsLocal

(* A byte of a response that is hurt by now.                               *)
LEMMA MarkedKept ==
  ASSUME rx' = rx, hurt \subseteq hurt', Marked
  PROVE  Marked'
BY DEF Marked

LEMMA GivenUp ==
  ASSUME Types, NEW p \in Nat, p > 0, Clean(p) \/ Spoilt \/ Cleared,
         rx' = rx, hurt \subseteq hurt', Current \in hurt'
  PROVE  rx' = <<>> \/ Marked'
<1>1. CASE Clean(p)
  <2>1. Len(rx) = p - 1 /\ \A i \in 1..(p - 1) : rx[i] = <<Current, i>> BY <1>1 DEF Clean
  <2>2. CASE p = 1
    <3>1. rx \in Seq(Byte) /\ Len(rx) = 0 BY <2>1, <2>2 DEF Types
    <3> QED BY <3>1
  <2>3. CASE p # 1
    <3>1. 1 \in 1..(p - 1) BY <2>3
    <3>2. 1 \in 1..Len(rx') /\ rx'[1] = <<Current, 1>> BY <2>1, <3>1
    <3>3. rx'[1][1] \in hurt' BY <3>2
    <3> QED BY <3>2, <3>3 DEF Marked
  <2> QED BY <2>2, <2>3
<1>2. CASE Spoilt BY <1>2, MarkedKept DEF Spoilt
<1>3. CASE Cleared BY <1>3 DEF Cleared
<1> QED BY <1>1, <1>2, <1>3

(* Steps of the reader, of the host and of the cable.                      *)
LEMMA DInvFramed ==
  ASSUME DInv, TInv', dispatched' = dispatched, job' = job, answered' = answered,
         rx' = rx, got' = got, hurt' = hurt, unended' = unended
  PROVE  DInv'
<1>1. Types /\ WInv /\ DamageIsLocal BY DEF DInv, TInv
<1>2. WInv' BY <1>1 DEF WInv, Marked, Current, Writing, Clean, Spoilt, Cleared
<1>3. dispatched' \in Seq(Seq(Byte)) /\ Len(dispatched) <= Len(dispatched') BY <1>1 DEF Types
<1>4. DamageIsLocal' BY <1>1, <1>3, DamageKept
<1> QED BY <1>2, <1>4 DEF DInv

LEMMA DInvUnplug ==
  ASSUME DInv, TInv', Unplug
  PROVE  DInv'
<1>1. Types /\ WInv /\ DamageIsLocal BY DEF DInv, TInv
<1>2. /\ dispatched' = dispatched /\ job' = job /\ answered' = answered /\ rx' = <<>>
      /\ got' = got /\ unended' = unended /\ hurt \subseteq hurt'
      /\ job.pc = "write" => Len(dispatched) \in hurt'
  BY DEF Unplug
<1>3. dispatched' \in Seq(Seq(Byte)) /\ Len(dispatched) <= Len(dispatched')
  BY <1>1, <1>2 DEF Types
<1>4. DamageIsLocal' BY <1>1, <1>2, <1>3, DamageKept
<1>5. Current' = Current BY <1>2 DEF Current
<1>6. ASSUME NEW n \in ResponseSizes, NEW p \in 1..(n + 2), Writing(n, p),
             job.pc \in {"write", "reconnect"}
      PROVE  Writing(n, p)'
  <2>1. Current \in hurt' BY <1>2, <1>6 DEF Writing, Current
  <2>2. Cleared' BY <1>2, <1>5, <2>1 DEF Cleared
  <2> QED BY <1>2, <1>5, <1>6, <2>1, <2>2 DEF Writing
<1>7. WInv' BY <1>1, <1>2, <1>6 DEF WInv
<1> QED BY <1>4, <1>7 DEF DInv

LEMMA DInvDispatch ==
  ASSUME DInv, TInv', Dispatch
  PROVE  DInv'
<1>1. Types /\ WInv /\ DamageIsLocal BY DEF DInv, TInv
<1>2. /\ job.pc = "recv" /\ job'.pc = "engine" /\ answered' = answered /\ rx' = rx
      /\ got' = got /\ unended' = unended /\ hurt' = hurt
      /\ dispatched' = Append(dispatched, Head(queue)) /\ queue # <<>>
  BY <1>1 DEF Dispatch, wire, Types
<1>3. /\ dispatched' \in Seq(Seq(Byte)) /\ Len(dispatched') = Len(dispatched) + 1
      /\ Len(dispatched) \in Nat
  BY <1>1, <1>2 DEF Types
<1>4. Current' - 1 = Current /\ Len(dispatched) <= Len(dispatched') BY <1>3 DEF Current
<1>5. DamageIsLocal' BY <1>1, <1>2, <1>3, <1>4, DamageKept
<1>6. rx = <<>> \/ (Marked /\ Current \in unended) BY <1>1, <1>2 DEF WInv
<1>7. rx' = <<>> \/ (Marked' /\ (Current - 1 \in unended)')
  BY <1>2, <1>4, <1>6, MarkedKept
<1>8. WInv' BY <1>2, <1>7 DEF WInv
<1> QED BY <1>5, <1>8 DEF DInv

LEMMA DInvRespond ==
  ASSUME DInv, TInv', NEW n \in ResponseSizes, Respond(n)
  PROVE  DInv'
<1>1. Types /\ WInv /\ DamageIsLocal BY DEF DInv, TInv
<1>2. /\ job.pc = "engine" /\ answered' = answered /\ rx' = rx
      /\ got' = got /\ unended' = unended /\ hurt' = hurt /\ dispatched' = dispatched
      /\ job' = [pc |-> "write", left |-> Reply(Current, n)]
  BY DEF Respond, wire, Reply, Current
<1>3. dispatched' \in Seq(Seq(Byte)) /\ Len(dispatched) <= Len(dispatched') /\ Current \in Nat
  BY <1>1, <1>2 DEF Types, Current
<1>4. DamageIsLocal' BY <1>1, <1>2, <1>3, DamageKept
<1>5. Current' = Current BY <1>2 DEF Current
<1>6. n \in Nat /\ n > 0 BY Constants
<1>7. PICK s \in Seq(Byte) : s = Reply(Current, n) BY <1>3, <1>6, ReplyIs
<1>8. Len(s) = n + 1 BY <1>3, <1>6, <1>7, ReplyIs
<1>9. SubSeq(s, 1, n + 1) = s BY <1>8, SubSeqFull
<1>10. job'.pc = "write" /\ job'.left = s BY <1>2, <1>7
<1>11. job'.left = SubSeq(Reply(Current, n)', 1, n + 1)
  BY <1>5, <1>7, <1>9, <1>10 DEF Reply
<1>12. rx = <<>> \/ (Marked /\ Current - 1 \in unended) BY <1>1, <1>2 DEF WInv
<1>13. Clean(1)' \/ Spoilt' \/ Cleared'
  <2>1. CASE rx = <<>> /\ Current \in hurt BY <1>2, <1>5, <2>1 DEF Cleared
  <2>2. CASE rx = <<>> /\ Current \notin hurt BY <1>2, <1>5, <2>2 DEF Clean
  <2>3. CASE Marked /\ Current - 1 \in unended
    BY <1>2, <1>5, <2>3, MarkedKept DEF Spoilt
  <2> QED BY <1>12, <2>1, <2>2, <2>3
<1>14. Writing(n, 1)'
  <2>1. 1 <= n + 1 BY <1>6
  <2> QED BY <1>10, <1>11, <1>13, <2>1 DEF Writing
<1>15. 1 \in 1..(n + 2) BY <1>6
<1>16. WInv' BY <1>10, <1>14, <1>15 DEF WInv
<1> QED BY <1>4, <1>16 DEF DInv

(* The dispatcher's loop is over, with the response given up.              *)
LEMMA DInvResume ==
  ASSUME DInv, TInv', job.pc = "reconnect",
         IF job.left = <<>> THEN job' = Recv /\ answered' = answered + 1
         ELSE job' = [job EXCEPT !.pc = "write"] /\ UNCHANGED answered,
         dispatched' = dispatched, rx' = rx, got' = got, hurt' = hurt, unended' = unended
  PROVE  DInv'
<1>1. Types /\ Counted /\ WInv /\ DamageIsLocal BY DEF DInv, TInv
<1>2. PICK n \in ResponseSizes : \E p \in 1..(n + 2) : Writing(n, p) BY <1>1 DEF WInv
<1>3. PICK p \in 1..(n + 2) : Writing(n, p) BY <1>2
<1>4. n \in Nat /\ p \in Nat /\ p > 0 /\ p <= n + 2 BY Constants
<1>5. Current \in hurt /\ (p = n + 2 => Current \in unended) BY <1>3 DEF Writing
<1>6. answered + 1 = Current /\ Current \in Nat BY <1>1 DEF Counted, Types, Current
<1>7. Current' = Current BY DEF Current
<1>8. DamageIsLocal'
  <2>1. answered' = answered \/ (answered' = answered + 1 /\ answered' \in hurt')
    BY <1>5, <1>6
  <2>2. dispatched' \in Seq(Seq(Byte)) /\ Len(dispatched) <= Len(dispatched')
    BY <1>1 DEF Types
  <2> QED BY <1>1, <2>1, <2>2, DamageKept
<1>9. job.left = SubSeq(Reply(Current, n), p, n + 1) /\ (Clean(p) \/ Spoilt \/ Cleared)
  BY <1>3 DEF Writing
<1>10. job.left = <<>> <=> p = n + 2
  <2>1. PICK s \in Seq(Byte) : s = Reply(Current, n) BY <1>4, <1>6, ReplyIs
  <2>2. Len(s) = n + 1 BY <1>4, <1>6, <2>1, ReplyIs
  <2>3. PICK m \in Nat : m = n + 1 BY <1>4
  <2>4. p <= m + 1 /\ m <= Len(s) BY <1>4, <2>2, <2>3
  <2>5. PICK r : r = SubSeq(s, p, m) OBVIOUS
  <2>6. r \in Seq(Byte) /\ Len(r) = m - p + 1 BY <1>4, <2>4, <2>5, SliceIs
  <2>7. r = <<>> <=> Len(r) = 0 BY <2>6
  <2>8. m - p + 1 = 0 <=> p = n + 2 BY <1>4, <2>3
  <2>9. job.left = r BY <1>9, <2>1, <2>3, <2>5
  <2> QED BY <2>6, <2>7, <2>8, <2>9
<1>11. rx' = <<>> \/ Marked' BY <1>1, <1>4, <1>5, <1>9, GivenUp
<1>12. CASE job.left = <<>>
  <2>1. job'.pc = "recv" BY <1>12 DEF Recv
  <2>2. Current \in unended BY <1>5, <1>10, <1>12
  <2>3. rx' = <<>> \/ (Marked' /\ (Current \in unended)') BY <1>7, <1>11, <2>2
  <2>4. WInv' BY <2>1, <2>3 DEF WInv
  <2> QED BY <1>8, <2>4 DEF DInv
<1>13. CASE job.left # <<>>
  <2>1. job'.pc = "write" /\ job'.left = job.left BY <1>1, <1>13 DEF Types
  <2>2. p <= n + 1 BY <1>4, <1>10, <1>13
  <2>3. Clean(p)' \/ Spoilt' \/ Cleared'
    BY <1>5, <1>7, <1>11 DEF Spoilt, Cleared
  <2>4. job'.left = SubSeq(Reply(Current, n)', p, n + 1) BY <1>7, <1>9, <2>1 DEF Reply
  <2>5. Writing(n, p)' BY <2>1, <2>2, <2>3, <2>4 DEF Writing
  <2>6. WInv' BY <2>1, <2>5 DEF WInv
  <2> QED BY <1>8, <2>6 DEF DInv
<1> QED BY <1>12, <1>13

LEMMA ChunkIs ==
  ASSUME Types, NEW n \in ResponseSizes, NEW p \in Nat, 1 <= p, p <= n + 1, Writing(n, p)
  PROVE  \E e \in Nat :
           /\ p <= e /\ e <= n + 1
           /\ Packed(job.left) \in Seq(Byte)
           /\ Len(Packed(job.left)) = e - p + 1
           /\ \A i \in 1..(e - p + 1) :
                p + i - 1 <= n => Packed(job.left)[i] = <<Current, p + i - 1>>
           /\ e = n + 1 => Packed(job.left)[e - p + 1] = LF
           /\ Rest(job.left) = SubSeq(Reply(Current, n), e + 1, n + 1)
           /\ Rest(job.left) = <<>> <=> e = n + 1
<1> DEFINE L == SubSeq(Reply(Current, n), p, n + 1)
<1>1. n \in Nat BY Constants
<1>2. Current \in Nat BY DEF Types, Current
<1>3. PICK e \in Nat :
           /\ p <= e /\ e <= n + 1
           /\ Packed(L) \in Seq(Byte)
           /\ Len(Packed(L)) = e - p + 1
           /\ \A i \in 1..(e - p + 1) :
                p + i - 1 <= n => Packed(L)[i] = <<Current, p + i - 1>>
           /\ e = n + 1 => Packed(L)[e - p + 1] = LF
           /\ Rest(L) = SubSeq(Reply(Current, n), e + 1, n + 1)
           /\ Rest(L) = <<>> <=> e = n + 1
  BY <1>1, <1>2, ReplyPacket
<1>4. job.left = L BY DEF Writing
<1> HIDE DEF L
<1> QED BY <1>3, <1>4, Zenon

(* A chunk is skipped.                                                     *)
LEMMA DInvSkip ==
  ASSUME DInv, TInv', job.pc = "write", Skip, NEW pc \in {"write", "reconnect"}, NextChunk(pc),
         dispatched' = dispatched
  PROVE  DInv'
<1>1. Types /\ Counted /\ WInv /\ DamageIsLocal BY DEF DInv, TInv
<1>2. PICK n \in ResponseSizes : \E p \in 1..(n + 2) : Writing(n, p) BY <1>1 DEF WInv
<1>3. PICK p \in 1..(n + 2) : Writing(n, p) BY <1>2
<1>4. n \in Nat /\ p \in Nat /\ 1 <= p /\ p > 0 /\ p <= n + 2 BY Constants
<1>5. p <= n + 1 /\ job.left = SubSeq(Reply(Current, n), p, n + 1)
      /\ (Clean(p) \/ Spoilt \/ Cleared)
  BY <1>3 DEF Writing
<1>6. answered + 1 = Current /\ Current \in Nat BY <1>1 DEF Counted, Types, Current
<1>7. Current' = Current BY DEF Current
<1>8. /\ rx' = rx /\ got' = got /\ hurt' = hurt \cup {Current} /\ unended \subseteq unended'
      /\ Rest(job.left) = <<>> => Current \in unended'
  BY DEF Skip, Current
<1>9. hurt \subseteq hurt' /\ Current \in hurt' BY <1>8
<1>10. /\ answered' = answered \/ (answered' = answered + 1 /\ answered' \in hurt')
  BY <1>6, <1>9 DEF NextChunk
<1>11. DamageIsLocal'
  <2>1. dispatched' \in Seq(Seq(Byte)) /\ Len(dispatched) <= Len(dispatched')
    BY <1>1 DEF Types
  <2> QED BY <1>1, <1>8, <1>9, <1>10, <2>1, DamageKept
<1>12. rx' = <<>> \/ Marked' BY <1>1, <1>4, <1>5, <1>8, <1>9, GivenUp
<1>13. PICK e \in Nat : /\ p <= e /\ e <= n + 1
                        /\ Rest(job.left) = SubSeq(Reply(Current, n), e + 1, n + 1)
                        /\ Rest(job.left) = <<>> <=> e = n + 1
  <2>1. p <= n + 1 BY <1>5
  <2> QED BY <1>1, <1>3, <1>4, <2>1, ChunkIs
<1>14. CASE job' = Recv
  <2>1. job'.pc = "recv" BY <1>14 DEF Recv
  <2>2. Rest(job.left) = <<>>
    <3>1. job' = [pc |-> pc, left |-> Rest(job.left)] => job'.pc = pc OBVIOUS
    <3> QED BY <2>1, <3>1 DEF NextChunk
  <2>3. rx' = <<>> \/ (Marked' /\ (Current \in unended)') BY <1>7, <1>8, <1>12, <2>2
  <2>4. WInv' BY <2>1, <2>3 DEF WInv
  <2> QED BY <1>11, <2>4 DEF DInv
<1>15. CASE job' = [pc |-> pc, left |-> Rest(job.left)] /\ ~(Rest(job.left) = <<>> /\ pc = "write")
  <2>1. job'.pc = pc /\ job'.left = Rest(job.left) BY <1>15
  <2>2. PICK h \in Nat : h = e + 1 OBVIOUS
  <2>3. h \in 1..(n + 2) BY <1>4, <1>13, <2>2
  <2>4. Clean(h)' \/ Spoilt' \/ Cleared' BY <1>7, <1>9, <1>12 DEF Spoilt, Cleared
  <2>5. job'.left = SubSeq(Reply(Current, n)', h, n + 1)
    BY <1>7, <1>13, <2>1, <2>2 DEF Reply
  <2>6. pc = "write" => h <= n + 1
    <3>1. pc = "write" => e # n + 1 BY <1>13, <1>15
    <3> QED BY <1>4, <1>13, <2>2, <3>1
  <2>7. h = n + 2 => Current \in unended'
    <3>1. h = n + 2 => e = n + 1 BY <1>4, <2>2
    <3> QED BY <1>8, <1>13, <3>1
  <2>8. Writing(n, h)' BY <1>7, <1>9, <2>1, <2>4, <2>5, <2>6, <2>7 DEF Writing
  <2>9. WInv' BY <2>1, <2>3, <2>8 DEF WInv
  <2> QED BY <1>11, <2>9 DEF DInv
<1> QED BY <1>14, <1>15 DEF NextChunk

(* A chunk is written that is not the last: the host's buffer grows.       *)
LEMMA BufferGrows ==
  ASSUME Types, NEW n \in Nat, NEW p \in Nat, NEW e \in Nat, 1 <= p, p <= e,
         Clean(p) \/ Spoilt \/ Cleared,
         dispatched' = dispatched, hurt' = hurt, unended' = unended,
         Len(rx') = Len(rx) + (e - p + 1),
         \A i \in 1..Len(rx) : rx'[i] = rx[i],
         \A i \in 1..(e - p + 1) : rx'[Len(rx) + i] = <<Current, p + i - 1>>
  PROVE  Clean(e + 1)' \/ Spoilt'
<1>1. Current' = Current BY DEF Current
<1>2. PICK q \in Nat : q = Len(rx) BY DEF Types
<1>3. CASE Clean(p)
  <2>1. Current \notin hurt /\ q = p - 1 /\ \A i \in 1..(p - 1) : rx[i] = <<Current, i>>
    BY <1>2, <1>3 DEF Clean
  <2>2. Len(rx') = e /\ (e + 1) - 1 = e BY <1>2, <2>1
  <2>3. ASSUME NEW i \in 1..e PROVE rx'[i] = <<Current, i>>
    <3>1. CASE i <= p - 1
      <4>1. i \in 1..(p - 1) /\ i \in 1..q BY <2>1, <3>1
      <4> QED BY <1>2, <2>1, <4>1
    <3>2. CASE ~(i <= p - 1)
      <4>1. PICK j \in Int : j = i - (p - 1) OBVIOUS
      <4>2. j \in 1..(e - p + 1) /\ q + j = i /\ p + j - 1 = i BY <2>1, <3>2, <4>1
      <4>3. rx'[q + j] = <<Current, p + j - 1>> BY <1>2, <4>2
      <4> QED BY <4>2, <4>3
    <3> QED BY <3>1, <3>2
  <2>4. Clean(e + 1)' BY <1>1, <2>1, <2>2, <2>3 DEF Clean
  <2> QED BY <2>4
<1>4. CASE Spoilt
  <2>1. PICK j \in 1..Len(rx) : rx[j][1] \in hurt BY <1>4 DEF Spoilt, Marked
  <2>2. j \in 1..Len(rx') BY <1>2
  <2>3. rx'[j][1] \in hurt' BY <2>1
  <2>4. Marked' BY <2>2, <2>3 DEF Marked
  <2> QED BY <1>1, <1>4, <2>4 DEF Spoilt
<1>5. CASE Cleared
  <2>1. q = 0 /\ Current \in hurt BY <1>2, <1>5 DEF Cleared
  <2>2. 1 \in 1..(e - p + 1) /\ q + 1 = 1 /\ 1 \in 1..Len(rx') BY <1>2, <2>1
  <2>3. rx'[q + 1] = <<Current, p + 1 - 1>> BY <1>2, <2>2
  <2>4. rx'[1][1] = Current BY <2>2, <2>3
  <2>5. Marked' BY <2>1, <2>2, <2>4 DEF Marked
  <2> QED BY <1>1, <2>1, <2>5 DEF Spoilt
<1> QED BY <1>3, <1>4, <1>5

(* The last chunk is written: the host has a line, or nothing was left.    *)
LEMMA LineCut ==
  ASSUME Types, NEW n \in ResponseSizes, NEW p \in Nat, 1 <= p, p <= n + 1,
         Clean(p) \/ Spoilt \/ Cleared, Current > 0, NEW cut \in Seq(Byte),
         Len(cut) = Len(rx) + (n + 1 - p),
         \A i \in 1..Len(rx) : cut[i] = rx[i],
         \A i \in 1..(n + 1 - p) : cut[Len(rx) + i] = <<Current, p + i - 1>>
  PROVE  /\ \/ cut = <<>> \/ Whole(cut) \/ \E j \in DOMAIN cut : cut[j][1] \in hurt
         /\ \/ Current \in hurt \/ Current - 1 \in unended
            \/ cut # <<>> /\ Whole(cut) /\ cut[1][1] = Current
<1>1. n \in Nat /\ n > 0 BY Constants
<1>2. PICK q \in Nat : q = Len(rx) BY DEF Types
<1>3. dispatched \in Seq(Seq(Byte)) /\ Current \in Nat /\ Current \in DOMAIN dispatched
  BY DEF Types, Current
<1>4. CASE Clean(p)
  <2>1. q = p - 1 /\ \A i \in 1..(p - 1) : rx[i] = <<Current, i>> BY <1>2, <1>4 DEF Clean
  <2>2. Len(cut) = n BY <1>1, <1>2, <2>1
  <2>3. ASSUME NEW i \in 1..n PROVE cut[i] = <<Current, i>>
    <3>1. CASE i <= p - 1
      <4>1. i \in 1..(p - 1) /\ i \in 1..q BY <1>1, <2>1, <3>1
      <4> QED BY <1>2, <2>1, <4>1
    <3>2. CASE ~(i <= p - 1)
      <4>1. PICK j \in Int : j = i - (p - 1) OBVIOUS
      <4>2. j \in 1..(n + 1 - p) /\ q + j = i /\ p + j - 1 = i BY <1>1, <2>1, <3>2, <4>1
      <4>3. cut[q + j] = <<Current, p + j - 1>> BY <1>2, <4>2
      <4> QED BY <4>2, <4>3
    <3> QED BY <3>1, <3>2
  <2>4. PICK t \in Seq(Byte) : t = Text(Current, n) BY <1>1, <1>3, TextIs
  <2>5. Len(t) = n /\ \A i \in 1..n : t[i] = <<Current, i>> BY <1>1, <1>3, <2>4, TextIs
  <2>6. cut = t
    <3>1. Len(cut) = Len(t) /\ \A i \in 1..Len(cut) : cut[i] = t[i] BY <2>2, <2>3, <2>5
    <3> QED BY <3>1, SeqEqual
  <2>7. Whole(cut) BY <1>3, <2>4, <2>6 DEF Whole
  <2>8. cut # <<>> BY <1>1, <2>2
  <2>9. cut[1] = <<Current, 1>> BY <1>1, <2>3
  <2> QED BY <2>7, <2>8, <2>9
<1>5. CASE Spoilt
  <2>1. PICK j \in 1..Len(rx) : rx[j][1] \in hurt BY <1>5 DEF Spoilt, Marked
  <2>2. j \in DOMAIN cut BY <1>1, <1>2
  <2>3. cut[j][1] \in hurt BY <2>1
  <2> QED BY <1>5, <2>2, <2>3 DEF Spoilt
<1>6. CASE Cleared
  <2>1. q = 0 /\ Current \in hurt BY <1>2, <1>6 DEF Cleared
  <2>2. CASE p = n + 1
    <3>1. Len(cut) = 0 BY <1>1, <1>2, <2>1, <2>2
    <3>2. cut = <<>> BY <3>1
    <3> QED BY <2>1, <3>2
  <2>3. CASE p # n + 1
    <3>1. 1 \in 1..(n + 1 - p) /\ q + 1 = 1 /\ 1 \in DOMAIN cut BY <1>1, <1>2, <2>1, <2>3
    <3>2. cut[q + 1] = <<Current, p + 1 - 1>> BY <1>2, <3>1
    <3>3. cut[1][1] = Current BY <3>1, <3>2
    <3> QED BY <2>1, <3>1, <3>3
  <2> QED BY <2>2, <2>3
<1> QED BY <1>4, <1>5, <1>6

LEMMA DInvWriteOk ==
  ASSUME DInv, TInv', WriteOk
  PROVE  DInv'
<1>1. Types /\ Counted /\ WInv /\ DamageIsLocal BY DEF DInv, TInv
<1>2. /\ job.pc = "write" /\ HostReads(Packed(job.left)) /\ NextChunk("write")
      /\ dispatched' = dispatched /\ hurt' = hurt /\ unended' = unended
  BY DEF WriteOk
<1>3. PICK n \in ResponseSizes : \E p \in 1..(n + 2) : Writing(n, p) BY <1>1, <1>2 DEF WInv
<1>4. PICK p \in 1..(n + 2) : Writing(n, p) BY <1>3
<1>5. n \in Nat /\ p \in Nat /\ 1 <= p BY Constants
<1>6. p <= n + 1 /\ (Clean(p) \/ Spoilt \/ Cleared) BY <1>2, <1>4 DEF Writing
<1>7. answered + 1 = Current /\ Current \in Nat /\ Current > 0
  <2>1. job.pc # "recv" BY <1>2
  <2>2. answered \in Nat /\ dispatched \in Seq(Seq(Byte)) BY <1>1 DEF Types
  <2>3. answered + 1 = Len(dispatched) BY <1>1, <2>1 DEF Counted
  <2> QED BY <2>2, <2>3 DEF Current
<1>8. Current' = Current BY <1>2 DEF Current
<1>9. PICK e \in Nat :
           /\ p <= e /\ e <= n + 1
           /\ Packed(job.left) \in Seq(Byte)
           /\ Len(Packed(job.left)) = e - p + 1
           /\ \A i \in 1..(e - p + 1) :
                p + i - 1 <= n => Packed(job.left)[i] = <<Current, p + i - 1>>
           /\ e = n + 1 => Packed(job.left)[e - p + 1] = LF
           /\ Rest(job.left) = SubSeq(Reply(Current, n), e + 1, n + 1)
           /\ Rest(job.left) = <<>> <=> e = n + 1
  BY <1>1, <1>4, <1>5, <1>6, ChunkIs
<1>10. PICK m \in Nat : m = e - p + 1 BY <1>5, <1>9
<1>11. m > 0 BY <1>5, <1>9, <1>10
<1>12. PICK k \in Seq(Byte) : k = Packed(job.left) BY <1>9
<1>13. /\ Len(k) = m /\ HostReads(k)
       /\ \A i \in 1..m : p + i - 1 <= n => k[i] = <<Current, p + i - 1>>
       /\ e = n + 1 => k[m] = LF
  BY <1>2, <1>9, <1>10, <1>12
<1> HIDE <1>12
<1>14. PICK cut \in Seq(Byte) :
           /\ Len(cut) = Len(rx) + m - 1
           /\ \A i \in 1..Len(rx) : cut[i] = rx[i]
           /\ \A i \in 1..(m - 1) : cut[Len(rx) + i] = k[i]
           /\ k[m] = LF => rx' = <<>> /\ got' = IF cut = <<>> THEN got ELSE Append(got, cut)
           /\ k[m] # LF => /\ rx' \in Seq(Byte) /\ Len(rx') = Len(rx) + m
                           /\ \A i \in 1..Len(rx) : rx'[i] = rx[i]
                           /\ \A i \in 1..m : rx'[Len(rx) + i] = k[i]
                           /\ got' = got
  <2>1. Types BY <1>1
  <2>2. Len(k) = m BY <1>13
  <2>3. HostReads(k) BY <1>13
  <2> HIDE <1>1, <1>9, <1>10, <1>13
  <2> QED BY <1>11, <2>1, <2>2, <2>3, HostReadsIs
<1>15. PICK q \in Nat : q = Len(rx) BY <1>1 DEF Types
<1>16. CASE e = n + 1
  <2>1. rx' = <<>> /\ got' = IF cut = <<>> THEN got ELSE Append(got, cut)
    BY <1>13, <1>14, <1>16
  <2>2. job' = Recv /\ answered' = answered + 1 BY <1>2, <1>9, <1>16 DEF NextChunk
  <2>3. job'.pc = "recv" BY <2>2 DEF Recv
  <2>4. WInv' BY <2>1, <2>3 DEF WInv
  <2>5. m = n + 1 - p + 1 BY <1>5, <1>10, <1>16
  <2>6. Len(cut) = Len(rx) + (n + 1 - p) BY <1>5, <1>14, <1>15, <2>5
  <2>7. \A i \in 1..(n + 1 - p) : cut[Len(rx) + i] = <<Current, p + i - 1>>
    <3> TAKE i \in 1..(n + 1 - p)
    <3>1. i \in 1..(m - 1) /\ i \in 1..m /\ p + i - 1 <= n BY <1>5, <2>5
    <3> QED BY <1>13, <1>14, <3>1
  <2>8. /\ \/ cut = <<>> \/ Whole(cut) \/ \E j \in DOMAIN cut : cut[j][1] \in hurt
        /\ \/ Current \in hurt \/ Current - 1 \in unended
           \/ cut # <<>> /\ Whole(cut) /\ cut[1][1] = Current
    <3>1. \A i \in 1..Len(rx) : cut[i] = rx[i] BY <1>14
    <3> QED BY <1>1, <1>5, <1>6, <1>7, <2>6, <2>7, <3>1, LineCut
  <2>9. \/ got' = got
        \/ /\ got' = Append(got, cut)
           /\ Whole(cut) \/ \E j \in DOMAIN cut : cut[j][1] \in hurt
    BY <2>1, <2>8, Zenon
  <2>10. answered' = Current BY <1>7, <2>2
  <2>11. \/ answered' \in hurt \/ answered' - 1 \in unended
         \/ got' = Append(got, cut) /\ Whole(cut) /\ cut[1][1] = answered'
    BY <2>1, <2>8, <2>10, Zenon
  <2>12. DamageIsLocal' BY <1>1, <1>2, <2>2, <2>9, <2>11, DamageNext
  <2> QED BY <2>4, <2>12 DEF DInv
<1>17. CASE e # n + 1
  <2>1. e <= n BY <1>5, <1>9, <1>17
  <2>2. \A i \in 1..m : p + i - 1 <= n BY <1>5, <1>9, <1>10, <2>1
  <2>3. \A i \in 1..m : k[i] = <<Current, p + i - 1>> BY <1>13, <2>2
  <2>4. k[m] # LF
    <3>1. m \in 1..m /\ p + m - 1 > 0 BY <1>5, <1>11
    <3>2. k[m] = <<Current, p + m - 1>> BY <2>3, <3>1
    <3> QED BY <1>7, <3>2 DEF LF
  <2>5. /\ rx' \in Seq(Byte) /\ Len(rx') = Len(rx) + m
        /\ \A i \in 1..Len(rx) : rx'[i] = rx[i]
        /\ \A i \in 1..m : rx'[Len(rx) + i] = k[i]
        /\ got' = got
    BY <1>14, <2>4
  <2>6. Clean(e + 1)' \/ Spoilt'
    <3>1. Len(rx') = Len(rx) + (e - p + 1) BY <1>10, <2>5
    <3>2. \A i \in 1..(e - p + 1) : rx'[Len(rx) + i] = <<Current, p + i - 1>>
      BY <1>10, <2>3, <2>5
    <3>3. \A i \in 1..Len(rx) : rx'[i] = rx[i] BY <2>5
    <3> QED BY <1>1, <1>2, <1>5, <1>6, <1>9, <3>1, <3>2, <3>3, BufferGrows
  <2>7. job' = [pc |-> "write", left |-> Rest(job.left)] /\ answered' = answered
    BY <1>2, <1>9, <1>17 DEF NextChunk
  <2>8. job'.pc = "write" /\ job'.left = Rest(job.left) BY <2>7
  <2>9. PICK h \in Nat : h = e + 1 OBVIOUS
  <2>10. h \in 1..(n + 2) /\ h <= n + 1 BY <1>5, <2>1, <2>9
  <2>11. job'.left = SubSeq(Reply(Current, n)', h, n + 1)
    BY <1>8, <1>9, <2>8, <2>9 DEF Reply
  <2>12. Writing(n, h)' BY <2>6, <2>8, <2>9, <2>10, <2>11 DEF Writing
  <2>13. WInv' BY <2>8, <2>10, <2>12 DEF WInv
  <2>14. DamageIsLocal'
    <3>1. dispatched' \in Seq(Seq(Byte)) /\ Len(dispatched) <= Len(dispatched')
      BY <1>1, <1>2 DEF Types
    <3> QED BY <1>1, <1>2, <2>5, <2>7, <3>1, DamageKept
  <2> QED BY <2>13, <2>14 DEF DInv
<1> QED BY <1>16, <1>17

LEMMA InitDInv == Init => DInv
<1> SUFFICES ASSUME Init PROVE DInv OBVIOUS
<1>1. TInv BY InitTInv
<1>2. rx = <<>> /\ job.pc = "recv" BY DEF Init, Recv
<1>3. WInv BY <1>2 DEF WInv
<1>4. got = <<>> /\ answered = 0 BY DEF Init
<1>5. DamageIsLocal BY <1>4 DEF DamageIsLocal
<1> QED BY <1>1, <1>3, <1>5 DEF DInv

LEMMA DInvStep == DInv /\ [Next]_vars => DInv'
<1> SUFFICES ASSUME DInv, [Next]_vars PROVE DInv' OBVIOUS
<1>1. TInv' BY TInvStep DEF DInv
<1>2. CASE Register BY <1>1, <1>2, DInvFramed DEF Register, wire
<1>3. ASSUME NEW size \in LineSizes, NEW cr \in BOOLEAN, WriteLine(size, cr) PROVE DInv'
  BY <1>1, <1>3, DInvFramed DEF WriteLine, wire
<1>4. CASE ReadChunk BY <1>1, <1>4, DInvFramed DEF ReadChunk, wire
<1>5. CASE ReadByte BY <1>1, <1>5, DInvFramed DEF ReadByte, wire
<1>6. CASE ReadDisconnected BY <1>1, <1>6, DInvFramed DEF ReadDisconnected, wire
<1>7. CASE ReadError BY <1>1, <1>7, DInvFramed DEF ReadError
<1>8. CASE Plug BY <1>1, <1>8, DInvFramed DEF Plug, wire
<1>9. CASE UNCHANGED vars BY <1>1, <1>9, DInvFramed DEF vars, wire
<1>10. CASE WriterResumes
  <2>1. /\ job.pc = "reconnect" /\ dispatched' = dispatched /\ rx' = rx /\ got' = got
        /\ hurt' = hurt /\ unended' = unended
        /\ IF job.left = <<>> THEN job' = Recv /\ answered' = answered + 1
           ELSE job' = [job EXCEPT !.pc = "write"] /\ UNCHANGED answered
    BY <1>10 DEF WriterResumes, wire
  <2> QED BY <1>1, <2>1, DInvResume
<1>11. CASE WaitFails
  <2>1. /\ job.pc = "reconnect" /\ dispatched' = dispatched /\ rx' = rx /\ got' = got
        /\ hurt' = hurt /\ unended' = unended
        /\ IF job.left = <<>> THEN job' = Recv /\ answered' = answered + 1
           ELSE job' = [job EXCEPT !.pc = "write"] /\ UNCHANGED answered
    BY <1>11 DEF WaitFails, wire
  <2> QED BY <1>1, <2>1, DInvResume
<1>12. CASE WriteError BY <1>1, <1>12, DInvSkip DEF WriteError
<1>13. CASE WriteDisconnected BY <1>1, <1>13, DInvSkip DEF WriteDisconnected
<1>14. ASSUME NEW size \in ResponseSizes, Respond(size) PROVE DInv'
  BY <1>1, <1>14, DInvRespond
<1> QED
  BY <1>1, <1>2, <1>3, <1>4, <1>5, <1>6, <1>7, <1>8, <1>9, <1>10, <1>11, <1>12, <1>13, <1>14,
     DInvUnplug, DInvDispatch, DInvWriteOk
  DEF Next, Reader, Dispatcher

(* Every response that lost no chunk, nor follows one that lost its        *)
(* newline, reaches the host whole and under its own number, and a line    *)
(* the host gets otherwise holds a byte of a response that lost one: for   *)
(* every size of packet and response, and any errors and disconnects       *)
(* (webusb.rs serve_blocking, the chunk loop).                             *)
THEOREM DamageStaysLocal == Spec => []DamageIsLocal
<1>1. DInv /\ [Next]_vars => DInv' BY DInvStep
<1>2. DInv => DamageIsLocal BY DEF DInv
<1> QED BY InitDInv, <1>1, <1>2, PTL DEF Spec
=============================================================================
