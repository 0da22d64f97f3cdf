-------------------------------- MODULE WebUsb --------------------------------
(***************************************************************************)
(* The WebUSB transport of src/transport/webusb.rs: registration of the    *)
(* interface, the reader thread that assembles lines from packets, the     *)
(* channel to the single dispatcher, and the writer that sends a response  *)
(* in chunks; with the host's end of the wire (webusb-transport.js) and a  *)
(* cable that may be unplugged at any point.  A byte of a request line is  *)
(* <<line number, position>>, a byte of a response <<number of the payload *)
(* it answers, position>>; what the bytes say is the engine's business.    *)
(***************************************************************************)
EXTENDS Naturals, Sequences, SequencesExt

CONSTANTS MAX_LINE_BYTES, \* cap on a request line
          Packet,         \* max_packet_len, and the writer's chunk
          LineSizes,      \* sizes of the lines the host sends
          ResponseSizes,  \* sizes of the responses, newline not counted
          MaxLines,       \* bound on lines sent
          MaxUnplugs,     \* bound on disconnects
          MaxErrors       \* bound on other errors of the USB calls

ASSUME WebUsbAssumption ==
  /\ {MAX_LINE_BYTES, Packet} \subseteq Nat \ {0}
  /\ LineSizes \subseteq Nat
  /\ ResponseSizes \subseteq Nat \ {0} \* a response is a JSON object
  /\ {MaxLines, MaxUnplugs, MaxErrors} \subseteq Nat

VARIABLES stage,      \* registrations done, or Parked
          link,       \* "up", "down" (unseen by the reader) or "waiting"
          sent,       \* history: [size, cr] of every line the host began
          tosend,     \* bytes of the host's current line not yet read
          chunk,      \* reader_loop's chunk: bytes of the packet still to come
          line,       \* reader_loop's line
          queue,      \* payloads in the mpsc channel
          dispatched, \* history: payloads taken by the dispatcher
          job,        \* the dispatcher: pc, response bytes still to write
          answered,   \* total_handled
          rx,         \* the host's lineBuffer
          got,        \* history: lines the host received
          hurt,       \* history: responses that lost a chunk
          unended,    \* history: responses whose newline was lost
          torn,       \* history: lines of which a packet was lost
          unplugs, errors

reader == <<chunk, line, queue>>
host == <<sent, tosend>>
wire == <<rx, got, hurt, unended, torn>>
vars == <<stage, link, host, reader, dispatched, job, answered, wire, unplugs, errors>>

LF == <<0, 0>>
CR == <<0, 1>>

Registrations == 6
Parked == Registrations + 1

Recv == [pc |-> "recv", left |-> <<>>]

Init == /\ stage = 0 /\ link = "up"
        /\ sent = <<>> /\ tosend = <<>>
        /\ chunk = <<>> /\ line = <<>> /\ queue = <<>>
        /\ dispatched = <<>> /\ job = Recv /\ answered = 0
        /\ rx = <<>> /\ got = <<>> /\ hurt = {} /\ unended = {} /\ torn = {}
        /\ unplugs = 0 /\ errors = 0

(* serve_blocking: two capabilities, the setup responder and the interface *)
(* are registered in turn, then the two threads map their buffers; if one  *)
(* of these fails the transport never serves (it parks, or returns).       *)
Register == /\ stage < Registrations
            /\ stage' \in {stage + 1, Parked}
            /\ UNCHANGED <<link, host, reader, dispatched, job, answered, wire, unplugs,
                           errors>>

Serving == stage = Registrations

(* A packet: the next max_packet_len bytes, or all that is left.           *)
PacketLen(bytes) == IF Len(bytes) < Packet THEN Len(bytes) ELSE Packet
Packed(bytes) == SubSeq(bytes, 1, PacketLen(bytes))
Rest(bytes) == SubSeq(bytes, PacketLen(bytes) + 1, Len(bytes))

Text(k, size) == [i \in 1..size |-> <<k, i>>]

(* What the host puts on the wire for its line k.                          *)
Wire(k, l) == Text(k, l.size) \o (IF l.cr THEN <<CR>> ELSE <<>>) \o <<LF>>

(* _writeLine: the host starts a line; it may not have had the answer to   *)
(* the one before (its timer ran out).  Only lines of full size come with  *)
(* a carriage return, a bound.                                             *)
WriteLine(size, cr) ==
  /\ Serving /\ link = "up" /\ tosend = <<>> /\ Len(sent) < MaxLines
  /\ cr => size = MAX_LINE_BYTES
  /\ LET l == [size |-> size, cr |-> cr]
     IN sent' = Append(sent, l) /\ tosend' = Wire(Len(sent) + 1, l)
  /\ UNCHANGED <<stage, link, reader, dispatched, job, answered, wire, unplugs, errors>>

(* reader_loop, read_buf Ok: one packet.                                   *)
ReadChunk ==
  /\ link = "up" /\ chunk = <<>> /\ tosend # <<>>
  /\ chunk' = Packed(tosend) /\ tosend' = Rest(tosend)
  /\ UNCHANGED <<stage, link, sent, line, queue, dispatched, job, answered, wire, unplugs,
                 errors>>

(* Mutant: the cap is tested with the byte to come counted.                *)
ReadByteShort ==
  /\ chunk # <<>>
  /\ LET b == Head(chunk)
     IN /\ line' = IF b = LF \/ (b # CR /\ Len(line) + 1 >= MAX_LINE_BYTES) THEN <<>>
                   ELSE IF b = CR THEN line ELSE Append(line, b)
        /\ queue' = IF b = LF /\ line # <<>> THEN Append(queue, line) ELSE queue
  /\ chunk' = Tail(chunk)
  /\ UNCHANGED <<stage, link, host, dispatched, job, answered, wire, unplugs, errors>>

(* Mutant: empty lines are sent on.                                        *)
ReadByteSendsEmpty ==
  /\ chunk # <<>>
  /\ LET b == Head(chunk)
     IN /\ line' = IF b = LF \/ (b # CR /\ Len(line) >= MAX_LINE_BYTES) THEN <<>>
                   ELSE IF b = CR THEN line ELSE Append(line, b)
        /\ queue' = IF b = LF THEN Append(queue, line) ELSE queue
  /\ chunk' = Tail(chunk)
  /\ UNCHANGED <<stage, link, host, dispatched, job, answered, wire, unplugs, errors>>

(* One byte in reader_loop: a newline sends the line unless it is empty, a *)
(* carriage return is skipped, and a byte that would exceed the cap is     *)
(* dropped with everything collected so far.  The dispatcher may take the  *)
(* line before the packet is over.                                         *)
ReadByte ==
  /\ chunk # <<>>
  /\ LET b == Head(chunk)
     IN /\ line' = IF b = LF \/ (b # CR /\ Len(line) >= MAX_LINE_BYTES) THEN <<>>
                   ELSE IF b = CR THEN line ELSE Append(line, b)
        /\ queue' = IF b = LF /\ line # <<>> THEN Append(queue, line) ELSE queue
  /\ chunk' = Tail(chunk)
  /\ UNCHANGED <<stage, link, host, dispatched, job, answered, wire, unplugs, errors>>

(* reader_loop, any other error: the packet is lost, the line is kept.     *)
ReadError ==
  /\ link = "up" /\ chunk = <<>> /\ tosend # <<>> /\ errors < MaxErrors
  /\ errors' = errors + 1
  /\ tosend' = Rest(tosend) /\ torn' = torn \cup {Len(sent)}
  /\ UNCHANGED <<stage, link, sent, reader, dispatched, job, answered, rx, got, hurt,
                 unended, unplugs>>

(* Mutant: the line begun before the disconnect is kept.                   *)
ReadDisconnectedKeepsLine ==
  /\ link = "down" /\ chunk = <<>>
  /\ link' = "waiting"
  /\ UNCHANGED <<stage, host, reader, dispatched, job, answered, wire, unplugs, errors>>

(* reader_loop, HostDisconnected: the line is cleared, the reader waits.   *)
ReadDisconnected ==
  /\ link = "down" /\ chunk = <<>>
  /\ link' = "waiting" /\ line' = <<>>
  /\ UNCHANGED <<stage, host, chunk, queue, dispatched, job, answered, wire, unplugs, errors>>

(* The dispatcher takes the next payload and hands it to the engine.       *)
Dispatch ==
  /\ Serving /\ job.pc = "recv" /\ queue # <<>>
  /\ dispatched' = Append(dispatched, Head(queue))
  /\ queue' = Tail(queue)
  /\ job' = [job EXCEPT !.pc = "engine"]
  /\ UNCHANGED <<stage, link, host, chunk, line, answered, wire, unplugs, errors>>

(* Mutant: the newline is not appended.                                    *)
RespondNoNewline(size) ==
  /\ job.pc = "engine"
  /\ job' = [pc |-> "write", left |-> Text(Len(dispatched), size)]
  /\ UNCHANGED <<stage, link, host, reader, dispatched, answered, wire, unplugs, errors>>

(* The engine has answered (or the line did not parse: InvalidRequest).    *)
Respond(size) ==
  /\ job.pc = "engine"
  /\ job' = [pc |-> "write", left |-> Append(Text(Len(dispatched), size), LF)]
  /\ UNCHANGED <<stage, link, host, reader, dispatched, answered, wire, unplugs, errors>>

(* The for loop over the chunks goes on, or is over.                       *)
NextChunk(pc) ==
  IF Rest(job.left) = <<>> /\ pc = "write"
  THEN job' = Recv /\ answered' = answered + 1
  ELSE job' = [pc |-> pc, left |-> Rest(job.left)] /\ UNCHANGED answered

(* The host's _readLoop adds the packet to its lineBuffer and cuts lines   *)
(* at newlines, skipping empty ones.  A packet has one newline at most and *)
(* as its last byte: responses are written in packets of their own.        *)
HostReads(packet) ==
  LET buffer == rx \o packet
      cut    == SubSeq(buffer, 1, Len(buffer) - 1)
  IN IF buffer[Len(buffer)] = LF
     THEN rx' = <<>> /\ got' = IF cut = <<>> THEN got ELSE Append(got, cut)
     ELSE rx' = buffer /\ got' = got

WriteOk ==
  /\ job.pc = "write" /\ link = "up"
  /\ HostReads(Packed(job.left))
  /\ NextChunk("write")
  /\ UNCHANGED <<stage, link, host, reader, dispatched, hurt, unended, torn, unplugs, errors>>

(* A chunk that is not written is not tried again.                         *)
Skip == /\ hurt' = hurt \cup {Len(dispatched)}
        /\ unended' = IF Rest(job.left) = <<>> THEN unended \cup {Len(dispatched)}
                      ELSE unended
        /\ UNCHANGED <<rx, got, torn>>

WriteError ==
  /\ job.pc = "write" /\ link = "up" /\ errors < MaxErrors
  /\ errors' = errors + 1
  /\ Skip /\ NextChunk("write")
  /\ UNCHANGED <<stage, link, host, reader, dispatched, unplugs>>

(* HostDisconnected: the chunk is skipped, then wait_for_connection.       *)
WriteDisconnected ==
  /\ job.pc = "write" /\ link # "up"
  /\ Skip /\ NextChunk("reconnect")
  /\ UNCHANGED <<stage, link, host, reader, dispatched, unplugs, errors>>

(* Mutant: the writer waits for the host's next request.                   *)
WriterResumesStuck ==
  /\ job.pc = "reconnect" /\ link = "up" /\ queue # <<>>
  /\ IF job.left = <<>> THEN job' = Recv /\ answered' = answered + 1
     ELSE job' = [job EXCEPT !.pc = "write"] /\ UNCHANGED answered
  /\ UNCHANGED <<stage, link, host, reader, dispatched, wire, unplugs, errors>>

(* ... connected again, the loop goes on with the next chunk.              *)
WriterResumes ==
  /\ job.pc = "reconnect" /\ link = "up"
  /\ IF job.left = <<>> THEN job' = Recv /\ answered' = answered + 1
     ELSE job' = [job EXCEPT !.pc = "write"] /\ UNCHANGED answered
  /\ UNCHANGED <<stage, link, host, reader, dispatched, wire, unplugs, errors>>

(* wait_for_connection may fail; the loop goes on all the same.            *)
WaitFails ==
  /\ job.pc = "reconnect" /\ errors < MaxErrors
  /\ errors' = errors + 1
  /\ IF job.left = <<>> THEN job' = Recv /\ answered' = answered + 1
     ELSE job' = [job EXCEPT !.pc = "write"] /\ UNCHANGED answered
  /\ UNCHANGED <<stage, link, host, reader, dispatched, wire, unplugs>>

(* The cable is pulled: the host forgets what it was sending and what it   *)
(* had of a line.  A response that is partly written is hurt.              *)
Unplug ==
  /\ Serving /\ link = "up" /\ unplugs < MaxUnplugs
  /\ unplugs' = unplugs + 1
  /\ link' = "down" /\ tosend' = <<>> /\ rx' = <<>>
  /\ hurt' = IF job.pc = "write" THEN hurt \cup {Len(dispatched)} ELSE hurt
  /\ UNCHANGED <<stage, sent, reader, dispatched, job, answered, got, unended, torn, errors>>

(* It is plugged in again.  The reader has nothing to do but read, so it   *)
(* has seen the disconnect by then; the writer may not have.               *)
Plug == /\ link = "waiting" /\ link' = "up"
        /\ UNCHANGED <<stage, host, reader, dispatched, job, answered, wire, unplugs, errors>>

Reader == ReadChunk \/ ReadByte \/ ReadDisconnected
Dispatcher == \/ Dispatch \/ WriteOk \/ WriteDisconnected \/ WriterResumes
              \/ \E size \in ResponseSizes : Respond(size)

Next == \/ Register \/ Reader \/ Dispatcher \/ Unplug \/ Plug
        \/ ReadError \/ WriteError \/ WaitFails
        \/ \E size \in LineSizes, cr \in BOOLEAN : WriteLine(size, cr)

(* The two threads run.  The engine answers: its handler waits for nothing *)
(* but the approval, which comes (SlintApprover, EveryRequestAnswered).    *)
Fairness == WF_vars(Reader) /\ WF_vars(Dispatcher)

Spec == Init /\ [][Next]_vars /\ Fairness
-----------------------------------------------------------------------------
(* Payloads the reader has accepted so far.                                *)
Accepted == dispatched \o queue

(* Type invariant: no request is empty or over the cap, and the count of   *)
(* answers keeps up with the dispatcher (webusb.rs total_handled).         *)
TypeOK == /\ stage \in 0..Parked /\ link \in {"up", "down", "waiting"}
          /\ Len(line) <= MAX_LINE_BYTES
          /\ \A i \in DOMAIN Accepted : Len(Accepted[i]) \in 1..MAX_LINE_BYTES
          /\ job.pc \in {"recv", "engine", "write", "reconnect"}
          /\ answered + (IF job.pc = "recv" THEN 0 ELSE 1) = Len(dispatched)
          /\ hurt \cup unended \subseteq DOMAIN dispatched /\ torn \subseteq DOMAIN sent
          /\ {unplugs, errors} \subseteq Nat

(* What the reader has left of line k at its newline: the whole line or,   *)
(* of a line longer than the cap, what follows its last dropped byte.      *)
Kept(k) ==
  LET dropped == (MAX_LINE_BYTES + 1) * (sent[k].size \div (MAX_LINE_BYTES + 1))
  IN SubSeq(Text(k, sent[k].size), dropped + 1, sent[k].size)

TailOf(payload, k) == payload = Kept(k)

(* No request is put together from two lines, and no line that fits the    *)
(* cap is dispatched in part, wherever packets end and the cable is        *)
(* pulled, unless the read of a packet of that line or the one before      *)
(* failed; and requests keep the host's order (webusb.rs reader_loop:      *)
(* line.clear() on a disconnect and at the cap).  The end of an over-long  *)
(* line is still bytes of one line; that it becomes a request at all is    *)
(* what OverCapIsRejected is about.                                        *)
NothingSpliced ==
  /\ \A i \in DOMAIN Accepted :
       \/ \E k \in DOMAIN sent : TailOf(Accepted[i], k)
       \/ Accepted[i][1][1] \in torn \/ Accepted[i][1][1] - 1 \in torn
  /\ \A i, j \in DOMAIN Accepted : i < j => Accepted[i][1][1] < Accepted[j][1][1]

(* LineSplitter::push of frame.rs, byte by byte; LineTooLong ends the push *)
(* and loses the lines it had found.                                       *)
PushByte(s, b) ==
  CASE s.err -> s
    [] ~s.err /\ b = LF -> [s EXCEPT !.buf = <<>>, !.out = Append(@, s.buf)]
    [] ~s.err /\ b # LF -> IF Len(s.buf) >= MAX_LINE_BYTES
                           THEN [buf |-> <<>>, out |-> <<>>, err |-> TRUE]
                           ELSE [s EXCEPT !.buf = Append(@, b)]

Splitter(bytes) == FoldLeft(PushByte, [buf |-> <<>>, out |-> <<>>, err |-> FALSE], bytes)

AllSent == FlattenSeq([k \in DOMAIN sent |-> Wire(k, sent[k])])

NonEmpty(lines) == SelectSeq(lines, LAMBDA l : l # <<>>)

(* The reader's own loop against the protocol crate's LineSplitter, given  *)
(* the same bytes of an undisturbed connection without CRs (webusb.rs      *)
(* reader_loop against frame.rs push, which the transport does not use).   *)
(* They accept the same requests of a stream without a line over the cap.  *)
(* They part at the first one: LineSplitter gives the stream up, the       *)
(* reader accepts the end of that line and every line after it.            *)
ReaderAgainstLineSplitter ==
  unplugs = 0 /\ torn = {} /\ tosend = <<>> /\ chunk = <<>>
  /\ (\A k \in DOMAIN sent : ~sent[k].cr) =>
    LET s == Splitter(AllSent)
    IN /\ s.err <=> \E k \in DOMAIN sent : sent[k].size > MAX_LINE_BYTES
       /\ ~s.err => Accepted = NonEmpty(s.out)
       /\ Accepted = NonEmpty([k \in DOMAIN sent |-> Kept(k)])

(* "A line longer than 16 KiB is rejected" (docs/PROTOCOL.md): no byte of  *)
(* a line over the cap becomes a request.                                  *)
OverCapIsRejected ==
  \A i \in DOMAIN Accepted : sent[Accepted[i][1][1]].size <= MAX_LINE_BYTES

Whole(l) == \E d \in DOMAIN dispatched, n \in ResponseSizes : l = Text(d, n)

(* A chunk that could not be written spoils its own response and, if it    *)
(* held the newline, the next one; every other response that was written   *)
(* reaches the host whole, and what reaches it otherwise contains bytes of *)
(* a spoilt one (webusb.rs serve_blocking, the chunk loop).                *)
DamageIsLocal ==
  /\ \A d \in 1..answered : d \notin hurt /\ d - 1 \notin unended
       => \E i \in DOMAIN got : Whole(got[i]) /\ got[i][1][1] = d
  /\ \A i \in DOMAIN got : \/ Whole(got[i])
                           \/ \E j \in DOMAIN got[i] : got[i][j][1] \in hurt

(* Every line the reader has accepted is answered, late or in part if the  *)
(* cable was pulled, as long as the host comes back: a lost chunk, a       *)
(* disconnect in the middle of a response or a line that does not parse    *)
(* never stops the one dispatcher (webusb.rs serve_blocking).              *)
EveryLineAnswered ==
  []<>(link = "up") =>
    \A d \in 1..MaxLines : Len(Accepted) >= d ~> answered >= d
=============================================================================
